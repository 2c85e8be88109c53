-------------------------- MODULE BotConnectionProofs --------------------------
(***************************************************************************)
(* For any number of operations under way and any bounds: the types of     *)
(* BotConnection, that a bot that was given up on, refused or stopped has  *)
(* no retry ahead of it, that what a connect shows as connected is, and    *)
(* that a round of attempts has the length the manager says.               *)
(***************************************************************************)
EXTENDS BotConnection, TLAPS

JobSet == [at : {"idle", "grace", "wait", "store", "resolve", "connect"}, auto : BOOLEAN]

Quiet(b) == ~b.timer /\ b.attempts = 0

\* Why a stop is final: no retry is ahead, and no attempt is left that could schedule another.
Rest == (bot.manual \/ bot.fatal) /\ ~crossed => Quiet(bot) /\ ~Attempting

GraceIsAttempt == \A j \in Jobs : job[j].at = "grace" => job[j].auto

BotInv == TypeOK /\ (bot.gaveUp => Quiet(bot)) /\ Rest /\ GraceIsAttempt

\* A state of the bot from which scheduling keeps the invariant.
Fine(b) == b \in BotSet /\ (b.gaveUp => Quiet(b))

LEMMA ClearedFine ==
  ASSUME NEW b \in BotSet
  PROVE  /\ Fine(Cleared(b)) /\ Quiet(Cleared(b)) /\ ~Cleared(b).gaveUp
         /\ Cleared(b).manual = b.manual /\ Cleared(b).fatal = b.fatal
         /\ Cleared(b).status = b.status
<1>1. 0 \in 0 .. MaxAttempts
  BY BotAssumption
<1>2. Cleared(b) \in BotSet
  BY <1>1 DEF BotSet, Cleared
<1>3. /\ Quiet(Cleared(b)) /\ ~Cleared(b).gaveUp
      /\ Cleared(b).manual = b.manual /\ Cleared(b).fatal = b.fatal
      /\ Cleared(b).status = b.status
  BY DEF BotSet, Cleared, Quiet
<1>4. QED
  BY <1>2, <1>3 DEF Fine

LEMMA NextTryFine ==
  ASSUME NEW b \in BotSet, ~b.timer, ~b.gaveUp
  PROVE  /\ Fine(NextTry(b))
         /\ NextTry(b).manual = b.manual /\ NextTry(b).fatal = b.fatal
<1>1. CASE b.attempts >= MaxAttempts
  <2>1. NextTry(b) = [b EXCEPT !.gaveUp = TRUE, !.attempts = 0]
    BY <1>1 DEF NextTry
  <2>2. 0 \in 0 .. MaxAttempts
    BY BotAssumption
  <2>3. NextTry(b) \in BotSet
    BY <2>1, <2>2 DEF BotSet
  <2>4. /\ Quiet(NextTry(b))
        /\ NextTry(b).manual = b.manual /\ NextTry(b).fatal = b.fatal
    BY <2>1 DEF BotSet, Quiet
  <2>5. QED
    BY <2>3, <2>4 DEF Fine
<1>2. CASE ~(b.attempts >= MaxAttempts)
  <2>1. b.attempts + 1 \in 0 .. MaxAttempts
    BY <1>2, BotAssumption DEF BotSet
  <2>2. NextTry(b) = [b EXCEPT !.attempts = @ + 1, !.timer = TRUE]
    BY <1>2 DEF NextTry
  <2>3. QED
    BY <2>1, <2>2 DEF BotSet, Fine
<1>3. QED
  BY <1>1, <1>2

LEMMA ScheduledFine ==
  ASSUME NEW b, Fine(b)
  PROVE  /\ Fine(Scheduled(b))
         /\ Scheduled(b).manual = b.manual /\ Scheduled(b).fatal = b.fatal
         /\ b.fatal /\ Quiet(b) => Quiet(Scheduled(b))
<1>1. b \in BotSet /\ b.there \in BOOLEAN /\ b.fatal \in BOOLEAN /\ b.gaveUp \in BOOLEAN /\ b.timer \in BOOLEAN
  BY DEF Fine, BotSet
<1>2. CASE ~b.there
  BY <1>2 DEF Scheduled
<1>3. CASE b.there /\ b.fatal
  <2>1. Scheduled(b) = Cleared(b)
    BY <1>3 DEF Scheduled
  <2>2. QED
    BY <2>1, <1>1, ClearedFine
<1>4. CASE b.there /\ ~b.fatal /\ (b.gaveUp \/ b.timer)
  <2>1. Scheduled(b) = b
    BY <1>4 DEF Scheduled
  <2>2. QED
    BY <2>1
<1>5. CASE b.there /\ ~b.fatal /\ ~(b.gaveUp \/ b.timer)
  <2>1. Scheduled(b) = NextTry(b)
    BY <1>5 DEF Scheduled
  <2>2. QED
    BY <2>1, <1>1, <1>5, NextTryFine
<1>6. QED
  BY <1>1, <1>2, <1>3, <1>4, <1>5

LEMMA DownFine ==
  ASSUME NEW b, Fine(b)
  PROVE  /\ Fine(Down(b))
         /\ Down(b).manual = b.manual /\ Down(b).fatal = b.fatal
         /\ (b.manual \/ b.fatal) /\ Quiet(b) => Quiet(Down(b))
<1> DEFINE c == [Closed(b) EXCEPT !.status = "stopped"]
<1>1. /\ Fine(c) /\ c.manual = b.manual /\ c.fatal = b.fatal
      /\ Quiet(b) => Quiet(c)
  BY DEF Fine, BotSet, Closed, Quiet
<1>2. CASE b.manual \/ b.fatal
  <2>1. Down(b) = c
    BY <1>2 DEF Down
  <2>2. QED
    BY <1>1, <2>1
<1>3. CASE ~(b.manual \/ b.fatal)
  <2>1. Down(b) = Scheduled(c)
    BY <1>3 DEF Down
  <2> HIDE DEF c
  <2>2. QED
    BY <1>1, <1>3, <2>1, ScheduledFine
<1>4. QED
  BY <1>2, <1>3

\* The connects that fail: if the bot rests, none of them is an attempt.
LEMMA RejectedKeeps ==
  ASSUME job \in [Jobs -> JobSet], GraceIsAttempt, Rest, NEW b, Fine(b), NEW D \in SUBSET Jobs, Rejected(b, D),
         b.manual = bot.manual, b.fatal = bot.fatal,
         (bot.manual \/ bot.fatal) /\ Quiet(bot) => Quiet(b)
  PROVE  /\ Fine(bot') /\ job' \in [Jobs -> JobSet] /\ GraceIsAttempt'
         /\ bot'.manual = b.manual /\ bot'.fatal = b.fatal
         /\ \A j \in Jobs : job'[j].auto => job[j].auto
         /\ (bot'.manual \/ bot'.fatal) /\ ~crossed => Quiet(bot') /\ ~Attempting'
<1>1. Idle \in JobSet /\ Idle.at = "idle" /\ ~Idle.auto
  BY DEF Idle, JobSet
<1>2. job' = [j \in Jobs |-> IF j \in D THEN Idle ELSE job[j]]
  BY DEF Rejected
<1>3. job' \in [Jobs -> JobSet]
  BY <1>1, <1>2
<1>4. \A j \in Jobs : job'[j] = Idle \/ job'[j] = job[j]
  BY <1>2
<1>5. GraceIsAttempt' /\ \A j \in Jobs : job'[j].auto => job[j].auto
  BY <1>1, <1>4 DEF GraceIsAttempt
<1>6. bot' = b \/ (bot' = Scheduled(b) /\ \E j \in D : job[j].auto)
  BY DEF Rejected
<1>7. Fine(bot') /\ bot'.manual = b.manual /\ bot'.fatal = b.fatal
  BY <1>6, ScheduledFine
<1>8. ASSUME bot'.manual \/ bot'.fatal, ~crossed
      PROVE  Quiet(bot') /\ ~Attempting'
  <2>1. Quiet(bot) /\ ~Attempting
    BY <1>7, <1>8 DEF Rest
  <2>2. bot' = b
    BY <1>6, <2>1 DEF Attempting
  <2>3. QED
    BY <1>5, <1>7, <1>8, <2>1, <2>2 DEF Attempting
<1>9. QED
  BY <1>3, <1>5, <1>7, <1>8

\* A start ends the rest, or it is refused and nothing comes of it.
LEMMA StartsKeeps ==
  ASSUME job \in [Jobs -> JobSet], GraceIsAttempt, Rest, NEW b, Fine(b),
         NEW j \in Jobs, NEW auto \in BOOLEAN, auto => job[j].auto, Starts(j, b, auto),
         b.manual = bot.manual, b.fatal = bot.fatal, Quiet(bot) => Quiet(b),
         crossed' \in BOOLEAN, crossed => crossed'
  PROVE  Fine(bot') /\ job' \in [Jobs -> JobSet] /\ GraceIsAttempt' /\ Rest'
<1>1. Idle \in JobSet /\ Idle.at = "idle" /\ ~Idle.auto
  BY DEF Idle, JobSet
<1>2. CASE b.status \in Shown
  <2>1. bot' = (IF auto THEN Scheduled(b) ELSE b) /\ job' = [job EXCEPT ![j] = Idle]
    BY <1>2 DEF Starts
  <2>2. job' \in [Jobs -> JobSet] /\ \A i \in Jobs : job'[i] = Idle \/ job'[i] = job[i]
    BY <1>1, <2>1
  <2>3. GraceIsAttempt' /\ \A i \in Jobs : job'[i].auto => job[i].auto
    BY <1>1, <2>2 DEF GraceIsAttempt
  <2>4. Fine(bot') /\ bot'.manual = b.manual /\ bot'.fatal = b.fatal
    BY <2>1, ScheduledFine
  <2>5. ASSUME bot'.manual \/ bot'.fatal, ~crossed'
        PROVE  Quiet(bot') /\ ~Attempting'
    <3>1. Quiet(b) /\ ~Attempting
      BY <2>4, <2>5 DEF Rest
    <3>2. bot' = b
      BY <2>1, <3>1 DEF Attempting
    <3>3. QED
      BY <2>3, <3>1, <3>2 DEF Attempting
  <2>6. QED
    BY <2>2, <2>3, <2>4, <2>5 DEF Rest
<1>3. CASE b.status \notin Shown
  <2>1. /\ bot' = [b EXCEPT !.manual = FALSE, !.fatal = FALSE, !.status = "starting", !.sock = "init"]
        /\ job' = [job EXCEPT ![j] = [at |-> "resolve", auto |-> auto]]
    BY <1>3 DEF Starts
  <2>2. [at |-> "resolve", auto |-> auto] \in JobSet
    BY DEF JobSet
  <2>3. job' \in [Jobs -> JobSet] /\ GraceIsAttempt'
    BY <2>1, <2>2 DEF GraceIsAttempt
  <2>4. bot' \in BotSet
    BY <2>1 DEF Fine, BotSet
  <2>5. /\ bot'.gaveUp = b.gaveUp /\ (Quiet(b) => Quiet(bot'))
        /\ ~bot'.manual /\ ~bot'.fatal
    BY <2>1 DEF Fine, BotSet, Quiet
  <2>6. QED
    BY <2>3, <2>4, <2>5 DEF Fine, Rest
<1>4. QED
  BY <1>2, <1>3

\* A stop clears the retry.
LEMMA StopsKeeps ==
  ASSUME NEW b \in BotSet, Stops(b)
  PROVE  Fine(bot') /\ Quiet(bot') /\ crossed' = Attempting
<1> DEFINE c == Cleared(b)
<1>1. c \in BotSet /\ Quiet(c) /\ ~c.gaveUp
  BY ClearedFine DEF Fine
<1>2. bot' = [Disconnect(c) EXCEPT !.manual = TRUE] /\ crossed' = Attempting
  BY DEF Stops
<1> HIDE DEF c
<1>3. Disconnect(c) \in BotSet /\ Quiet(Disconnect(c)) /\ ~Disconnect(c).gaveUp
  BY <1>1 DEF Disconnect, BotSet, Quiet
<1>4. QED
  BY <1>2, <1>3 DEF BotSet, Quiet, Fine

\* The bounds and histories keep their types.
Counters ==
  /\ cleanups \in 0 .. MaxCleanups /\ tries \in Nat /\ crossed \in BOOLEAN
  /\ used \in [faults : 0 .. MaxFaults, glitches : 0 .. MaxGlitches, commands : 0 .. MaxCommands]

LEMMA TypeParts == TypeOK <=> bot \in BotSet /\ job \in [Jobs -> JobSet] /\ Counters
BY DEF TypeOK, JobSet, Counters

LEMMA InvParts ==
  BotInv <=> Fine(bot) /\ job \in [Jobs -> JobSet] /\ Counters /\ Rest /\ GraceIsAttempt
BY TypeParts DEF BotInv, Fine

LEMMA InvPartsNext ==
  Fine(bot') /\ job' \in [Jobs -> JobSet] /\ Counters' /\ Rest' /\ GraceIsAttempt' => BotInv'
<1>1. bot' \in BotSet /\ job' \in [Jobs -> JobSet] /\ Counters' => TypeOK'
  BY DEF TypeOK, JobSet, Counters
<1>2. QED
  BY <1>1 DEF BotInv, Fine

LEMMA BoundsKept ==
  ASSUME Counters
  PROVE  /\ Fault => used' \in [faults : 0 .. MaxFaults, glitches : 0 .. MaxGlitches, commands : 0 .. MaxCommands]
         /\ Glitch => used' \in [faults : 0 .. MaxFaults, glitches : 0 .. MaxGlitches, commands : 0 .. MaxCommands]
         /\ Command => used' \in [faults : 0 .. MaxFaults, glitches : 0 .. MaxGlitches, commands : 0 .. MaxCommands]
         /\ CleanupComes => cleanups' \in 0 .. MaxCleanups
         /\ cleanups > 0 => cleanups - 1 \in 0 .. MaxCleanups
         /\ 0 \in Nat /\ tries + 1 \in Nat
<1>1. /\ \A n \in 0 .. MaxFaults : n < MaxFaults => n + 1 \in 0 .. MaxFaults
      /\ \A n \in 0 .. MaxGlitches : n < MaxGlitches => n + 1 \in 0 .. MaxGlitches
      /\ \A n \in 0 .. MaxCommands : n < MaxCommands => n + 1 \in 0 .. MaxCommands
      /\ \A n \in 0 .. MaxCleanups : n < MaxCleanups => n + 1 \in 0 .. MaxCleanups
      /\ \A n \in 0 .. MaxCleanups : n > 0 => n - 1 \in 0 .. MaxCleanups
  BY BotAssumption
<1>2. QED
  BY <1>1 DEF Counters, Fault, Glitch, Command, CleanupComes

\* A job that only waits elsewhere keeps what it is.
LEMMA WaitsElsewhere ==
  ASSUME job \in [Jobs -> JobSet], GraceIsAttempt, NEW j \in Jobs,
         NEW w \in {"wait", "store", "connect"}, job' = [job EXCEPT ![j].at = w]
  PROVE  job' \in [Jobs -> JobSet] /\ GraceIsAttempt' /\ (Attempting' => Attempting)
<1>1. [job[j] EXCEPT !.at = w] \in JobSet /\ [job[j] EXCEPT !.at = w].auto = job[j].auto
      /\ [job[j] EXCEPT !.at = w].at = w
  BY DEF JobSet
<1>2. /\ job'[j] = [job[j] EXCEPT !.at = w] /\ job' \in [Jobs -> JobSet]
      /\ \A i \in Jobs : i # j => job'[i] = job[i]
  BY <1>1
<1>3. QED
  BY <1>1, <1>2 DEF GraceIsAttempt, Attempting

LEMMA CommandsKeep ==
  ASSUME BotInv, NEW j \in Jobs, StartBot(j) \/ StopBot \/ RestartBot(j) \/ JoinChannel(j) \/ RemoveBot
  PROVE  BotInv'
<1>1. Fine(bot) /\ bot \in BotSet /\ job \in [Jobs -> JobSet] /\ Counters /\ Rest /\ GraceIsAttempt
  BY InvParts DEF Fine
<1>2. Attempting \in BOOLEAN /\ crossed \in BOOLEAN
  BY <1>1 DEF Attempting, Counters
<1>3. CASE StartBot(j)
  <2>1. /\ Starts(j, Cleared(bot), FALSE) /\ crossed' = (crossed \/ Beside(j))
        /\ Command /\ tries' = 0 /\ cleanups' = cleanups
    BY <1>3 DEF StartBot
  <2>2. crossed' \in BOOLEAN /\ (crossed => crossed')
    BY <1>2, <2>1 DEF Beside
  <2>3. Fine(bot') /\ job' \in [Jobs -> JobSet] /\ GraceIsAttempt' /\ Rest'
    BY <1>1, <2>1, <2>2, ClearedFine, StartsKeeps
  <2>4. Counters'
    BY <1>1, <2>1, <2>2, BoundsKept DEF Counters
  <2>5. QED
    BY <2>3, <2>4, InvPartsNext
<1>4. CASE StopBot
  <2>1. Stops(bot) /\ Command /\ CleanupComes /\ tries' = 0 /\ job' = job
    BY <1>4 DEF StopBot, Stops
  <2>2. Fine(bot') /\ Quiet(bot') /\ crossed' = Attempting
    BY <1>1, <2>1, StopsKeeps
  <2>3. Rest' /\ GraceIsAttempt'
    BY <1>1, <2>1, <2>2 DEF Rest, Attempting, GraceIsAttempt
  <2>4. Counters'
    BY <1>1, <1>2, <2>1, <2>2, BoundsKept DEF Counters
  <2>5. QED
    BY <1>1, <2>1, <2>2, <2>3, <2>4, InvPartsNext
<1>5. ASSUME NEW w \in {"wait", "store"}, Stops(bot), Command, tries' = 0, job' = [job EXCEPT ![j].at = w]
      PROVE  BotInv'
  <2>1. CleanupComes
    BY <1>5 DEF Stops
  <2>2. Fine(bot') /\ Quiet(bot') /\ crossed' = Attempting
    BY <1>1, <1>5, StopsKeeps
  <2>3. job' \in [Jobs -> JobSet] /\ GraceIsAttempt' /\ (Attempting' => Attempting)
    BY <1>1, <1>5, WaitsElsewhere
  <2>4. Counters'
    BY <1>1, <1>2, <1>5, <2>1, <2>2, BoundsKept DEF Counters
  <2>5. QED
    BY <2>2, <2>3, <2>4, InvPartsNext DEF Rest
<1>6. CASE RestartBot(j)
  BY <1>5, <1>6 DEF RestartBot
<1>7. CASE JoinChannel(j)
  BY <1>5, <1>7 DEF JoinChannel
<1>8. CASE RemoveBot
  <2>1. [bot EXCEPT !.there = FALSE] \in BotSet
    BY <1>1 DEF BotSet
  <2>2. Fine(bot') /\ Quiet(bot') /\ crossed' = Attempting /\ (cleanups' = cleanups \/ CleanupComes)
    <3>1. CASE bot.status = "stopped"
      <4>1. bot' = [Cleared(bot) EXCEPT !.there = FALSE] /\ crossed' = Attempting /\ cleanups' = cleanups
        BY <1>8, <3>1 DEF RemoveBot
      <4>2. Cleared(bot) \in BotSet /\ Quiet(Cleared(bot))
        BY <1>1, ClearedFine DEF Fine
      <4> DEFINE c == Cleared(bot)
      <4> HIDE DEF c
      <4>3. c \in BotSet /\ Quiet(c) /\ bot' = [c EXCEPT !.there = FALSE]
        BY <4>1, <4>2 DEF c
      <4>4. bot' \in BotSet /\ Quiet(bot')
        BY <4>3 DEF BotSet, Quiet
      <4>5. QED
        BY <4>1, <4>4 DEF Fine
    <3>2. CASE bot.status # "stopped"
      <4>1. Stops([bot EXCEPT !.there = FALSE])
        BY <1>8, <3>2 DEF RemoveBot
      <4>2. QED
        BY <2>1, <4>1, StopsKeeps DEF Stops
    <3>3. QED
      BY <3>1, <3>2
  <2>3. Command /\ tries' = 0 /\ job' = job
    BY <1>8 DEF RemoveBot
  <2>4. Rest' /\ GraceIsAttempt'
    BY <1>1, <2>2, <2>3 DEF Rest, Attempting, GraceIsAttempt
  <2>5. Counters'
    BY <1>1, <1>2, <2>2, <2>3, BoundsKept DEF Counters
  <2>6. QED
    BY <1>1, <2>2, <2>3, <2>4, <2>5, InvPartsNext
<1>9. QED
  BY <1>3, <1>4, <1>6, <1>7, <1>8

\* The connects of D fail in b; nothing that bears on the rest changes.
LEMMA RejectedSteps ==
  ASSUME BotInv, NEW b, Fine(b), NEW D \in SUBSET Jobs, Rejected(b, D),
         b.manual = bot.manual, b.fatal = bot.fatal,
         (bot.manual \/ bot.fatal) /\ Quiet(bot) => Quiet(b),
         crossed' = crossed, tries' = tries,
         used' = used \/ Fault \/ Glitch, cleanups' = cleanups \/ CleanupComes
  PROVE  BotInv'
<1>1. job \in [Jobs -> JobSet] /\ Counters /\ Rest /\ GraceIsAttempt
  BY InvParts
<1>2. /\ Fine(bot') /\ job' \in [Jobs -> JobSet] /\ GraceIsAttempt'
      /\ (bot'.manual \/ bot'.fatal) /\ ~crossed => Quiet(bot') /\ ~Attempting'
  BY <1>1, RejectedKeeps
<1>3. Rest'
  BY <1>2 DEF Rest
<1>4. Counters'
  BY <1>1, BoundsKept DEF Counters
<1>5. QED
  BY <1>2, <1>3, <1>4, InvPartsNext

LEMMA ConnectingKeeps ==
  ASSUME BotInv, NEW j \in Jobs, Resolved(j) \/ NotResolved(j) \/ TimesOut(j)
  PROVE  BotInv'
<1>1. Fine(bot) /\ bot \in BotSet /\ job \in [Jobs -> JobSet] /\ Counters /\ Rest /\ GraceIsAttempt
  BY InvParts DEF Fine
<1>2. CASE Resolved(j) /\ bot.sock = "init"
  <2>1. /\ bot' = [bot EXCEPT !.open = TRUE] /\ job' = [job EXCEPT ![j].at = "connect"]
        /\ UNCHANGED <<cleanups, tries, crossed, used>>
    BY <1>2 DEF Resolved
  <2>2. job' \in [Jobs -> JobSet] /\ GraceIsAttempt' /\ (Attempting' => Attempting)
    BY <1>1, <2>1, WaitsElsewhere
  <2>3. Fine(bot') /\ (Quiet(bot) => Quiet(bot')) /\ bot'.manual = bot.manual /\ bot'.fatal = bot.fatal
    BY <1>1, <2>1 DEF Fine, BotSet, Quiet
  <2>4. Rest' /\ Counters'
    BY <1>1, <2>1, <2>2, <2>3 DEF Rest, Counters
  <2>5. QED
    BY <2>2, <2>3, <2>4, InvPartsNext
<1>3. CASE Resolved(j) /\ bot.sock # "init"
  <2>1. Rejected(bot, {j}) /\ UNCHANGED <<cleanups, tries, crossed, used>>
    BY <1>3 DEF Resolved
  <2>2. QED
    BY <1>1, <2>1, RejectedSteps
<1>4. CASE NotResolved(j)
  <2>1. Rejected(Down(bot), {j}) /\ Fault /\ UNCHANGED <<cleanups, tries, crossed>>
    BY <1>4 DEF NotResolved
  <2>2. QED
    BY <1>1, <2>1, DownFine, RejectedSteps
<1>5. CASE TimesOut(j)
  <2>1. /\ Rejected(bot, {j}) /\ CleanupComes /\ UNCHANGED <<tries, crossed>>
        /\ used' = used \/ Fault
    BY <1>5 DEF TimesOut
  <2>2. QED
    BY <1>1, <2>1, RejectedSteps
<1>6. QED
  BY <1>2, <1>3, <1>4, <1>5

LEMMA WaitingKeeps ==
  ASSUME BotInv, NEW j \in Jobs, RestartGoes(j) \/ JoinStarts(j) \/ GraceEnds(j) \/ TimerFires(j)
  PROVE  BotInv'
<1>1. Fine(bot) /\ bot \in BotSet /\ job \in [Jobs -> JobSet] /\ Counters /\ Rest /\ GraceIsAttempt
  BY InvParts DEF Fine
<1>2. crossed \in BOOLEAN /\ bot.timer \in BOOLEAN /\ Beside(j) \in BOOLEAN /\ job[j].auto \in BOOLEAN
  BY <1>1 DEF Counters, BotSet, Beside, JobSet
<1>3. Idle \in JobSet /\ Idle.at = "idle" /\ ~Idle.auto
  BY DEF Idle, JobSet
<1>4. CASE RestartGoes(j)
  <2>1. /\ Starts(j, bot, FALSE) /\ crossed' = (crossed \/ Beside(j) \/ bot.timer)
        /\ tries' = 0 /\ UNCHANGED <<cleanups, used>>
    BY <1>4 DEF RestartGoes
  <2>2. crossed' \in BOOLEAN /\ (crossed => crossed')
    BY <1>2, <2>1
  <2>3. Fine(bot') /\ job' \in [Jobs -> JobSet] /\ GraceIsAttempt' /\ Rest'
    BY <1>1, <2>1, <2>2, StartsKeeps
  <2>4. Counters'
    BY <1>1, <2>1, <2>2 DEF Counters
  <2>5. QED
    BY <2>3, <2>4, InvPartsNext
<1>5. CASE JoinStarts(j)
  <2>1. crossed' = (crossed \/ Beside(j)) /\ tries' = 0 /\ UNCHANGED <<cleanups, used>>
    BY <1>5 DEF JoinStarts
  <2>2. crossed' \in BOOLEAN /\ (crossed => crossed')
    BY <1>2, <2>1
  <2>3. Fine(bot') /\ job' \in [Jobs -> JobSet] /\ GraceIsAttempt' /\ Rest'
    <3>1. CASE bot.there
      <4>1. Starts(j, Cleared(bot), FALSE)
        BY <1>5, <3>1 DEF JoinStarts
      <4>2. QED
        BY <1>1, <2>2, <4>1, ClearedFine, StartsKeeps
    <3>2. CASE ~bot.there
      <4>1. job' = [job EXCEPT ![j] = Idle] /\ bot' = bot
        BY <1>5, <3>2 DEF JoinStarts
      <4>2. job' \in [Jobs -> JobSet] /\ \A i \in Jobs : job'[i] = Idle \/ job'[i] = job[i]
        BY <1>1, <1>3, <4>1
      <4>3. GraceIsAttempt' /\ (Attempting' => Attempting)
        BY <1>1, <1>3, <4>2 DEF GraceIsAttempt, Attempting
      <4>4. QED
        BY <1>1, <2>2, <4>1, <4>2, <4>3 DEF Rest
    <3>3. QED
      BY <3>1, <3>2
  <2>4. Counters'
    BY <1>1, <2>1, <2>2 DEF Counters
  <2>5. QED
    BY <2>3, <2>4, InvPartsNext
<1>6. CASE GraceEnds(j)
  <2>1. job[j].at = "grace" /\ Starts(j, bot, TRUE) /\ UNCHANGED <<cleanups, tries, crossed, used>>
    BY <1>6 DEF GraceEnds
  <2>2. Fine(bot') /\ job' \in [Jobs -> JobSet] /\ GraceIsAttempt' /\ Rest'
    <3>1. job[j].auto
      BY <1>1, <2>1 DEF GraceIsAttempt
    <3>2. QED
      BY <1>1, <1>2, <2>1, <3>1, StartsKeeps
  <2>3. Counters'
    BY <1>1, <2>1 DEF Counters
  <2>4. QED
    BY <2>2, <2>3, InvPartsNext
<1>7. CASE TimerFires(j) /\ bot.status = "error"
  <2>1. bot' = [bot EXCEPT !.attempts = 0, !.timer = FALSE] /\ UNCHANGED <<job, tries, crossed, cleanups, used>>
    BY <1>7 DEF TimerFires
  <2>2. 0 \in 0 .. MaxAttempts
    BY BotAssumption
  <2>3. bot' \in BotSet
    BY <1>1, <2>1, <2>2 DEF BotSet
  <2>4. Quiet(bot') /\ bot'.manual = bot.manual /\ bot'.fatal = bot.fatal
    BY <1>1, <2>1 DEF BotSet, Quiet
  <2>5. Fine(bot') /\ Rest' /\ GraceIsAttempt' /\ Counters'
    BY <1>1, <2>1, <2>3, <2>4 DEF Fine, Rest, Attempting, GraceIsAttempt, Counters
  <2>6. QED
    BY <1>1, <2>1, <2>5, InvPartsNext
<1>8. CASE TimerFires(j) /\ bot.status # "error"
  <2>1. /\ bot.timer /\ bot' = [Closed(bot) EXCEPT !.timer = FALSE]
        /\ job' = [job EXCEPT ![j] = [at |-> "grace", auto |-> TRUE]]
        /\ tries' = tries + 1 /\ crossed' = (crossed \/ Beside(j)) /\ UNCHANGED <<cleanups, used>>
    BY <1>8 DEF TimerFires
  <2>2. ~bot.gaveUp /\ ~((bot.manual \/ bot.fatal) /\ ~crossed)
    BY <1>1, <2>1 DEF Fine, Rest, Quiet
  <2>3. [at |-> "grace", auto |-> TRUE] \in JobSet
    BY DEF JobSet
  <2>4. job' \in [Jobs -> JobSet] /\ GraceIsAttempt'
    BY <1>1, <2>1, <2>3 DEF GraceIsAttempt
  <2>5. bot' \in BotSet /\ ~bot'.gaveUp /\ bot'.manual = bot.manual /\ bot'.fatal = bot.fatal
    BY <1>1, <2>1, <2>2 DEF BotSet, Closed
  <2>6. Fine(bot') /\ Rest'
    BY <1>2, <2>1, <2>2, <2>5 DEF Fine, Rest
  <2>7. Counters'
    BY <1>1, <1>2, <2>1, BoundsKept DEF Counters
  <2>8. QED
    BY <2>4, <2>6, <2>7, InvPartsNext
<1>9. QED
  BY <1>4, <1>5, <1>6, <1>7, <1>8

LEMMA ConnectedKeeps ==
  ASSUME BotInv, Connected
  PROVE  BotInv'
<1> DEFINE heard == At("connect")
           b == [bot EXCEPT !.sock = "connected"]
           c == [b EXCEPT !.status = "connected", !.gaveUp = FALSE]
<1>1. Fine(bot) /\ bot \in BotSet /\ job \in [Jobs -> JobSet] /\ Counters /\ Rest /\ GraceIsAttempt
  BY InvParts DEF Fine
<1>2. /\ bot' = IF heard = {} THEN b
                ELSE IF \E j \in heard : job[j].auto THEN [c EXCEPT !.attempts = 0, !.timer = FALSE] ELSE c
      /\ job' = [j \in Jobs |-> IF j \in heard THEN Idle ELSE job[j]]
      /\ tries' = (IF heard = {} THEN tries ELSE 0) /\ UNCHANGED <<cleanups, crossed, used>>
  BY DEF Connected
<1>3. /\ b \in BotSet /\ b.gaveUp = bot.gaveUp /\ (Quiet(bot) => Quiet(b))
      /\ b.manual = bot.manual /\ b.fatal = bot.fatal
  BY <1>1 DEF BotSet, Quiet
<1>4. /\ c \in BotSet /\ ~c.gaveUp /\ (Quiet(bot) => Quiet(c))
      /\ c.manual = bot.manual /\ c.fatal = bot.fatal
  BY <1>1 DEF BotSet, Quiet
<1> HIDE DEF b, c, heard
<1>5. LET d == [c EXCEPT !.attempts = 0, !.timer = FALSE] IN
        /\ d \in BotSet /\ ~d.gaveUp /\ Quiet(d) /\ d.manual = bot.manual /\ d.fatal = bot.fatal
  <2>1. 0 \in 0 .. MaxAttempts
    BY BotAssumption
  <2>2. [c EXCEPT !.attempts = 0, !.timer = FALSE] \in BotSet
    BY <1>4, <2>1 DEF BotSet
  <2>3. QED
    BY <1>4, <2>2 DEF BotSet, Quiet
<1>6. /\ bot' \in BotSet /\ (bot'.gaveUp => bot.gaveUp) /\ (Quiet(bot) => Quiet(bot'))
      /\ bot'.manual = bot.manual /\ bot'.fatal = bot.fatal
  <2>1. CASE heard = {}
    BY <1>2, <1>3, <2>1
  <2>2. CASE heard # {} /\ \E j \in heard : job[j].auto
    BY <1>2, <1>5, <2>2
  <2>3. CASE heard # {} /\ ~\E j \in heard : job[j].auto
    BY <1>2, <1>4, <2>3
  <2>4. QED
    BY <2>1, <2>2, <2>3
<1>7. Idle \in JobSet /\ Idle.at = "idle" /\ ~Idle.auto
  BY DEF Idle, JobSet
<1>8. job' \in [Jobs -> JobSet] /\ \A j \in Jobs : job'[j] = Idle \/ job'[j] = job[j]
  BY <1>1, <1>2, <1>7
<1>9. GraceIsAttempt' /\ (Attempting' => Attempting)
  BY <1>1, <1>7, <1>8 DEF GraceIsAttempt, Attempting
<1>10. Fine(bot') /\ Rest' /\ Counters'
  BY <1>1, <1>2, <1>6, <1>9 DEF Fine, Rest, Counters
<1>11. QED
  BY <1>8, <1>9, <1>10, InvPartsNext

LEMMA RefusedKeeps ==
  ASSUME BotInv, NEW fatal \in BOOLEAN, Refused(fatal)
  PROVE  BotInv'
<1> DEFINE b == Disconnect([bot EXCEPT !.status = "error"])
           f == [b EXCEPT !.fatal = TRUE]
<1>1. Fine(bot) /\ bot \in BotSet /\ job \in [Jobs -> JobSet] /\ Counters /\ Rest /\ GraceIsAttempt
  BY InvParts DEF Fine
<1>2. /\ Rejected(IF fatal THEN Cleared(f) ELSE b, At("connect"))
      /\ crossed' = (crossed \/ (fatal /\ \E j \in Jobs : job'[j].auto))
      /\ Fault /\ CleanupComes /\ tries' = tries
  BY DEF Refused
<1>3. /\ Fine(b) /\ (Quiet(bot) => Quiet(b)) /\ b.manual = bot.manual /\ b.fatal = bot.fatal
  BY <1>1 DEF Fine, BotSet, Quiet, Disconnect
<1>4. At("connect") \in SUBSET Jobs /\ crossed \in BOOLEAN
  BY <1>1 DEF At, Counters
<1> HIDE DEF b
<1>5. CASE ~fatal
  <2>1. Rejected(b, At("connect")) /\ crossed' = crossed
    BY <1>2, <1>4, <1>5
  <2>2. QED
    BY <1>2, <1>3, <1>4, <2>1, RejectedSteps
<1>6. CASE fatal
  <2>1. f \in BotSet /\ f.fatal
    BY <1>3 DEF Fine, BotSet
  <2>2. Fine(Cleared(f)) /\ Quiet(Cleared(f)) /\ Cleared(f).fatal
    BY <2>1, ClearedFine
  <2> HIDE DEF f
  <2>3. bot' = Cleared(f) \/ bot' = Scheduled(Cleared(f))
    BY <1>2, <1>6 DEF Rejected
  <2>4. Fine(bot') /\ Quiet(bot')
    BY <2>2, <2>3, ScheduledFine
  <2>5. Idle \in JobSet /\ Idle.at = "idle" /\ ~Idle.auto
    BY DEF Idle, JobSet
  <2>6. job' \in [Jobs -> JobSet] /\ \A j \in Jobs : job'[j] = Idle \/ job'[j] = job[j]
    BY <1>1, <1>2, <2>5 DEF Rejected
  <2>7. GraceIsAttempt'
    BY <1>1, <2>5, <2>6 DEF GraceIsAttempt
  <2>8. crossed' = (crossed \/ Attempting')
    BY <1>2, <1>6 DEF Attempting
  <2>9. crossed' \in BOOLEAN
    BY <1>4, <2>8 DEF Attempting
  <2>10. Rest' /\ Counters'
    BY <1>1, <1>2, <2>4, <2>8, <2>9, BoundsKept DEF Rest, Counters
  <2>11. QED
    BY <2>4, <2>6, <2>7, <2>10, InvPartsNext
<1>7. QED
  BY <1>5, <1>6

LEMMA LossesKeep ==
  ASSUME BotInv, SocketError \/ Silent \/ CleanupFires
  PROVE  BotInv'
<1> DEFINE e == [bot EXCEPT !.status = "error"]
<1>1. Fine(bot) /\ bot \in BotSet /\ job \in [Jobs -> JobSet] /\ Counters /\ Rest /\ GraceIsAttempt
  BY InvParts DEF Fine
<1>2. Fine(e) /\ (Quiet(bot) => Quiet(e)) /\ e.manual = bot.manual /\ e.fatal = bot.fatal
  BY <1>1 DEF Fine, BotSet, Quiet
<1>3. At("connect") \in SUBSET Jobs
  BY DEF At
<1> HIDE DEF e
<1>4. CASE SocketError
  <2>1. Rejected(e, At("connect")) /\ Glitch /\ UNCHANGED <<cleanups, tries, crossed>>
    BY <1>4 DEF SocketError, e
  <2>2. QED
    BY <1>2, <1>3, <2>1, RejectedSteps
<1>5. CASE Silent
  <2>1. /\ Rejected(Down(e), At("connect")) /\ UNCHANGED <<cleanups, tries, crossed>>
        /\ used' = used \/ Fault
    BY <1>5 DEF Silent, e
  <2>2. QED
    BY <1>2, <1>3, <2>1, DownFine, RejectedSteps
<1>6. CASE CleanupFires
  <2>1. /\ cleanups > 0 /\ cleanups' = cleanups - 1 /\ bot' = Down(bot)
        /\ UNCHANGED <<job, tries, crossed, used>>
    BY <1>6 DEF CleanupFires
  <2>2. /\ Fine(bot') /\ bot'.manual = bot.manual /\ bot'.fatal = bot.fatal
        /\ (bot.manual \/ bot.fatal) /\ Quiet(bot) => Quiet(bot')
    BY <1>1, <2>1, DownFine
  <2>3. Rest' /\ GraceIsAttempt'
    BY <1>1, <2>1, <2>2 DEF Rest, GraceIsAttempt, Attempting
  <2>4. Counters'
    BY <1>1, <2>1, BoundsKept DEF Counters
  <2>5. QED
    BY <1>1, <2>1, <2>2, <2>3, <2>4, InvPartsNext
<1>7. QED
  BY <1>4, <1>5, <1>6

LEMMA ClaimsKeep ==
  ASSUME BotInv, PlayerClaims
  PROVE  BotInv'
<1>1. Fine(bot) /\ bot \in BotSet /\ job \in [Jobs -> JobSet] /\ Counters /\ Rest /\ GraceIsAttempt
  BY InvParts DEF Fine
<1>2. /\ bot' = [bot EXCEPT !.status = "claimed"] /\ Command
      /\ UNCHANGED <<job, cleanups, tries, crossed>>
  BY DEF PlayerClaims
<1>3. Fine(bot') /\ (Quiet(bot) => Quiet(bot')) /\ bot'.manual = bot.manual /\ bot'.fatal = bot.fatal
  BY <1>1, <1>2 DEF Fine, BotSet, Quiet
<1>4. Rest' /\ GraceIsAttempt'
  BY <1>1, <1>2, <1>3 DEF Rest, Attempting, GraceIsAttempt
<1>5. Counters'
  BY <1>1, <1>2, BoundsKept DEF Counters
<1>6. QED
  BY <1>1, <1>2, <1>3, <1>4, <1>5, InvPartsNext

LEMMA InitIsFine == Init => BotInv
<1> SUFFICES ASSUME Init PROVE BotInv
  OBVIOUS
<1>1. /\ 0 \in 0 .. MaxAttempts /\ 0 \in 0 .. MaxCleanups /\ 0 \in Nat
      /\ 0 \in 0 .. MaxFaults /\ 0 \in 0 .. MaxGlitches /\ 0 \in 0 .. MaxCommands
  BY BotAssumption
<1>2. Fine(bot) /\ ~bot.manual /\ ~bot.fatal
  BY <1>1 DEF Init, Fine, BotSet, Quiet
<1>3. job \in [Jobs -> JobSet] /\ GraceIsAttempt
  BY DEF Init, Idle, JobSet, GraceIsAttempt
<1>4. Counters
  BY <1>1 DEF Init, Counters
<1>5. QED
  BY <1>2, <1>3, <1>4, InvParts DEF Rest

LEMMA NextIsFine == BotInv /\ [Next]_vars => BotInv'
<1> SUFFICES ASSUME BotInv, [Next]_vars PROVE BotInv'
  OBVIOUS
<1>1. CASE UNCHANGED vars
  BY <1>1 DEF vars, BotInv, TypeOK, Quiet, Rest, Attempting, GraceIsAttempt
<1>2. CASE StopBot \/ RemoveBot
  BY <1>2, BotAssumption, CommandsKeep
<1>3. CASE Connected
  BY <1>3, ConnectedKeeps
<1>4. CASE SocketError \/ Silent \/ CleanupFires
  BY <1>4, LossesKeep
<1>5. ASSUME NEW fatal \in BOOLEAN, Refused(fatal) PROVE BotInv'
  BY <1>5, RefusedKeeps
<1>6. ASSUME NEW j \in Jobs, StartBot(j) \/ RestartBot(j) \/ JoinChannel(j) PROVE BotInv'
  BY <1>6, CommandsKeep
<1>7. ASSUME NEW j \in Jobs, JobStep(j) PROVE BotInv'
  BY <1>7, ConnectingKeeps, WaitingKeeps DEF JobStep
<1>8. CASE PlayerClaims
  BY <1>8, ClaimsKeep
<1>9. QED
  BY <1>1, <1>2, <1>3, <1>4, <1>5, <1>6, <1>7, <1>8 DEF Next

\* The types hold, and with them what the inductive invariant says of the pause of an attempt.
THEOREM BotTypes == Spec => []TypeOK
<1>1. BotInv => TypeOK
  BY DEF BotInv
<1>2. QED
  BY <1>1, InitIsFine, NextIsFine, PTL DEF Spec

\* A bot that was given up on, refused for good, or stopped with no attempt under way is not
\* started again by the manager itself.
THEOREM StopIsFinal == Spec => []NothingAhead
<1>1. BotInv => NothingAhead
  BY DEF BotInv, NothingAhead, Rest, Quiet
<1>2. QED
  BY <1>1, InitIsFine, NextIsFine, PTL DEF Spec

------------------------------------------------------------------------------
(* What is shown as connected *)

\* Why a bot shown as connected is: as long as it is there, not being stopped, and nothing crossed,
\* at most one operation is under way, and no attempt waits beside a connection or a retry.
InOrder      == bot.there /\ ~bot.manual /\ ~crossed
NoTimerLeft  == ~bot.there => ~bot.timer
OneJob       == \A i, j \in Jobs : job[i] # Idle /\ job[j] # Idle => i = j
UpAndQuiet   == bot.status = "connected" => ~bot.timer /\ \A j \in Jobs : ~job[j].auto
TimerAlone   == bot.sock = "init" /\ bot.timer => \A j \in Jobs : job[j] = Idle
GraceIsCalm  ==
  \A j \in Jobs : job[j].at = "grace" =>
    ~bot.timer /\ cleanups = 0 /\ ~bot.open /\ bot.status # "connected"
Ordered == InOrder => OneJob /\ UpAndQuiet /\ TimerAlone /\ GraceIsCalm
LiveInv == NoTimerLeft /\ LiveAsShown /\ Ordered

LEMMA ScheduledSame ==
  ASSUME NEW b \in BotSet
  PROVE  LET c == Scheduled(b) IN
           /\ c.there = b.there /\ c.status = b.status /\ c.manual = b.manual /\ c.fatal = b.fatal
           /\ c.sock = b.sock /\ c.open = b.open
           /\ ~b.there => c.timer = b.timer
<1>1. LET c == Cleared(b) IN
        /\ c.there = b.there /\ c.status = b.status /\ c.manual = b.manual /\ c.fatal = b.fatal
        /\ c.sock = b.sock /\ c.open = b.open
  BY DEF Cleared, BotSet
<1>2. LET c == NextTry(b) IN
        /\ c.there = b.there /\ c.status = b.status /\ c.manual = b.manual /\ c.fatal = b.fatal
        /\ c.sock = b.sock /\ c.open = b.open
  BY DEF NextTry, BotSet
<1>3. CASE ~b.there
  BY <1>3 DEF Scheduled
<1>4. CASE b.there /\ b.fatal
  BY <1>1, <1>4 DEF Scheduled
<1>5. CASE b.there /\ ~b.fatal
  BY <1>2, <1>5 DEF Scheduled
<1>6. QED
  BY <1>3, <1>4, <1>5 DEF BotSet

LEMMA DownSame ==
  ASSUME NEW b \in BotSet
  PROVE  LET c == Down(b) IN
           /\ c.there = b.there /\ c.status = "stopped" /\ c.manual = b.manual /\ c.fatal = b.fatal
           /\ c.sock = "disconnected" /\ ~c.open
           /\ ~b.there => c.timer = b.timer
<1> DEFINE c == [Closed(b) EXCEPT !.status = "stopped"]
<1>1. /\ c \in BotSet /\ c.there = b.there /\ c.status = "stopped" /\ c.manual = b.manual
      /\ c.fatal = b.fatal /\ c.sock = "disconnected" /\ ~c.open /\ c.timer = b.timer
  BY DEF Closed, BotSet
<1>2. Down(b) = c \/ Down(b) = Scheduled(c)
  BY DEF Down
<1> HIDE DEF c
<1>3. QED
  BY <1>1, <1>2, ScheduledSame

LEMMA StartsLive ==
  ASSUME BotInv, LiveInv, NEW j \in Jobs, NEW auto \in BOOLEAN, NEW b \in BotSet, Starts(j, b, auto),
         b.there = bot.there, b.status = bot.status, b.manual = bot.manual, b.sock = bot.sock,
         b.open = bot.open, b.timer => bot.timer, cleanups' = cleanups, crossed => crossed',
         bot.there /\ ~crossed' => ~Beside(j) /\ ~b.timer /\ (auto => bot.status # "connected")
  PROVE  LiveInv'
<1>0. job \in [Jobs -> JobSet] /\ crossed \in BOOLEAN /\ Idle.at = "idle" /\ ~Idle.auto
  BY InvParts DEF Counters, Idle
<1>1. CASE bot.status \in Shown
  <2>1. bot' = (IF auto THEN Scheduled(b) ELSE b) /\ job' = [job EXCEPT ![j] = Idle]
    BY <1>1 DEF Starts
  <2>2. \A i \in Jobs : job'[i] = Idle \/ job'[i] = job[i]
    BY <1>0, <2>1
  <2>3. /\ bot'.there = bot.there /\ bot'.status = bot.status /\ bot'.manual = bot.manual
        /\ bot'.sock = bot.sock /\ bot'.open = bot.open
        /\ ~bot.there => ~bot'.timer
    BY <2>1, ScheduledSame DEF LiveInv, NoTimerLeft
  <2>4. NoTimerLeft' /\ LiveAsShown'
    BY <2>3 DEF LiveInv, NoTimerLeft, LiveAsShown
  <2>5. ASSUME InOrder' PROVE (OneJob /\ UpAndQuiet /\ TimerAlone /\ GraceIsCalm)'
    <3>1. InOrder /\ ~Beside(j) /\ (bot.status = "connected" => ~auto /\ bot' = b /\ ~bot'.timer)
      BY <2>1, <2>3, <2>5 DEF InOrder
    <3>2. UpAndQuiet
      BY <3>1 DEF LiveInv, Ordered
    <3>3. \A i \in Jobs : job'[i] = Idle
      BY <1>0, <2>1, <3>1 DEF Beside
    <3>4. QED
      BY <1>0, <2>3, <3>1, <3>3 DEF OneJob, UpAndQuiet, TimerAlone, GraceIsCalm
  <2>6. QED
    BY <2>4, <2>5 DEF LiveInv, Ordered
<1>2. CASE bot.status \notin Shown
  <2>1. /\ bot' = [b EXCEPT !.manual = FALSE, !.fatal = FALSE, !.status = "starting", !.sock = "init"]
        /\ job' = [job EXCEPT ![j] = [at |-> "resolve", auto |-> auto]]
    BY <1>2 DEF Starts
  <2>2. bot'.there = bot.there /\ bot'.status = "starting" /\ bot'.timer = b.timer
    BY <2>1 DEF BotSet
  <2>3. NoTimerLeft' /\ LiveAsShown' /\ UpAndQuiet'
    BY <2>2 DEF LiveInv, NoTimerLeft, LiveAsShown, UpAndQuiet
  <2>4. ASSUME InOrder' PROVE (OneJob /\ TimerAlone /\ GraceIsCalm)'
    <3>1. ~Beside(j) /\ ~bot'.timer
      BY <2>2, <2>4 DEF InOrder
    <3>2. \A i \in Jobs \ {j} : job'[i] = Idle
      BY <1>0, <2>1, <3>1 DEF Beside
    <3>3. job'[j].at = "resolve"
      BY <1>0, <2>1
    <3>4. QED
      BY <1>0, <3>1, <3>2, <3>3 DEF OneJob, TimerAlone, GraceIsCalm
  <2>5. QED
    BY <2>3, <2>4 DEF LiveInv, Ordered
<1>3. QED
  BY <1>1, <1>2

LEMMA StopsLive ==
  ASSUME NEW b \in BotSet, Stops(b)
  PROVE  LiveInv' /\ bot'.manual /\ ~bot'.timer
<1>1. bot' = [Disconnect(Cleared(b)) EXCEPT !.manual = TRUE]
  BY DEF Stops
<1>2. Cleared(b) \in BotSet /\ ~Cleared(b).timer
  BY ClearedFine DEF Fine, Quiet
<1>3. Disconnect(Cleared(b)) \in BotSet /\ ~Disconnect(Cleared(b)).timer
  BY <1>2 DEF Disconnect, BotSet
<1>4. bot'.manual /\ ~bot'.timer
  BY <1>1, <1>3 DEF BotSet
<1>5. QED
  BY <1>4 DEF LiveInv, NoTimerLeft, LiveAsShown, Ordered, InOrder

\* The connects of D fail; what the bot is in b is no more than it was.
LEMMA RejectedLive ==
  ASSUME BotInv, LiveInv, NEW D \in SUBSET Jobs, NEW b \in BotSet, Rejected(b, D),
         b.there = bot.there, b.manual = bot.manual,
         b.status = "connected" => bot.status = "connected" /\ b.sock = bot.sock /\ b.timer = bot.timer,
         b.timer /\ b.sock = "init" => bot.timer /\ bot.sock = "init",
         ~bot.there => ~b.timer, crossed => crossed',
         \A j \in D : job[j] # Idle, D # {} \/ bot.open
  PROVE  LiveInv'
<1>0. job \in [Jobs -> JobSet] /\ crossed \in BOOLEAN /\ Idle.at = "idle" /\ ~Idle.auto
  BY InvParts DEF Counters, Idle
<1>1. /\ bot' = IF \E j \in D : job[j].auto THEN Scheduled(b) ELSE b
      /\ \A j \in Jobs : job'[j] = IF j \in D THEN Idle ELSE job[j]
  BY DEF Rejected
<1>2. /\ bot'.there = bot.there /\ bot'.manual = bot.manual /\ bot'.status = b.status
      /\ bot'.sock = b.sock /\ (~bot.there => ~bot'.timer)
  BY <1>1, ScheduledSame
<1>3. NoTimerLeft' /\ LiveAsShown'
  BY <1>2 DEF LiveInv, NoTimerLeft, LiveAsShown
<1>4. ASSUME InOrder' PROVE (OneJob /\ UpAndQuiet /\ TimerAlone /\ GraceIsCalm)'
  <2>1. InOrder
    BY <1>2, <1>4 DEF InOrder
  <2>2. OneJob /\ UpAndQuiet /\ TimerAlone /\ GraceIsCalm
    BY <2>1 DEF LiveInv, Ordered
  <2>3. D # {} => \A j \in Jobs : job'[j] = Idle
    BY <1>1, <2>2 DEF OneJob
  <2>4. OneJob'
    BY <1>1, <2>2 DEF OneJob
  <2>5. UpAndQuiet'
    <3>1. SUFFICES ASSUME b.status = "connected" PROVE ~bot'.timer /\ \A j \in Jobs : ~job'[j].auto
      BY <1>2 DEF UpAndQuiet
    <3>2. ~bot.timer /\ \A j \in Jobs : ~job[j].auto
      BY <2>2, <3>1 DEF UpAndQuiet
    <3>3. QED
      BY <1>0, <1>1, <3>1, <3>2
  <2>6. TimerAlone'
    <3>1. CASE D = {}
      <4>1. bot' = b /\ \A j \in Jobs : job'[j] = job[j]
        BY <1>1, <3>1
      <4>2. QED
        BY <2>2, <4>1 DEF TimerAlone
    <3>2. CASE D # {}
      BY <2>3, <3>2 DEF TimerAlone
    <3>3. QED
      BY <3>1, <3>2
  <2>7. GraceIsCalm'
    <3>1. ASSUME NEW j \in Jobs, job'[j].at = "grace" PROVE FALSE
      <4>1. D = {} /\ job[j].at = "grace"
        BY <1>0, <1>1, <2>3, <3>1
      <4>2. QED
        BY <2>2, <4>1 DEF GraceIsCalm
    <3>2. QED
      BY <3>1 DEF GraceIsCalm
  <2>8. QED
    BY <2>4, <2>5, <2>6, <2>7
<1>5. QED
  BY <1>3, <1>4 DEF LiveInv, Ordered

LEMMA CommandsLive ==
  ASSUME BotInv, LiveInv, NEW j \in Jobs,
         StartBot(j) \/ StopBot \/ RestartBot(j) \/ JoinChannel(j) \/ RemoveBot
  PROVE  LiveInv'
<1>0. bot \in BotSet /\ crossed \in BOOLEAN
  BY InvParts DEF Fine, Counters
<1>1. CASE StartBot(j)
  <2>1. Starts(j, Cleared(bot), FALSE) /\ crossed' = (crossed \/ Beside(j)) /\ cleanups' = cleanups
    BY <1>1 DEF StartBot
  <2>2. LET c == Cleared(bot) IN
          /\ c \in BotSet /\ c.there = bot.there /\ c.status = bot.status /\ c.manual = bot.manual
          /\ c.sock = bot.sock /\ c.open = bot.open /\ ~c.timer
    <3>1. Cleared(bot) \in BotSet
      BY <1>0, ClearedFine DEF Fine
    <3>2. QED
      BY <1>0, <3>1 DEF Cleared, BotSet
  <2>3. QED
    BY <1>0, <2>1, <2>2, StartsLive
<1>2. CASE StopBot \/ RestartBot(j) \/ JoinChannel(j)
  BY <1>0, <1>2, StopsLive DEF StopBot, RestartBot, JoinChannel
<1>3. CASE RemoveBot
  <2>1. CASE bot.status = "stopped"
    <3>1. bot' = [Cleared(bot) EXCEPT !.there = FALSE]
      BY <1>3, <2>1 DEF RemoveBot
    <3>2. bot'.status = "stopped" /\ ~bot'.there /\ ~bot'.timer
      BY <1>0, <2>1, <3>1 DEF Cleared, BotSet
    <3>3. QED
      BY <3>2 DEF LiveInv, NoTimerLeft, LiveAsShown, Ordered, InOrder
  <2>2. CASE bot.status # "stopped"
    <3>1. Stops([bot EXCEPT !.there = FALSE]) /\ [bot EXCEPT !.there = FALSE] \in BotSet
      BY <1>0, <1>3, <2>2 DEF RemoveBot, BotSet
    <3>2. QED
      BY <3>1, StopsLive
  <2>3. QED
    BY <2>1, <2>2
<1>4. QED
  BY <1>1, <1>2, <1>3

LEMMA WaitingLive ==
  ASSUME BotInv, LiveInv, NEW j \in Jobs, RestartGoes(j) \/ JoinStarts(j) \/ GraceEnds(j) \/ TimerFires(j)
  PROVE  LiveInv'
<1>0. /\ bot \in BotSet /\ crossed \in BOOLEAN /\ job \in [Jobs -> JobSet] /\ Rest /\ GraceIsAttempt
      /\ Idle.at = "idle" /\ ~Idle.auto
  BY InvParts DEF Fine, Counters, Idle
<1>1. CASE RestartGoes(j)
  <2>1. /\ Starts(j, bot, FALSE) /\ crossed' = (crossed \/ Beside(j) \/ bot.timer)
        /\ cleanups' = cleanups
    BY <1>1 DEF RestartGoes
  <2>2. QED
    BY <1>0, <2>1, StartsLive
<1>2. CASE JoinStarts(j) /\ bot.there
  <2>1. Starts(j, Cleared(bot), FALSE) /\ crossed' = (crossed \/ Beside(j)) /\ cleanups' = cleanups
    BY <1>2 DEF JoinStarts
  <2>2. LET c == Cleared(bot) IN
          /\ c \in BotSet /\ c.there = bot.there /\ c.status = bot.status /\ c.manual = bot.manual
          /\ c.sock = bot.sock /\ c.open = bot.open /\ ~c.timer
    <3>1. Cleared(bot) \in BotSet
      BY <1>0, ClearedFine DEF Fine
    <3>2. QED
      BY <1>0, <3>1 DEF Cleared, BotSet
  <2>3. QED
    BY <1>0, <2>1, <2>2, StartsLive
<1>3. CASE JoinStarts(j) /\ ~bot.there
  <2>1. bot' = bot /\ (crossed => crossed')
    BY <1>0, <1>3 DEF JoinStarts
  <2>2. QED
    BY <1>3, <2>1 DEF LiveInv, NoTimerLeft, LiveAsShown, Ordered, InOrder
<1>4. CASE GraceEnds(j)
  <2>1. job[j].at = "grace" /\ Starts(j, bot, TRUE) /\ UNCHANGED <<cleanups, crossed>>
    BY <1>4 DEF GraceEnds
  <2>2. job[j].auto /\ job[j] # Idle
    BY <1>0, <2>1 DEF GraceIsAttempt
  <2>3. ASSUME bot.there, ~crossed
        PROVE  ~Beside(j) /\ ~bot.timer /\ bot.status # "connected"
    <3>1. InOrder
      BY <1>0, <2>2, <2>3 DEF InOrder, Rest, Attempting
    <3>2. OneJob /\ GraceIsCalm
      BY <3>1 DEF LiveInv, Ordered
    <3>3. QED
      BY <2>1, <2>2, <3>2 DEF OneJob, GraceIsCalm, Beside
  <2>4. QED
    BY <1>0, <2>1, <2>3, StartsLive
<1>5. CASE TimerFires(j) /\ bot.status = "error"
  <2>1. bot' = [bot EXCEPT !.attempts = 0, !.timer = FALSE] /\ UNCHANGED <<job, crossed, cleanups>>
    BY <1>5 DEF TimerFires
  <2>2. bot'.status = "error" /\ ~bot'.timer /\ bot'.there = bot.there /\ bot'.manual = bot.manual
        /\ bot'.open = bot.open
    BY <1>0, <1>5, <2>1 DEF BotSet
  <2>3. QED
    BY <2>1, <2>2
       DEF LiveInv, NoTimerLeft, LiveAsShown, Ordered, InOrder, OneJob, UpAndQuiet, TimerAlone, GraceIsCalm
<1>6. CASE TimerFires(j) /\ bot.status # "error"
  <2>1. /\ bot.timer /\ cleanups = 0 /\ cleanups' = cleanups
        /\ bot' = [Closed(bot) EXCEPT !.timer = FALSE]
        /\ job' = [job EXCEPT ![j] = [at |-> "grace", auto |-> TRUE]]
        /\ crossed' = (crossed \/ Beside(j))
    BY <1>6 DEF TimerFires
  <2>2. /\ bot'.there = bot.there /\ bot'.manual = bot.manual /\ bot'.status = bot.status
        /\ ~bot'.timer /\ ~bot'.open /\ bot.there
    BY <1>0, <2>1 DEF BotSet, Closed, LiveInv, NoTimerLeft
  <2>3. ASSUME ~bot.manual, ~crossed' PROVE bot.status # "connected" /\ ~Beside(j)
    <3>1. UpAndQuiet
      BY <2>1, <2>2, <2>3 DEF LiveInv, Ordered, InOrder
    <3>2. QED
      BY <2>1, <2>3, <3>1 DEF UpAndQuiet
  <2>4. NoTimerLeft' /\ LiveAsShown'
    BY <2>2, <2>3 DEF NoTimerLeft, LiveAsShown
  <2>5. ASSUME InOrder' PROVE (OneJob /\ UpAndQuiet /\ TimerAlone /\ GraceIsCalm)'
    <3>1. bot.status # "connected" /\ ~Beside(j)
      BY <2>2, <2>3, <2>5 DEF InOrder
    <3>2. \A i \in Jobs \ {j} : job'[i] = Idle
      BY <1>0, <2>1, <3>1 DEF Beside
    <3>3. QED
      BY <1>0, <2>1, <2>2, <3>1, <3>2 DEF OneJob, UpAndQuiet, TimerAlone, GraceIsCalm
  <2>6. QED
    BY <2>4, <2>5 DEF LiveInv, Ordered
<1>7. QED
  BY <1>1, <1>2, <1>3, <1>4, <1>5, <1>6

LEMMA ConnectingLive ==
  ASSUME BotInv, LiveInv, NEW j \in Jobs, Resolved(j) \/ NotResolved(j) \/ TimesOut(j)
  PROVE  LiveInv'
<1>0. /\ bot \in BotSet /\ crossed \in BOOLEAN /\ job \in [Jobs -> JobSet]
      /\ Idle.at = "idle" /\ ~Idle.auto
  BY InvParts DEF Fine, Counters, Idle
<1>1. {j} \in SUBSET Jobs /\ {j} # {} /\ job[j] # Idle
  BY <1>0 DEF Resolved, NotResolved, TimesOut
<1>2. CASE Resolved(j) /\ bot.sock = "init"
  <2>1. /\ bot' = [bot EXCEPT !.open = TRUE] /\ job' = [job EXCEPT ![j].at = "connect"]
        /\ UNCHANGED <<cleanups, crossed>>
    BY <1>2 DEF Resolved
  <2>2. /\ bot'.there = bot.there /\ bot'.manual = bot.manual /\ bot'.status = bot.status
        /\ bot'.timer = bot.timer /\ bot'.sock = bot.sock
    BY <1>0, <2>1 DEF BotSet
  <2>3. /\ job'[j].at = "connect" /\ job'[j].auto = job[j].auto
        /\ \A i \in Jobs : i # j => job'[i] = job[i]
    BY <1>0, <2>1 DEF JobSet
  <2>4. NoTimerLeft' /\ LiveAsShown'
    BY <2>1, <2>2 DEF LiveInv, NoTimerLeft, LiveAsShown
  <2>5. ASSUME InOrder' PROVE (OneJob /\ UpAndQuiet /\ TimerAlone /\ GraceIsCalm)'
    <3>1. InOrder
      BY <2>1, <2>2, <2>5 DEF InOrder
    <3>2. OneJob /\ UpAndQuiet /\ TimerAlone
      BY <3>1 DEF LiveInv, Ordered
    <3>3. \A i \in Jobs : i # j => job'[i] = Idle
      BY <1>1, <2>3, <3>2 DEF OneJob
    <3>4. OneJob' /\ GraceIsCalm'
      BY <1>0, <2>3, <3>3 DEF OneJob, GraceIsCalm
    <3>5. UpAndQuiet'
      BY <1>0, <2>2, <2>3, <3>2, <3>3 DEF UpAndQuiet
    <3>6. TimerAlone'
      BY <1>1, <2>2, <3>2 DEF TimerAlone
    <3>7. QED
      BY <3>4, <3>5, <3>6
  <2>6. QED
    BY <2>4, <2>5 DEF LiveInv, Ordered
<1>3. CASE (Resolved(j) /\ bot.sock # "init") \/ TimesOut(j)
  <2>1. Rejected(bot, {j}) /\ crossed' = crossed
    BY <1>3 DEF Resolved, TimesOut
  <2>2. ~bot.there => ~bot.timer
    BY DEF LiveInv, NoTimerLeft
  <2>3. QED
    BY <1>0, <1>1, <2>1, <2>2, RejectedLive
<1>4. CASE NotResolved(j)
  <2>1. Rejected(Down(bot), {j}) /\ crossed' = crossed
    BY <1>4 DEF NotResolved
  <2>2. Down(bot) \in BotSet
    BY InvParts, DownFine DEF Fine
  <2>3. /\ Down(bot).there = bot.there /\ Down(bot).manual = bot.manual
        /\ Down(bot).status = "stopped" /\ Down(bot).sock = "disconnected"
        /\ ~bot.there => ~Down(bot).timer
    BY <1>0, DownSame DEF LiveInv, NoTimerLeft
  <2>4. QED
    BY <1>1, <2>1, <2>2, <2>3, RejectedLive
<1>5. QED
  BY <1>2, <1>3, <1>4

LEMMA ConnectedLive ==
  ASSUME BotInv, LiveInv, Connected
  PROVE  LiveInv'
<1> DEFINE heard == At("connect")
<1>0. /\ bot \in BotSet /\ crossed \in BOOLEAN /\ job \in [Jobs -> JobSet]
      /\ Idle.at = "idle" /\ ~Idle.auto
  BY InvParts DEF Fine, Counters, Idle
<1>1. /\ bot.open /\ bot.sock = "init" /\ UNCHANGED <<cleanups, crossed>>
      /\ \A j \in Jobs : job'[j] = IF j \in heard THEN Idle ELSE job[j]
  BY DEF Connected
<1>2. \A j \in heard : j \in Jobs /\ job[j] # Idle
  BY <1>0 DEF At
<1>3. /\ bot'.there = bot.there /\ bot'.manual = bot.manual /\ bot'.sock = "connected"
      /\ bot'.timer => bot.timer
      /\ heard = {} => bot'.status = bot.status /\ bot'.timer = bot.timer
  BY <1>0 DEF Connected, BotSet
<1> HIDE DEF heard
<1>4. NoTimerLeft' /\ LiveAsShown' /\ TimerAlone'
  BY <1>3 DEF LiveInv, NoTimerLeft, LiveAsShown, TimerAlone
<1>5. ASSUME InOrder' PROVE (OneJob /\ UpAndQuiet /\ GraceIsCalm)'
  <2>1. InOrder
    BY <1>1, <1>3, <1>5 DEF InOrder
  <2>2. OneJob /\ UpAndQuiet /\ TimerAlone /\ GraceIsCalm
    BY <2>1 DEF LiveInv, Ordered
  <2>3. OneJob'
    BY <1>1, <2>2 DEF OneJob
  <2>4. \A j \in Jobs : job'[j].at # "grace"
    BY <1>0, <1>1, <2>2 DEF GraceIsCalm
  <2>5. UpAndQuiet'
    <3>1. CASE heard = {}
      BY <1>1, <1>3, <2>2, <3>1 DEF UpAndQuiet
    <3>2. CASE heard # {}
      <4>1. ~bot.timer /\ \A j \in Jobs : job'[j] = Idle
        BY <1>1, <1>2, <2>2, <3>2 DEF OneJob, TimerAlone
      <4>2. QED
        BY <1>0, <1>3, <4>1 DEF UpAndQuiet
    <3>3. QED
      BY <3>1, <3>2
  <2>6. QED
    BY <2>3, <2>4, <2>5 DEF GraceIsCalm
<1>6. QED
  BY <1>4, <1>5 DEF LiveInv, Ordered

LEMMA LossesLive ==
  ASSUME BotInv, LiveInv,
         (\E fatal \in BOOLEAN : Refused(fatal)) \/ SocketError \/ Silent \/ CleanupFires
  PROVE  LiveInv'
<1> DEFINE e == [bot EXCEPT !.status = "error"]
<1>0. /\ Fine(bot) /\ bot \in BotSet /\ crossed \in BOOLEAN /\ job \in [Jobs -> JobSet]
      /\ Idle.at = "idle" /\ (~bot.there => ~bot.timer)
  BY InvParts DEF Fine, Counters, Idle, LiveInv, NoTimerLeft
<1>1. At("connect") \in SUBSET Jobs /\ \A j \in At("connect") : job[j] # Idle
  BY <1>0 DEF At
<1>2. /\ e \in BotSet /\ Fine(e) /\ e.there = bot.there /\ e.manual = bot.manual /\ e.status = "error"
      /\ e.timer = bot.timer /\ e.sock = bot.sock
  BY <1>0 DEF BotSet, Fine, Quiet
<1>3. ASSUME NEW fatal \in BOOLEAN, Refused(fatal) PROVE LiveInv'
  <2> DEFINE d == Disconnect(e)
             f == [d EXCEPT !.fatal = TRUE]
  <2>1. /\ Rejected(IF fatal THEN Cleared(f) ELSE d, At("connect")) /\ bot.open
        /\ crossed' = (crossed \/ (fatal /\ \E j \in Jobs : job'[j].auto))
    BY <1>3 DEF Refused
  <2> HIDE DEF e
  <2>2. /\ d \in BotSet /\ d.there = bot.there /\ d.manual = bot.manual /\ d.status = "error"
        /\ d.timer = bot.timer /\ (d.sock = "init" => bot.sock = "init")
    BY <1>2 DEF Disconnect, BotSet
  <2> HIDE DEF d
  <2>3. f \in BotSet /\ f.there = bot.there /\ f.manual = bot.manual /\ f.status = "error"
    BY <2>2 DEF BotSet
  <2> HIDE DEF f
  <2>4. /\ Cleared(f) \in BotSet /\ Cleared(f).there = bot.there /\ Cleared(f).manual = bot.manual
        /\ Cleared(f).status = "error" /\ ~Cleared(f).timer
    <3>1. Cleared(f) \in BotSet
      BY <2>3, ClearedFine DEF Fine
    <3>2. QED
      BY <2>3, <3>1 DEF Cleared, BotSet
  <2>5. crossed => crossed'
    BY <1>0, <2>1
  <2>6. CASE fatal
    BY <1>1, <2>1, <2>4, <2>5, <2>6, RejectedLive
  <2>7. CASE ~fatal
    BY <1>0, <1>1, <2>1, <2>2, <2>5, <2>7, RejectedLive
  <2>8. QED
    BY <2>6, <2>7
<1>4. CASE SocketError
  <2>1. Rejected(e, At("connect")) /\ bot.open /\ crossed' = crossed
    BY <1>4 DEF SocketError
  <2> HIDE DEF e
  <2>2. QED
    BY <1>0, <1>1, <1>2, <2>1, RejectedLive
<1>5. CASE Silent
  <2>1. Rejected(Down(e), At("connect")) /\ bot.open /\ crossed' = crossed
    BY <1>5 DEF Silent
  <2> HIDE DEF e
  <2>2. Down(e) \in BotSet
    BY <1>2, DownFine DEF Fine
  <2>3. /\ Down(e).there = bot.there /\ Down(e).manual = bot.manual /\ Down(e).status = "stopped"
        /\ Down(e).sock = "disconnected" /\ (~bot.there => ~Down(e).timer)
    BY <1>0, <1>2, DownSame
  <2>4. QED
    BY <1>1, <2>1, <2>2, <2>3, RejectedLive
<1>6. CASE CleanupFires
  <2>1. cleanups > 0 /\ bot' = Down(bot) /\ UNCHANGED <<job, crossed>>
    BY <1>6 DEF CleanupFires
  <2>2. /\ bot'.there = bot.there /\ bot'.manual = bot.manual /\ bot'.status = "stopped"
        /\ bot'.sock = "disconnected" /\ (~bot.there => ~bot'.timer)
    BY <1>0, <2>1, DownSame
  <2>3. NoTimerLeft' /\ LiveAsShown' /\ UpAndQuiet' /\ TimerAlone'
    BY <2>2 DEF NoTimerLeft, LiveAsShown, UpAndQuiet, TimerAlone
  <2>4. ASSUME InOrder' PROVE OneJob' /\ GraceIsCalm'
    <3>1. OneJob /\ GraceIsCalm
      BY <2>1, <2>2, <2>4 DEF LiveInv, Ordered, InOrder
    <3>2. \A j \in Jobs : job[j].at # "grace"
      BY <2>1, <3>1 DEF GraceIsCalm
    <3>3. QED
      BY <2>1, <3>1, <3>2 DEF OneJob, GraceIsCalm
  <2>5. QED
    BY <2>3, <2>4 DEF LiveInv, Ordered
<1>7. QED
  BY <1>3, <1>4, <1>5, <1>6

\* What the player claims says nothing of the connection, and disturbs nothing.
LEMMA ClaimsLive ==
  ASSUME BotInv, LiveInv, PlayerClaims
  PROVE  LiveInv'
<1>1. bot \in BotSet
  BY InvParts DEF Fine
<1>2. /\ bot'.status = "claimed" /\ bot'.there = bot.there /\ bot'.manual = bot.manual
      /\ bot'.timer = bot.timer /\ bot'.sock = bot.sock /\ bot'.open = bot.open
      /\ UNCHANGED <<job, cleanups, crossed>>
  BY <1>1 DEF PlayerClaims, BotSet
<1>3. NoTimerLeft' /\ LiveAsShown'
  BY <1>2 DEF LiveInv, NoTimerLeft, LiveAsShown
<1>4. Ordered'
  BY <1>2 DEF LiveInv, Ordered, InOrder, OneJob, UpAndQuiet, TimerAlone, GraceIsCalm
<1>5. QED
  BY <1>3, <1>4 DEF LiveInv

LEMMA InitIsLive == Init => LiveInv
BY DEF Init, LiveInv, NoTimerLeft, LiveAsShown, Ordered, OneJob, UpAndQuiet, TimerAlone, GraceIsCalm, Idle

LEMMA NextIsLive == BotInv /\ LiveInv /\ [Next]_vars => LiveInv'
<1> SUFFICES ASSUME BotInv, LiveInv, [Next]_vars PROVE LiveInv'
  OBVIOUS
<1>1. CASE UNCHANGED vars
  BY <1>1 DEF vars, LiveInv, NoTimerLeft, LiveAsShown, Ordered, InOrder, OneJob, UpAndQuiet,
              TimerAlone, GraceIsCalm
<1>2. CASE StopBot \/ RemoveBot
  BY <1>2, BotAssumption, CommandsLive
<1>3. CASE Connected
  BY <1>3, ConnectedLive
<1>4. CASE SocketError \/ Silent \/ CleanupFires \/ \E fatal \in BOOLEAN : Refused(fatal)
  BY <1>4, LossesLive
<1>5. ASSUME NEW j \in Jobs, StartBot(j) \/ RestartBot(j) \/ JoinChannel(j) PROVE LiveInv'
  BY <1>5, CommandsLive
<1>6. ASSUME NEW j \in Jobs, JobStep(j) PROVE LiveInv'
  BY <1>6, ConnectingLive, WaitingLive DEF JobStep
<1>7. CASE PlayerClaims
  BY <1>7, ClaimsLive
<1>8. QED
  BY <1>1, <1>2, <1>3, <1>4, <1>5, <1>6, <1>7 DEF Next

\* As long as no operation crossed another, a bot that a connect showed as connected and that is not
\* being stopped has a connection, in whatever order cleanups, timers, refusals, answers and what
\* the player claims come.
THEOREM ShownIsLive == Spec => []LiveAsShown
<1>1. LiveInv => LiveAsShown
  BY DEF LiveInv
<1>2. QED
  BY <1>1, InitIsFine, NextIsFine, InitIsLive, NextIsLive, PTL DEF Spec

------------------------------------------------------------------------------
(* The length of a round *)

One(flag) == IF flag THEN 1 ELSE 0

\* The attempts of a round, and the one the timer will make, are counted in b.attempts.
InRound(b)      == b.there /\ ~b.gaveUp /\ ~b.manual /\ ~b.fatal
CountedIn(b, n) == InRound(b) => n + One(b.timer) <= b.attempts

\* A status of 'error' ends with a cleanup that is on its way: no timer finds it.
ErrorEnds == bot.status = "error" => cleanups > 0
RoundInv  == used.glitches = 0 => /\ ErrorEnds
                                  /\ ~crossed => tries <= MaxAttempts /\ CountedIn(bot, tries)

LEMMA ScheduledCounts ==
  ASSUME NEW b \in BotSet, NEW n \in Nat, CountedIn(b, n)
  PROVE  CountedIn(Scheduled(b), n)
<1>1. CASE ~b.there \/ b.gaveUp \/ b.timer \/ b.fatal
  <2>1. Scheduled(b) = b \/ (b.fatal /\ Scheduled(b).fatal)
    BY <1>1, ScheduledSame DEF Scheduled, BotSet
  <2>2. QED
    BY <2>1 DEF CountedIn, InRound
<1>2. CASE b.there /\ ~b.gaveUp /\ ~b.timer /\ ~b.fatal
  <2>1. Scheduled(b) = NextTry(b)
    BY <1>2 DEF Scheduled
  <2>2. CASE b.attempts >= MaxAttempts
    <3>1. NextTry(b).gaveUp
      BY <2>2 DEF NextTry, BotSet
    <3>2. QED
      BY <2>1, <3>1 DEF CountedIn, InRound
  <2>3. CASE ~(b.attempts >= MaxAttempts)
    <3>1. /\ NextTry(b).attempts = b.attempts + 1 /\ NextTry(b).timer
          /\ NextTry(b).manual = b.manual
      BY <2>3 DEF NextTry, BotSet
    <3>2. CASE b.manual
      BY <2>1, <3>1, <3>2 DEF CountedIn, InRound
    <3>3. CASE ~b.manual
      <4>1. n <= b.attempts /\ b.attempts \in Nat
        BY <1>2, <3>3 DEF CountedIn, InRound, One, BotSet
      <4>2. QED
        BY <2>1, <3>1, <4>1 DEF CountedIn, One
    <3>4. QED
      BY <3>2, <3>3 DEF BotSet
  <2>4. QED
    BY <2>2, <2>3
<1>3. QED
  BY <1>1, <1>2 DEF BotSet

\* The same attempts, and no retry more, in a bot that was counted.
LEMMA SameCounts ==
  ASSUME NEW b \in BotSet, NEW c \in BotSet, NEW n \in Nat, CountedIn(b, n), InRound(c) => InRound(b),
         c.attempts = b.attempts, c.timer => b.timer
  PROVE  CountedIn(c, n)
BY DEF CountedIn, One, BotSet

LEMMA DownCounts ==
  ASSUME NEW b \in BotSet, NEW n \in Nat, CountedIn(b, n)
  PROVE  CountedIn(Down(b), n)
<1> DEFINE c == [Closed(b) EXCEPT !.status = "stopped"]
<1>1. /\ c \in BotSet /\ c.there = b.there /\ c.gaveUp = b.gaveUp /\ c.manual = b.manual
      /\ c.fatal = b.fatal /\ c.attempts = b.attempts /\ c.timer = b.timer
  BY DEF Closed, BotSet
<1>2. Down(b) = c \/ Down(b) = Scheduled(c)
  BY DEF Down
<1> HIDE DEF c
<1>3. CountedIn(c, n)
  BY <1>1, SameCounts DEF InRound
<1>4. QED
  BY <1>1, <1>2, <1>3, ScheduledCounts

\* The socket errors so far are not forgotten.
LEMMA GlitchesStay ==
  ASSUME Counters, used' = used \/ Fault \/ Command
  PROVE  used'.glitches = used.glitches
BY DEF Counters, Fault, Command

\* A command starts a new round.
LEMMA NewRound ==
  ASSUME BotInv, RoundInv, tries' = 0, used'.glitches = used.glitches,
         cleanups' = cleanups \/ CleanupComes,
         bot'.status = "error" => bot.status = "error",
         ~crossed' => CountedIn(bot', 0)
  PROVE  RoundInv'
<1>1. Counters /\ 0 <= MaxAttempts
  BY InvParts, BotAssumption
<1>2. ErrorEnds => ErrorEnds'
  BY <1>1 DEF ErrorEnds, Counters, CleanupComes
<1>3. QED
  BY <1>1, <1>2 DEF RoundInv

LEMMA NotScheduled ==
  ASSUME NEW b \in BotSet, ~b.timer \/ ~InRound(b)
  PROVE  CountedIn(b, 0)
BY DEF CountedIn, One, BotSet

LEMMA StartsRound ==
  ASSUME BotInv, RoundInv, NEW j \in Jobs, NEW b \in BotSet, Starts(j, b, FALSE),
         b.status = bot.status, tries' = 0, used'.glitches = used.glitches, cleanups' = cleanups,
         ~crossed' => ~b.timer
  PROVE  RoundInv'
<1>1. CASE b.status \in Shown
  <2>1. bot' = b
    BY <1>1 DEF Starts
  <2>2. QED
    BY <2>1, NotScheduled, NewRound
<1>2. CASE b.status \notin Shown
  <2>1. bot' = [b EXCEPT !.manual = FALSE, !.fatal = FALSE, !.status = "starting", !.sock = "init"]
    BY <1>2 DEF Starts
  <2>2. bot' \in BotSet /\ bot'.timer = b.timer /\ bot'.status = "starting"
    BY <2>1 DEF BotSet
  <2>3. QED
    BY <2>2, NotScheduled, NewRound
<1>3. QED
  BY <1>1, <1>2

LEMMA StopsRound ==
  ASSUME BotInv, RoundInv, NEW b \in BotSet, b.status = bot.status, Stops(b), tries' = 0, Command
  PROVE  RoundInv'
<1>1. Cleared(b) \in BotSet /\ Cleared(b).status = b.status
  BY ClearedFine DEF Fine
<1>2. bot' = [Disconnect(Cleared(b)) EXCEPT !.manual = TRUE] /\ CleanupComes
  BY DEF Stops
<1>3. Disconnect(Cleared(b)) \in BotSet /\ Disconnect(Cleared(b)).status = b.status
  BY <1>1 DEF Disconnect, BotSet
<1>4. bot' \in BotSet /\ bot'.manual /\ bot'.status = bot.status
  BY <1>2, <1>3 DEF BotSet
<1>5. used'.glitches = used.glitches
  BY InvParts, GlitchesStay
<1>6. QED
  BY <1>2, <1>4, <1>5, NotScheduled, NewRound DEF InRound

LEMMA ClearedRests ==
  ASSUME NEW b \in BotSet
  PROVE  Cleared(b) \in BotSet /\ ~Cleared(b).timer /\ Cleared(b).status = b.status
BY ClearedFine DEF Fine, Quiet

LEMMA CommandsRound ==
  ASSUME BotInv, RoundInv, NEW j \in Jobs,
         StartBot(j) \/ StopBot \/ RestartBot(j) \/ JoinChannel(j) \/ RemoveBot
  PROVE  RoundInv'
<1>0. bot \in BotSet /\ Counters
  BY InvParts DEF Fine
<1>1. CASE StartBot(j)
  <2>1. Starts(j, Cleared(bot), FALSE) /\ tries' = 0 /\ Command /\ cleanups' = cleanups
    BY <1>1 DEF StartBot
  <2>2. QED
    BY <1>0, <2>1, ClearedRests, GlitchesStay, StartsRound
<1>2. CASE StopBot \/ RestartBot(j) \/ JoinChannel(j)
  BY <1>0, <1>2, StopsRound DEF StopBot, RestartBot, JoinChannel
<1>3. CASE RemoveBot
  <2>1. CASE bot.status = "stopped"
    <3>1. bot' = [Cleared(bot) EXCEPT !.there = FALSE] /\ tries' = 0 /\ Command /\ cleanups' = cleanups
      BY <1>3, <2>1 DEF RemoveBot
    <3>2. bot' \in BotSet /\ ~bot'.there /\ bot'.status = bot.status
      BY <1>0, <3>1, ClearedRests DEF BotSet
    <3>3. QED
      BY <1>0, <3>1, <3>2, GlitchesStay, NotScheduled, NewRound DEF InRound
  <2>2. CASE bot.status # "stopped"
    <3>1. /\ Stops([bot EXCEPT !.there = FALSE]) /\ tries' = 0 /\ Command
          /\ [bot EXCEPT !.there = FALSE] \in BotSet /\ [bot EXCEPT !.there = FALSE].status = bot.status
      BY <1>0, <1>3, <2>2 DEF RemoveBot, BotSet
    <3>2. QED
      BY <3>1, StopsRound
  <2>3. QED
    BY <2>1, <2>2
<1>4. QED
  BY <1>1, <1>2, <1>3

\* The round goes on.
LEMMA SameRound ==
  ASSUME BotInv, RoundInv, tries' = tries, crossed => crossed',
         used'.glitches = used.glitches,
         bot'.status = "error" => (bot.status = "error" /\ cleanups' = cleanups) \/ cleanups' > 0,
         ~crossed' /\ CountedIn(bot, tries) => CountedIn(bot', tries)
  PROVE  RoundInv'
<1>1. crossed \in BOOLEAN
  BY InvParts DEF Counters
<1>2. ErrorEnds => ErrorEnds'
  BY DEF ErrorEnds
<1>3. QED
  BY <1>1, <1>2 DEF RoundInv

LEMMA WaitingRound ==
  ASSUME BotInv, NoTimerLeft, RoundInv, NEW j \in Jobs, RestartGoes(j) \/ JoinStarts(j) \/ GraceEnds(j) \/ TimerFires(j)
  PROVE  RoundInv'
<1>0. /\ Fine(bot) /\ bot \in BotSet /\ Counters /\ job \in [Jobs -> JobSet] /\ Rest /\ GraceIsAttempt
      /\ tries \in Nat /\ crossed \in BOOLEAN
  BY InvParts DEF Fine, Counters
<1>1. CASE RestartGoes(j)
  <2>1. /\ Starts(j, bot, FALSE) /\ crossed' = (crossed \/ Beside(j) \/ bot.timer)
        /\ tries' = 0 /\ UNCHANGED <<cleanups, used>>
    BY <1>1 DEF RestartGoes
  <2>2. QED
    BY <1>0, <2>1, StartsRound
<1>2. CASE JoinStarts(j) /\ bot.there
  <2>1. Starts(j, Cleared(bot), FALSE) /\ tries' = 0 /\ UNCHANGED <<cleanups, used>>
    BY <1>2 DEF JoinStarts
  <2>2. QED
    BY <1>0, <2>1, ClearedRests, StartsRound
<1>3. CASE JoinStarts(j) /\ ~bot.there
  <2>1. bot' = bot /\ tries' = 0 /\ UNCHANGED <<cleanups, used>>
    BY <1>3 DEF JoinStarts
  <2>2. QED
    BY <1>0, <1>3, <2>1, NotScheduled, NewRound DEF InRound
<1>4. CASE GraceEnds(j)
  <2>1. job[j].at = "grace" /\ Starts(j, bot, TRUE) /\ UNCHANGED <<cleanups, tries, crossed, used>>
    BY <1>4 DEF GraceEnds
  <2>2. CASE bot.status \in Shown
    <3>1. bot' = Scheduled(bot)
      BY <2>1, <2>2 DEF Starts
    <3>2. CountedIn(bot, tries) => CountedIn(bot', tries)
      BY <1>0, <3>1, ScheduledCounts
    <3>3. bot'.status # "error"
      BY <1>0, <2>2, <3>1, ScheduledSame DEF Shown
    <3>4. QED
      BY <2>1, <3>2, <3>3, SameRound
  <2>3. CASE bot.status \notin Shown
    <3>1. bot' = [bot EXCEPT !.manual = FALSE, !.fatal = FALSE, !.status = "starting", !.sock = "init"]
      BY <2>1, <2>3 DEF Starts
    <3>2. /\ bot' \in BotSet /\ bot'.status = "starting" /\ bot'.there = bot.there
          /\ bot'.gaveUp = bot.gaveUp /\ bot'.attempts = bot.attempts /\ bot'.timer = bot.timer
      BY <1>0, <3>1 DEF BotSet
    <3>3. ~crossed => ~bot.manual /\ ~bot.fatal
      BY <1>0, <2>1 DEF Rest, Attempting, GraceIsAttempt, BotSet
    <3>4. ~crossed /\ CountedIn(bot, tries) => CountedIn(bot', tries)
      BY <1>0, <3>2, <3>3, SameCounts DEF InRound
    <3>5. QED
      BY <2>1, <3>2, <3>4, SameRound
  <2>4. QED
    BY <2>2, <2>3
<1>5. CASE TimerFires(j) /\ bot.status = "error"
  <2>1. used.glitches # 0 /\ used' = used
    <3>1. cleanups = 0 /\ used' = used
      BY <1>5 DEF TimerFires
    <3>2. QED
      BY <1>5, <3>1 DEF RoundInv, ErrorEnds
  <2>2. QED
    BY <2>1 DEF RoundInv
<1>6. CASE TimerFires(j) /\ bot.status # "error"
  <2>1. /\ bot.timer /\ bot' = [Closed(bot) EXCEPT !.timer = FALSE] /\ tries' = tries + 1
        /\ crossed' = (crossed \/ Beside(j)) /\ UNCHANGED <<cleanups, used>>
    BY <1>6 DEF TimerFires
  <2>2. /\ bot'.status = bot.status /\ bot'.there = bot.there /\ bot'.attempts = bot.attempts
        /\ ~bot'.timer /\ bot'.manual = bot.manual /\ bot'.fatal = bot.fatal /\ bot'.gaveUp = bot.gaveUp
    BY <1>0, <2>1 DEF Closed, BotSet
  <2>3. ErrorEnds'
    BY <1>6, <2>2 DEF ErrorEnds
  <2>4. ASSUME used.glitches = 0, ~crossed'
        PROVE  tries' <= MaxAttempts /\ CountedIn(bot', tries')
    <3>1. ~crossed /\ CountedIn(bot, tries)
      BY <2>1, <2>4 DEF RoundInv
    <3>2. InRound(bot)
      BY <1>0, <2>1, <2>4, <3>1 DEF InRound, Fine, Rest, Quiet, NoTimerLeft
    <3>3. tries + 1 <= bot.attempts /\ bot.attempts <= MaxAttempts /\ bot.attempts \in Nat
      BY <1>0, <2>1, <3>1, <3>2 DEF CountedIn, One, BotSet
    <3>4. tries' <= MaxAttempts
      BY <1>0, <2>1, <3>3, BotAssumption
    <3>5. CountedIn(bot', tries')
      BY <1>0, <2>1, <2>2, <3>3 DEF CountedIn, One
    <3>6. QED
      BY <3>4, <3>5
  <2>5. QED
    BY <2>1, <2>3, <2>4 DEF RoundInv
<1>7. QED
  BY <1>1, <1>2, <1>3, <1>4, <1>5, <1>6

LEMMA RejectedRound ==
  ASSUME BotInv, RoundInv, NEW D \in SUBSET Jobs, NEW b \in BotSet, Rejected(b, D),
         tries' = tries, crossed => crossed', used'.glitches = used.glitches,
         b.status = "error" => (bot.status = "error" /\ cleanups' = cleanups) \/ cleanups' > 0,
         ~crossed' /\ CountedIn(bot, tries) => CountedIn(b, tries)
  PROVE  RoundInv'
<1>1. bot' = b \/ bot' = Scheduled(b)
  BY DEF Rejected
<1>2. bot'.status = b.status
  BY <1>1, ScheduledSame
<1>3. tries \in Nat
  BY InvParts DEF Counters
<1>4. CountedIn(b, tries) => CountedIn(bot', tries)
  BY <1>1, <1>3, ScheduledCounts
<1>5. QED
  BY <1>2, <1>4, SameRound

LEMMA ConnectingRound ==
  ASSUME BotInv, RoundInv, NEW j \in Jobs, Resolved(j) \/ NotResolved(j) \/ TimesOut(j)
  PROVE  RoundInv'
<1>0. /\ Fine(bot) /\ bot \in BotSet /\ Counters /\ tries \in Nat /\ cleanups \in Nat /\ {j} \in SUBSET Jobs
  BY InvParts DEF Fine, Counters
<1>1. CASE Resolved(j) /\ bot.sock = "init"
  <2>1. bot' = [bot EXCEPT !.open = TRUE] /\ UNCHANGED <<cleanups, tries, crossed, used>>
    BY <1>1 DEF Resolved
  <2>2. /\ bot' \in BotSet /\ bot'.status = bot.status /\ bot'.attempts = bot.attempts
        /\ bot'.timer = bot.timer /\ (InRound(bot') => InRound(bot))
    BY <1>0, <2>1 DEF BotSet, InRound
  <2>3. QED
    BY <1>0, <2>1, <2>2, SameCounts, SameRound
<1>2. CASE Resolved(j) /\ bot.sock # "init"
  <2>1. Rejected(bot, {j}) /\ UNCHANGED <<cleanups, tries, crossed, used>>
    BY <1>2 DEF Resolved
  <2>2. QED
    BY <1>0, <2>1, RejectedRound
<1>3. CASE NotResolved(j)
  <2>1. Rejected(Down(bot), {j}) /\ Fault /\ UNCHANGED <<cleanups, tries, crossed>>
    BY <1>3 DEF NotResolved
  <2>2. Down(bot) \in BotSet /\ Down(bot).status = "stopped"
    BY <1>0, DownFine, DownSame DEF Fine
  <2>3. QED
    BY <1>0, <2>1, <2>2, DownCounts, GlitchesStay, RejectedRound
<1>4. CASE TimesOut(j)
  <2>1. /\ Rejected(bot, {j}) /\ CleanupComes /\ UNCHANGED <<tries, crossed>>
        /\ used' = used \/ Fault
    BY <1>4 DEF TimesOut
  <2>2. cleanups' > 0
    BY <1>0, <2>1 DEF CleanupComes
  <2>3. QED
    BY <1>0, <2>1, <2>2, GlitchesStay, RejectedRound
<1>5. QED
  BY <1>1, <1>2, <1>3, <1>4

LEMMA ConnectedRound ==
  ASSUME BotInv, RoundInv, Connected
  PROVE  RoundInv'
<1> DEFINE heard == At("connect")
           b == [bot EXCEPT !.sock = "connected"]
           c == [b EXCEPT !.status = "connected", !.gaveUp = FALSE]
           d == [c EXCEPT !.attempts = 0, !.timer = FALSE]
<1>0. /\ Fine(bot) /\ bot \in BotSet /\ Counters /\ Rest /\ tries \in Nat /\ crossed \in BOOLEAN
  BY InvParts DEF Fine, Counters
<1>1. /\ bot' = IF heard = {} THEN b ELSE IF \E j \in heard : job[j].auto THEN d ELSE c
      /\ tries' = (IF heard = {} THEN tries ELSE 0) /\ UNCHANGED <<cleanups, crossed, used>>
  BY DEF Connected
<1>2. /\ b \in BotSet /\ b.status = bot.status /\ b.attempts = bot.attempts /\ b.timer = bot.timer
      /\ (InRound(b) => InRound(bot))
  BY <1>0 DEF BotSet, InRound
<1>3. /\ c \in BotSet /\ c.status = "connected" /\ c.attempts = bot.attempts /\ c.timer = bot.timer
      /\ (InRound(c) => bot.there /\ ~bot.manual /\ ~bot.fatal)
  BY <1>0 DEF BotSet, InRound
<1> HIDE DEF b, c, heard
<1>4. d \in BotSet /\ d.status = "connected" /\ ~d.timer
  <2>1. 0 \in 0 .. MaxAttempts
    BY BotAssumption
  <2>2. QED
    BY <1>3, <2>1 DEF BotSet
<1> HIDE DEF d
<1>5. CASE heard = {}
  <2>1. CountedIn(bot, tries) => CountedIn(b, tries)
    BY <1>0, <1>2, SameCounts
  <2>2. QED
    BY <1>1, <1>2, <1>5, <2>1, SameRound
<1>6. CASE heard # {} /\ \E j \in heard : job[j].auto
  BY <1>1, <1>4, <1>6, NotScheduled, NewRound
<1>7. CASE heard # {} /\ ~\E j \in heard : job[j].auto
  <2>1. bot' = c /\ tries' = 0
    BY <1>1, <1>7
  <2>2. ASSUME ~crossed, used.glitches = 0 PROVE CountedIn(c, 0)
    <3>1. CASE ~c.timer \/ ~InRound(c)
      BY <1>3, <3>1, NotScheduled
    <3>2. CASE c.timer /\ InRound(c)
      <4>1. InRound(bot) /\ bot.timer
        BY <1>0, <1>3, <3>2 DEF InRound, Fine, Quiet
      <4>2. tries + 1 <= bot.attempts /\ bot.attempts \in Nat
        BY <1>0, <2>2, <4>1 DEF RoundInv, CountedIn, One, BotSet
      <4>3. QED
        BY <1>0, <1>3, <4>2 DEF CountedIn, One
    <3>3. QED
      BY <1>3, <3>1, <3>2 DEF BotSet, InRound
  <2>3. 0 <= MaxAttempts /\ ErrorEnds'
    BY <1>3, <2>1, BotAssumption DEF ErrorEnds
  <2>4. QED
    BY <1>1, <2>1, <2>2, <2>3 DEF RoundInv
<1>8. QED
  BY <1>5, <1>6, <1>7

LEMMA LossesRound ==
  ASSUME BotInv, RoundInv,
         (\E fatal \in BOOLEAN : Refused(fatal)) \/ SocketError \/ Silent \/ CleanupFires
  PROVE  RoundInv'
<1> DEFINE e == [bot EXCEPT !.status = "error"]
<1>0. /\ Fine(bot) /\ bot \in BotSet /\ Counters /\ tries \in Nat /\ cleanups \in Nat
      /\ crossed \in BOOLEAN /\ At("connect") \in SUBSET Jobs
  BY InvParts DEF Fine, Counters, At
<1>1. e \in BotSet /\ Fine(e) /\ (CountedIn(bot, tries) => CountedIn(e, tries))
  <2>1. /\ e \in BotSet /\ Fine(e) /\ e.attempts = bot.attempts /\ e.timer = bot.timer
        /\ (InRound(e) => InRound(bot))
    BY <1>0 DEF BotSet, Fine, Quiet, InRound
  <2> HIDE DEF e
  <2>2. QED
    BY <1>0, <2>1, SameCounts
<1>2. ASSUME NEW fatal \in BOOLEAN, Refused(fatal) PROVE RoundInv'
  <2> DEFINE d == Disconnect(e)
             f == [d EXCEPT !.fatal = TRUE]
  <2>1. /\ Rejected(IF fatal THEN Cleared(f) ELSE d, At("connect")) /\ Fault /\ CleanupComes
        /\ crossed' = (crossed \/ (fatal /\ \E j \in Jobs : job'[j].auto)) /\ tries' = tries
    BY <1>2 DEF Refused
  <2>2. (crossed => crossed') /\ cleanups' > 0 /\ used'.glitches = used.glitches
    BY <1>0, <2>1, GlitchesStay DEF CleanupComes
  <2> HIDE DEF e
  <2>3. d \in BotSet /\ (CountedIn(e, tries) => CountedIn(d, tries))
    <3>1. /\ d \in BotSet /\ d.attempts = e.attempts /\ d.timer = e.timer
          /\ (InRound(d) => InRound(e))
      BY <1>1 DEF Disconnect, BotSet, InRound
    <3> HIDE DEF d
    <3>2. QED
      BY <1>0, <1>1, <3>1, SameCounts
  <2> HIDE DEF d
  <2>4. Cleared(f) \in BotSet /\ Cleared(f).fatal
    <3>1. f \in BotSet /\ f.fatal
      BY <2>3 DEF BotSet
    <3> HIDE DEF f
    <3>2. QED
      BY <3>1, ClearedFine DEF Fine
  <2>5. CASE fatal
    BY <1>0, <2>1, <2>2, <2>4, <2>5, RejectedRound DEF CountedIn, InRound
  <2>6. CASE ~fatal
    BY <1>0, <1>1, <2>1, <2>2, <2>3, <2>6, RejectedRound
  <2>7. QED
    BY <2>5, <2>6
<1>3. CASE SocketError
  <2>1. used'.glitches # 0
    BY <1>0, <1>3 DEF SocketError, Glitch, Counters
  <2>2. QED
    BY <2>1 DEF RoundInv
<1>4. CASE Silent
  <2>1. /\ Rejected(Down(e), At("connect")) /\ UNCHANGED <<cleanups, tries, crossed>>
        /\ used' = used \/ Fault
    BY <1>4 DEF Silent
  <2> HIDE DEF e
  <2>2. Down(e) \in BotSet /\ Down(e).status = "stopped"
    BY <1>1, DownFine, DownSame DEF Fine
  <2>3. QED
    BY <1>0, <1>1, <2>1, <2>2, DownCounts, GlitchesStay, RejectedRound
<1>5. CASE CleanupFires
  <2>1. bot' = Down(bot) /\ UNCHANGED <<tries, crossed, used>>
    BY <1>5 DEF CleanupFires
  <2>2. bot'.status = "stopped" /\ (CountedIn(bot, tries) => CountedIn(bot', tries))
    BY <1>0, <2>1, DownSame, DownCounts
  <2>3. QED
    BY <2>1, <2>2, SameRound
<1>6. QED
  BY <1>2, <1>3, <1>4, <1>5

LEMMA ClaimsRound ==
  ASSUME BotInv, RoundInv, PlayerClaims
  PROVE  RoundInv'
<1>1. /\ bot \in BotSet /\ Counters /\ tries \in Nat /\ Command
      /\ UNCHANGED <<cleanups, tries, crossed>>
  BY InvParts DEF Fine, Counters, PlayerClaims
<1>2. bot' = [bot EXCEPT !.status = "claimed"]
  BY DEF PlayerClaims
<1>3. /\ bot' \in BotSet /\ bot'.status = "claimed" /\ bot'.attempts = bot.attempts
      /\ bot'.timer = bot.timer /\ (InRound(bot') => InRound(bot))
  BY <1>1, <1>2 DEF BotSet, InRound
<1>4. CountedIn(bot, tries) => CountedIn(bot', tries)
  BY <1>1, <1>3, SameCounts
<1>5. used'.glitches = used.glitches
  BY <1>1, GlitchesStay
<1>6. QED
  BY <1>1, <1>3, <1>4, <1>5, SameRound

LEMMA NextIsCounted == BotInv /\ NoTimerLeft /\ RoundInv /\ [Next]_vars => RoundInv'
<1> SUFFICES ASSUME BotInv, NoTimerLeft, RoundInv, [Next]_vars PROVE RoundInv'
  OBVIOUS
<1>1. CASE UNCHANGED vars
  BY <1>1 DEF vars, RoundInv, ErrorEnds
<1>2. CASE StopBot \/ RemoveBot
  BY <1>2, BotAssumption, CommandsRound
<1>3. CASE Connected
  BY <1>3, ConnectedRound
<1>4. CASE SocketError \/ Silent \/ CleanupFires \/ \E fatal \in BOOLEAN : Refused(fatal)
  BY <1>4, LossesRound
<1>5. ASSUME NEW j \in Jobs, StartBot(j) \/ RestartBot(j) \/ JoinChannel(j) PROVE RoundInv'
  BY <1>5, CommandsRound
<1>6. ASSUME NEW j \in Jobs, JobStep(j) PROVE RoundInv'
  BY <1>6, ConnectingRound, WaitingRound DEF JobStep
<1>7. CASE PlayerClaims
  BY <1>7, ClaimsRound
<1>8. QED
  BY <1>1, <1>2, <1>3, <1>4, <1>5, <1>6, <1>7 DEF Next

\* As long as the socket reports no error and no operation crossed another, the manager makes at
\* most MaxAttempts attempts in a row: nothing resets its count in between.
THEOREM RoundsEnd == Spec => []RoundEnds
<1>1. Init => RoundInv
  <2>1. 0 \in 0 .. MaxAttempts /\ 0 <= MaxAttempts
    BY BotAssumption
  <2>2. QED
    BY <2>1 DEF Init, RoundInv, ErrorEnds, CountedIn, One
<1>2. RoundInv => RoundEnds
  BY DEF RoundInv, RoundEnds
<1>3. LiveInv => NoTimerLeft
  BY DEF LiveInv
<1>4. QED
  BY <1>1, <1>2, <1>3, InitIsFine, NextIsFine, InitIsLive, NextIsLive, NextIsCounted, PTL DEF Spec
================================================================================
