----------------------------- MODULE BotConnection -----------------------------
(***************************************************************************)
(* The connection of one music bot: VoiceBotManager starts, stops and      *)
(* removes it and reconnects it when it drops, VoiceBot keeps its status,  *)
(* Ts3Client its socket.  Every operation awaits, so others come between:  *)
(* an attempt to reconnect pauses and then connects, disconnecting cleans  *)
(* up half a second later, whatever the client is doing by then.           *)
(***************************************************************************)
EXTENDS Naturals

CONSTANTS
  Jobs,          \* bound: operations of the bot that wait for something at once
  MaxAttempts,   \* MAX_RECONNECT_ATTEMPTS (10 in the code)
  MaxCleanups,   \* bound: cleanups on their way
  MaxFaults,     \* bound: refusals, timeouts and silent servers
  MaxGlitches,   \* bound: socket errors
  MaxCommands,   \* bound: commands of users and flows
  PlayerWrites   \* what the bot plays is commanded, or ends, at any time too

ASSUME BotAssumption ==
  /\ Jobs # {} /\ MaxAttempts \in Nat \ {0} /\ MaxCleanups \in Nat \ {0}
  /\ MaxFaults \in Nat /\ MaxGlitches \in Nat /\ MaxCommands \in Nat
  /\ PlayerWrites \in BOOLEAN

VARIABLES
  bot,        \* the bot, its client, and its entry in reconnectState (attempts 0: none) and gaveUp
  job,        \* where each operation waits, and whether it is an attempt of the timer
  cleanups,   \* cleanups of the client on their way
  tries,      \* history: attempts since the bot was connected or last told something
  crossed,  \* history: since the last stop, operations of the bot crossed each other
  used        \* bound: faults, glitches and commands so far

\* The status 'claimed' is a 'connected' that no connect has written; the code cannot tell them apart.
vars == <<bot, job, cleanups, tries, crossed, used>>

Idle == [at |-> "idle", auto |-> FALSE]

Init ==
  /\ bot = [there |-> TRUE, status |-> "stopped", manual |-> FALSE, fatal |-> FALSE,
            sock |-> "disconnected", open |-> FALSE, attempts |-> 0, timer |-> FALSE,
            gaveUp |-> FALSE]
  /\ job = [j \in Jobs |-> Idle]
  /\ cleanups = 0 /\ tries = 0 /\ crossed = FALSE
  /\ used = [faults |-> 0, glitches |-> 0, commands |-> 0]

Fault   == used.faults < MaxFaults /\ used' = [used EXCEPT !.faults = @ + 1]
Glitch  == used.glitches < MaxGlitches /\ used' = [used EXCEPT !.glitches = @ + 1]
Command == used.commands < MaxCommands /\ used' = [used EXCEPT !.commands = @ + 1]

------------------------------------------------------------------------------
(* Pieces the operations share *)

\* Mutant: the timer runs on.
ClearedButTimer(b) == [b EXCEPT !.gaveUp = FALSE, !.attempts = 0]

Cleared(b) == [b EXCEPT !.gaveUp = FALSE, !.timer = FALSE, !.attempts = 0]

\* Mutant: one attempt too many.
NextTryMore(b) ==
  IF b.attempts > MaxAttempts THEN [b EXCEPT !.gaveUp = TRUE, !.attempts = 0]
  ELSE [b EXCEPT !.attempts = @ + 1, !.timer = TRUE]

NextTry(b) ==
  IF b.attempts >= MaxAttempts THEN [b EXCEPT !.gaveUp = TRUE, !.attempts = 0]
  ELSE [b EXCEPT !.attempts = @ + 1, !.timer = TRUE]

\* Mutant: the disconnect after the last failed attempt starts a new round.
ScheduledAgain(b) ==
  CASE ~b.there            -> b
    [] b.there /\ b.fatal  -> Cleared(b)
    [] b.there /\ ~b.fatal -> IF b.timer THEN b ELSE NextTry(b)

\* Mutant: a bot refused for good is retried.
ScheduledFatal(b) ==
  IF ~b.there \/ b.gaveUp \/ b.timer THEN b ELSE NextTry(b)

Scheduled(b) ==
  CASE ~b.there            -> b
    [] b.there /\ b.fatal  -> Cleared(b)
    [] b.there /\ ~b.fatal -> IF b.gaveUp \/ b.timer THEN b ELSE NextTry(b)

Closed(b) == [b EXCEPT !.sock = "disconnected", !.open = FALSE]

\* Mutant: only a bot that was connected is retried.
DownConnected(b) ==
  LET c == [Closed(b) EXCEPT !.status = "stopped"] IN
    IF b.manual \/ b.fatal \/ b.status # "connected" THEN c ELSE Scheduled(c)

\* The client cleans up and tells the bot, the bot tells the manager.
Down(b) ==
  LET c == [Closed(b) EXCEPT !.status = "stopped"] IN
    IF b.manual \/ b.fatal THEN c ELSE Scheduled(c)

\* An attempt to reconnect is under way.
Attempting == \E j \in Jobs : job[j].auto

\* Some other operation is.
Beside(j) == \E i \in Jobs \ {j} : job[i] # Idle

At(w) == {j \in Jobs : job[j].at = w}

\* The connects of D fail in state b.
Rejected(b, D) ==
  /\ bot' = IF \E j \in D : job[j].auto THEN Scheduled(b) ELSE b
  /\ job' = [j \in Jobs |-> IF j \in D THEN Idle ELSE job[j]]

Disconnect(b) == [b EXCEPT !.sock = IF @ = "connected" THEN "disconnecting" ELSE @]

CleanupComes == cleanups < MaxCleanups /\ cleanups' = cleanups + 1

\* What the code reads as 'connected'; 'playing' and 'paused' are part of it.
Shown == {"connected", "claimed"}

\* A bot that runs refuses to start; one that is starting does not.
Starts(j, b, auto) ==
  IF b.status \in Shown
  THEN /\ bot' = IF auto THEN Scheduled(b) ELSE b
       /\ job' = [job EXCEPT ![j] = Idle]
  ELSE /\ bot' = [b EXCEPT !.manual = FALSE, !.fatal = FALSE, !.status = "starting", !.sock = "init"]
       /\ job' = [job EXCEPT ![j] = [at |-> "resolve", auto |-> auto]]

Stops(b) ==
  /\ bot' = [Disconnect(Cleared(b)) EXCEPT !.manual = TRUE] /\ CleanupComes
  /\ crossed' = Attempting

------------------------------------------------------------------------------
(* Commands *)

StartBot(j) ==
  /\ bot.there /\ job[j] = Idle /\ Command
  /\ Starts(j, Cleared(bot), FALSE)
  /\ tries' = 0 /\ crossed' = (crossed \/ Beside(j)) /\ UNCHANGED cleanups

StopBot ==
  /\ bot.there /\ Command
  /\ Stops(bot)
  /\ tries' = 0 /\ UNCHANGED job

RestartBot(j) ==
  /\ bot.there /\ job[j] = Idle /\ Command
  /\ Stops(bot)
  /\ job' = [job EXCEPT ![j].at = "wait"]
  /\ tries' = 0

RestartGoes(j) ==
  /\ job[j].at = "wait" /\ bot.status = "stopped" /\ cleanups = 0
  /\ Starts(j, bot, FALSE)
  /\ tries' = 0 /\ crossed' = (crossed \/ Beside(j) \/ bot.timer) /\ UNCHANGED <<cleanups, used>>

RemoveBot ==
  /\ bot.there /\ Command
  /\ IF bot.status = "stopped"
     THEN /\ bot' = [Cleared(bot) EXCEPT !.there = FALSE]
          /\ crossed' = Attempting /\ UNCHANGED cleanups
     ELSE Stops([bot EXCEPT !.there = FALSE])
  /\ tries' = 0 /\ UNCHANGED job

\* A flow moves the bot to another channel: it stops it, stores the channel, and starts it.
JoinChannel(j) ==
  /\ bot.there /\ job[j] = Idle /\ Command
  /\ Stops(bot)
  /\ job' = [job EXCEPT ![j].at = "store"]
  /\ tries' = 0

JoinStarts(j) ==
  /\ job[j].at = "store"
  /\ IF bot.there THEN Starts(j, Cleared(bot), FALSE)
     ELSE job' = [job EXCEPT ![j] = Idle] /\ UNCHANGED bot
  /\ tries' = 0 /\ crossed' = (crossed \/ Beside(j)) /\ UNCHANGED <<cleanups, used>>

\* Skip and Previous write 'connected' without a look at the connection, and so does what was
\* played when it ends, or a station when it does not open.
PlayerClaims ==
  /\ PlayerWrites /\ bot.there /\ bot.status \notin Shown /\ Command
  /\ bot' = [bot EXCEPT !.status = "claimed"]
  /\ UNCHANGED <<job, cleanups, tries, crossed>>

------------------------------------------------------------------------------
(* Connecting *)

\* The lookup of the host ends; meanwhile the client may have been closed.
Resolved(j) ==
  /\ job[j].at = "resolve"
  /\ IF bot.sock = "init"
     THEN /\ bot' = [bot EXCEPT !.open = TRUE]
          /\ job' = [job EXCEPT ![j].at = "connect"]
     ELSE Rejected(bot, {j})
  /\ UNCHANGED <<cleanups, tries, crossed, used>>

NotResolved(j) ==
  /\ job[j].at = "resolve" /\ Fault
  /\ Rejected(Down(bot), {j})
  /\ UNCHANGED <<cleanups, tries, crossed>>

\* All connects that still wait hear of it, and perhaps none does.
Connected ==
  /\ bot.open /\ bot.sock = "init"
  /\ LET heard == At("connect")
         b     == [bot EXCEPT !.sock = "connected"] IN
       /\ bot' = IF heard = {} THEN b
                 ELSE LET c == [b EXCEPT !.status = "connected", !.gaveUp = FALSE] IN
                        IF \E j \in heard : job[j].auto THEN [c EXCEPT !.attempts = 0, !.timer = FALSE] ELSE c
       /\ job' = [j \in Jobs |-> IF j \in heard THEN Idle ELSE job[j]]
       /\ tries' = IF heard = {} THEN tries ELSE 0
  /\ UNCHANGED <<cleanups, crossed, used>>

\* The server refuses the bot, for good or because of its flood protection.
Refused(fatal) ==
  /\ bot.open /\ bot.sock \in {"init", "connected"} /\ Fault
  /\ LET b == Disconnect([bot EXCEPT !.status = "error"]) IN
       Rejected(IF fatal THEN Cleared([b EXCEPT !.fatal = TRUE]) ELSE b, At("connect"))
  /\ crossed' = (crossed \/ (fatal /\ \E j \in Jobs : job'[j].auto))
  /\ CleanupComes /\ UNCHANGED tries

TimesOut(j) ==
  /\ job[j].at = "connect"
  /\ IF bot.sock = "init" THEN Fault ELSE UNCHANGED used
  /\ Rejected(bot, {j})
  /\ CleanupComes /\ UNCHANGED <<tries, crossed>>

\* The socket reports an error; nothing closes it.
SocketError ==
  /\ bot.open /\ Glitch
  /\ Rejected([bot EXCEPT !.status = "error"], At("connect"))
  /\ UNCHANGED <<cleanups, tries, crossed>>

------------------------------------------------------------------------------
(* Losing the connection and coming back *)

\* The server does not answer any more; the resend loop cleans up.
Silent ==
  /\ bot.open
  /\ IF bot.sock = "connected" \/ At("connect") # {} THEN Fault ELSE UNCHANGED used
  /\ Rejected(Down([bot EXCEPT !.status = "error"]), At("connect"))
  /\ UNCHANGED <<cleanups, tries, crossed>>

\* It comes whatever has been started since.
CleanupFires ==
  /\ cleanups > 0 /\ cleanups' = cleanups - 1
  /\ bot' = Down(bot)
  /\ UNCHANGED <<job, tries, crossed, used>>

\* The timer runs for a second at least, a cleanup asked for with it has come by then.  A status of
\* 'error' is taken for a refusal.
TimerFires(j) ==
  /\ bot.timer /\ cleanups = 0 /\ job[j] = Idle
  /\ IF bot.status = "error"
     THEN /\ bot' = [bot EXCEPT !.attempts = 0, !.timer = FALSE]
          /\ UNCHANGED <<job, tries, crossed>>
     ELSE /\ bot' = [Closed(bot) EXCEPT !.timer = FALSE]
          /\ job' = [job EXCEPT ![j] = [at |-> "grace", auto |-> TRUE]]
          /\ tries' = tries + 1
          /\ crossed' = (crossed \/ Beside(j))
  /\ UNCHANGED <<cleanups, used>>

\* The attempt starts the bot, whatever happened to it in the pause.
GraceEnds(j) ==
  /\ job[j].at = "grace"
  /\ Starts(j, bot, TRUE)
  /\ UNCHANGED <<cleanups, tries, crossed, used>>

JobStep(j) ==
  \/ RestartGoes(j) \/ JoinStarts(j) \/ Resolved(j) \/ NotResolved(j) \/ TimesOut(j)
  \/ TimerFires(j) \/ GraceEnds(j)

Next ==
  \/ StopBot \/ RemoveBot \/ PlayerClaims
  \/ Connected \/ SocketError \/ Silent \/ CleanupFires
  \/ \E fatal \in BOOLEAN : Refused(fatal)
  \/ \E j \in Jobs : StartBot(j) \/ RestartBot(j) \/ JoinChannel(j) \/ JobStep(j)

Spec == Init /\ [][Next]_vars

\* Timers fire and promises settle: a connect is answered or times out.
Fairness ==
  /\ WF_vars(CleanupFires)
  /\ WF_vars(\E j \in Jobs : TimerFires(j))
  /\ \A j \in Jobs : /\ WF_vars(RestartGoes(j)) /\ WF_vars(JoinStarts(j)) /\ WF_vars(GraceEnds(j))
                     /\ WF_vars(Resolved(j)) /\ WF_vars(Connected \/ TimesOut(j))

FairSpec == Spec /\ Fairness

------------------------------------------------------------------------------
(* Properties *)

BotSet ==
  [there : BOOLEAN, status : {"stopped", "starting", "connected", "claimed", "error"},
   manual : BOOLEAN, fatal : BOOLEAN, sock : {"disconnected", "init", "connected", "disconnecting"},
   open : BOOLEAN, attempts : 0 .. MaxAttempts, timer : BOOLEAN, gaveUp : BOOLEAN]

TypeOK ==
  /\ bot \in BotSet
  /\ job \in [Jobs -> [at : {"idle", "grace", "wait", "store", "resolve", "connect"}, auto : BOOLEAN]]
  /\ cleanups \in 0 .. MaxCleanups
  /\ tries \in Nat /\ crossed \in BOOLEAN
  /\ used \in [faults : 0 .. MaxFaults, glitches : 0 .. MaxGlitches, commands : 0 .. MaxCommands]

\* A bot the manager gave up on, was refused for good, or was stopped with no attempt under way has
\* no retry ahead: nothing but a command starts it again.
NothingAhead ==
  bot.gaveUp \/ ((bot.manual \/ bot.fatal) /\ ~crossed) => ~bot.timer /\ bot.attempts = 0

\* A bot that a connect showed as connected, and that is not being stopped, has a connection, as
\* long as no operation crossed another; what the player claims says nothing of it.
LiveAsShown == bot.status = "connected" /\ ~bot.manual /\ ~crossed => bot.sock = "connected"

\* The manager never tries more often than it says in a row, as long as the socket reports no error.
RoundEnds == used.glitches = 0 /\ ~crossed => tries <= MaxAttempts

\* Whatever a bot is started or dropped for comes to an end: it is connected, given up on, refused,
\* stopped or removed, unless its socket reported an error, or the player wrote over its status.
Online == bot.status = "connected" /\ bot.sock = "connected"
Settled == Online \/ bot.status = "claimed" \/ bot.gaveUp \/ bot.fatal \/ bot.manual \/ ~bot.there
Settles ==
  (bot.status \in {"starting", "error"} \/ bot.attempts > 0) ~> (Settled \/ used.glitches > 0 \/ crossed)

\* "Reconnect bot with the specified channel as default": the bot is started again.
JoinReconnects ==
  \A j \in Jobs : (job[j].at = "store" /\ bot.there) ~> (bot.there => ~bot.manual)
================================================================================
