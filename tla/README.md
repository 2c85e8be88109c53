# Formal model of the TS6 Manager

This directory holds a TLA+ model of the parts of the TS6 Manager whose behaviour depends on the order of
events: jobs and web requests that work on the same rows, commands to TeamSpeak that fail half way, a start of
the container that may be killed between any two steps, connections that drop while others use them, and
commands that come while the one before is still under way. TLC checks the model on small instances; TLAPS
proves the most important results for every value of the constants.

Paths below are relative to `src/packages/backend/src/` unless they say otherwise.

    tlc -workers 4 -config SupportQueue_job.cfg MCSupportQueue.tla    # one run
    tlapm SupportQueueProofs.tla                                      # one module of proofs

## 1. Inventory

The manager is a Node process (`packages/backend`) with a SQLite database, a React frontend, a Go side process
for video, and any number of TeamSpeak servers it talks to over HTTP (WebQuery), SSH and the voice protocol
(UDP). The backend is one thread: two handlers interleave exactly at their awaits.

| Component | State | Operations | Interacts with | Hard behaviour |
|---|---|---|---|---|
| Support queue `utils/support-queue.ts`, `routes/support-queue.routes.ts` | rows SupportQueue and SupportCase, live state in memory | a pass every few seconds; take, remove, close, configure | TeamSpeak (list, move, create channel), the create lock | job against requests, stale reads, undo of a failed take, outages, restart |
| Channel create lock `utils/channel-create-lock.ts` | a chain of promises per virtual server | acquire, release | takes, imports, flows | must be released on every way out |
| Restore `db-restore.ts` | database file, its -wal, copies, pending and result files | mark, cancel, apply at the start, roll back | backups, migrations | a crash between any two file operations |
| Migrations `db-migrate.ts` | schema of the database | plan, back up, deploy | restore | failing half way |
| Backups `utils/backups.ts` | files in `data/backups` | create, delete, retention, check, mark | restore | a marked backup that disappears |
| Temporary groups `utils/temporary-groups.ts`, `routes/temporary-groups.routes.ts`, `utils/temporary-group-notices.ts` | row per membership with a deadline | assign, extend, make permanent, end; the deadline job with retries; notices | TeamSpeak | job against extension, a member removed by hand, crash between command and row |
| SSH query client `bot-engine/ssh-query-client.ts` | queue of commands, the one in flight, reconnect timer | connect, execute, timeout, keepalive | flows, console, files | a late answer after a timeout, reconnect while commands wait, events of a session that was given up |
| Flow engine `bot-engine/engine.ts`, `flow-runner.ts` | flows, suspended executions, cooldowns, temporary channels | trigger, run nodes, wait and resume, stop | SSH, WebQuery, music bots | resume after a restart, a flow changed while it waits |
| Music bots `voice/voice-bot.ts`, `voice/voice-bot-manager.ts`, `voice/playlist/queue.ts` | queue, playback, pauses, retries of the connection | play, pause, seek, skip, enqueue, start, stop, reconnect | voice transport, ffmpeg, yt-dlp, flows, chat | a command while a song is probed or a station opened, a cleanup half a second late, a stop during a retry |
| Voice transport `voice/tslib/client.ts` | packet counters with generations, unacknowledged commands | send, acknowledge, resend, receive in order | music bots | loss, duplication, reordering, counters that wrap |
| Query console `console/event-sessions.ts`, `console/execute.ts` | shared event sessions with takers | open, share, close, run a command | SSH | the last taker leaves while another arrives |
| Video streaming `voice/streaming/`, `packages/sidecar` | side process, streams | start, stop, signal | music bots | life of a second process |
| Login and rights `routes/auth.routes.ts`, `middleware/`, `utils/session-cutoff.ts` | users, tokens, cut-off time, roles | login, refresh, revoke, check | all routes | refresh of one token twice |
| Samplers and journal `ts-client/*sampler.ts`, `ts-client/ts-login-journal.ts` | time series, log positions | sample, roll up, read logs | TeamSpeak | gaps after outages |
| Change log, bulk actions, scheduled restart, widgets, pages for TeamSpeak objects | little or none | one request, a few commands | TeamSpeak | one step of several failing |
| Frontend `packages/frontend`, shared types `packages/common` | view state | rendering, forms | API | - |

What makes each of the first components correct:

- *Support queue*: nobody is queued twice; one supporter per case; an ended case stays ended; nobody loses the
  place for an outage, or before the grace period is over; whoever waits is queued, whoever is gone is not; a
  change of the setup ends what belonged to the old one.
- *Restore*: the database is always one whole state, the old or the restored one; the state that is replaced is
  kept; sessions of a restored state are dropped before the backend runs; a failed migration takes the restore
  back; every marked restore is decided.
- *Temporary groups*: no membership outlives its deadline for ever; no request or late result writes over what
  has ended; a row and the membership on the server agree in the end.
- *SSH query client*: an answer goes to the command that asked; every command is answered, fails or times out,
  once; a connection that was lost comes back; a destroyed client starts nothing again.
- *Connection of a music bot*: a bot that is stopped, refused for good or given up on is not started again by
  the manager; one that a connect has shown as connected is; a round of attempts is bounded and leads somewhere.
- *Playback of a music bot*: one ffmpeg at a time; the status says what is heard; the track the queue calls
  current is the one that plays; the queue is played to its end.

## 2. Modules

| Module | Models | Composes or implements | Proofs |
|---|---|---|---|
| `SupportQueue` | job, requests and setup of the support queue, with the create lock | - | `SupportQueueProofs` |
| `DbRestore` | restore and migrations at a start, with the files of the backups | implements `KeptStates` | `DbRestoreProofs` |
| `TempGroups` | memberships with a deadline, their job and requests | - | `TempGroupsProofs` |
| `SshQuery` | the SSH query client | implements `QueryLine` | `SshQueryProofs` |
| `BotConnection` | a bot's connection: manager, bot, client and the flow step that moves it | - | `BotConnectionProofs` |
| `Player` | playback of a bot | uses `PlayQueue`, its queue | `PlayerProofs`, `PlayQueueProofs` |

`MCx` holds what TLC needs to instantiate module `x`. The components are modelled apart: they share TeamSpeak
and the database, but each owns its rows, and what one does to another comes in as an event any other client
could cause (a client moved, a group taken away, a bot disconnected). `Player` and `BotConnection` are two views
of one bot: `Player` knows the connection as up, left or down and takes any loss of it for granted, which is
more than `BotConnection` does. No module has a RECURSIVE operator.

What would be worth adding: the notices of temporary groups, the waits of flows that resume after a restart, the
shared event sessions of the console, the packet counters of the voice transport.

## 3. SupportQueue

**What it models.** One virtual server's queue. TeamSpeak is `where`, the place of every connection; the
database rows are `queue` and `cases`; the job's memory is `live` (when the watch of the channel began) and
`pass` (what the running pass has read); `reqs`, `puts` are the web requests in flight and `lock` the
channel-create lock. Every `await` of the code ends an action:

| Code | Actions |
|---|---|
| `processSupportQueues`, `reconcile`, `applyChanges` | `PassStart`, `Look` or `LookFails`, `Reconcile`, `ApplyUpdate`*, `ApplyCreate`*, `PassFails` |
| `POST /cases/:id/take` | `TakeRead`, `TakeLookUp`, `TakeClaim`, `TakeLock`, `TakeCreateRoom`, `TakeMoveClient`, `TakeMoveSupporter`, `TakeDone` or `TakeFails` (the undo) |
| `POST /cases/:id/remove` | `RemoveClaim`, `RemoveFind`, `RemoveSendHome` |
| `POST /cases/:id/close` | `Close` |
| `PUT /config`, `closeOpenCases`, `resetQueueState` | `PutRead`, `PutWrite`, `PutCloseWaiting`, `PutCloseTaken`, `PutReset` |
| clients, clock, process | `Walk`, `Tick`, `Restart` |

Times are ages: `absentFor` stands for "now minus absentSince". Ages saturate at `Grace + MaxLag`, where the
code cannot tell them apart any more, so time is unbounded while the state is finite. A pass works with the time
of its start; an age seen from there is the age less `pass.age`.

**Runs.**

| Run | Instance | Shows |
|---|---|---|
| `sq_job` | one identity on two connections, a supporter, grace 1, passes up to 1 tick long, 1 fault, fair job | nobody queued twice, also with two connections; no end before the grace period; an outage ends nobody; whoever is gone is closed, whoever waits is queued |
| `sq_web` | two requests, one client, a supporter, one case, fair job and requests | one taker per case, ended cases stay ended, takes end and free the lock, the invariant of the proof (types included) |
| `sq_config` | an administrator, two waiting channels, `queueWithoutSupporter` off | a change of the setup ends every case of the old one |

*Bounds.* Two connections of one identity are needed for the choice between them; two requests for the race for
a case; two cases to queue somebody again. A grace of one tick with a lag of one tick has all orders of "absence
recorded, pass started, grace over, update written"; a longer grace adds none. At `MaxCases` a further row is
not written, which only removes behaviours.

*Fairness.* The interval timer starts passes for ever, and the database and TeamSpeak answer or fail; a failure
is counted by `faults`. A pass and a request in flight therefore go on (weak fairness). The lock is handed on in
the order of arrival, which weak fairness of the lock step would not give when another request holds it again
and again; `SF_vars(TakeLock(r))` stands for that order. Nothing is assumed about people: `Walk`, new requests
and `Restart` are not fair.

**Proved** (`SupportQueueProofs`, any number of people, channels, cases, requests and administrators, from
`QueueAssumption` only). `AtMostOneOpenCase` is not inductive: the job creates a row without any condition in
the database. The strengthening `QueueInv` adds that a pass only has creates for people without an open case
(`CreatesAreNew`; no step but the job's own makes an open case, as an undo only reopens an open one) and that a
case claimed by a request is not waiting (`ClaimedIsTaken`; hence nobody else can claim it). `EndedForGood`
follows from the same step lemmas.

A take can leave its case taken with nobody at work on it: it finds no client to send its commands with after
the claim (`TakeClaim`), or its undo fails with the command it was for (`TakeFails`). The lock is free all the
same (`TakesEnd`), and the case ends by absence or is closed.

`NobodyEndsByOutage` rests on `Calm`: the watch of the channel began after the last outage, and what a pass
plans was planned a grace period after it. `OldCasesAreEnded` holds with requests as long as no take is undone
(`NoUndo`), and needs that: an undone take puts a case back between the two updates of a change (section 10). It
rests on the waiting cases being ended for good by the first update and the taken ones by the second: a case
never goes back from taken to waiting.

`GraceIsKept` and `WaitingGraceIsKept` compare the row with what looks really found: no recorded absence is
older than the last look that found the client (`OutCounts`), and what is planned for a case stays justified as
long as it would land, also when the pass takes long (`PlanCounts`). For waiting cases this holds with requests
as long as no take is undone, which would leave an old `absentSince` (section 10). For taken cases it is proved
without requests only, because with them it is false: the pass that a take came into records an absence from the
start of the pass, before the client was moved, so the grace of a taken case may be short by the pass's length.

**Left out.** Other settings than the channel, the switch, `queueWithoutSupporter` and the grace period are
fixed during a run. Display columns, statistics and the change log are not modelled; the read of a case by
remove and close is merged with their conditional update, which decides again. People do not walk into the rooms
that takes create. The away flag is any set of connections at each look. That the names of rooms are unique is
left to TeamSpeak's refusal, which is one of the ways a take fails.

## 4. DbRestore and KeptStates

**What it models.** The files `main`, `wal`, `files` (backups and copies), `pending` and `result` survive a
crash; `proc` is the process: a start at one of its steps, the backend, or down. The content of a database is
the number of its state (each change by the backend makes a new one), how far its schema is migrated, and what
its sessions are: its own, those a restore brought back (`revived`), or those that a delete or the session
cut-off of `dropSessions` was tried on and failed (`spared`; the code passes over such a failure). SQLite is
modelled by what the code relies on: a reader sees the file, or the file with its -wal (`Db`); a write goes to
the -wal or is folded in (`Store`); a -wal beside a file it does not belong to yields `Garbage`.

| Code | Actions |
|---|---|
| `applyPendingRestore` | `Start`, `CopyCurrent` or `CopyFails`, `RecordCopy`, swapIn, `DropSessions`, `ClearPending`, `WriteResult`; `fail`: `GiveUp`, `GiveUpResult` |
| `swapIn` | `Fold`, `Unlink`, `Rename` |
| `db-migrate.ts` `run` | `StartSkipping`, `Migrate`, `Migrated`, `Fatal` |
| `rollbackRestore` | swapIn with `proc.back`, `BackResult` |
| `utils/backups.ts` | `CreateBackup`, `RemoveBackup` (by hand and by the retention), `RequestRestore`, `CancelRestore` |
| restart policy, SIGTERM or kill | `Stop` (backend), `Crash` (start) |

`KeptStates` is the promise, without files or steps: the database holds one state; work makes a new one; states
are kept and forgotten; one `Switch` replaces the state by a kept one, and only if the current one is kept too.
`SwitchesAreWhole` is its specification under `db <- Db.data`, `kept <- Kept`, `latest <- latest`.

**Runs.**

| Run | Instance | Shows |
|---|---|---|
| `dr_crash` | 3 file names, the two outside the schedule symmetric, 2 changes, 1 crash | the refinement, `RestoreInv`, kept states, no old sessions but those a delete failed on; the backend comes up with the state it left or the one asked for; the result is true as long as no start was killed |
| `dr_live` | fair starts, DB_MIGRATE_SKIP allowed, 2 names, 1 change, 1 crash | every mark is applied, refused or cancelled; no stale -wal is ever replayed |
| `dr_half` | one crash | a finding, section 10 |

*Bounds.* `dr_crash` has three names: a scheduled backup that the retention may remove, one by hand, and a free
name for the copy. Two changes give three states: the backup's, the one before the restore, and one made since.
A crash cuts off a start at any of its steps, and the start after it, which runs to its end, meets what was
left; for more crashes there are the proofs. The numbers of states grow with work only.

*Fairness.* The container's restart policy starts the process, and each step of a start ends
(`WF_vars(StartStep)`); the route that marks a restore ends the process itself, 1.5 s later (`WF_vars(pending #
NoPending /\ Stop)`). DB_MIGRATE_SKIP is an emergency escape that is unset again, so a start without it comes
again and again (`SF_vars(Start)`). Crashes are bounded in the runs; a start that always throws (a full disk)
would never decide anything and is not claimed to.

**Proved** (`DbRestoreProofs`, any number of names, changes and crashes, from `RestoreAssumption` and, as
section 10 shows necessary, `~SkipAllowed`, but for `NoMixOfStates`). `RestoreInv` strengthens "never a mix" and
"the state is kept" by what each stage of a start knows: the pending file is the one it read and the backup
still has its checksum until the mark is removed (`RestoreIsChecked`), a recorded copy exists and is known to
the start (`CopyIsThere`), from the copy on the current state is in a file (`StateIsKept`), the -wal is gone
before the rename (`NoWalAtSwitch`), and sessions that a restore brought back, and that no delete was tried on,
are in the database only where a start still has to drop them (`SessionsWait`). `SessionsDropped` promises that
the delete was tried, not that it worked (section 10). From it follow `StateKeptBeforeSwitch`, `SessionsDropped`
and the refinement `RestoreImplementsKeptStates`: each action is a step of `KeptStates` or leaves it alone, and
`Rename` is a `Switch` because the invariant puts both contents among the kept ones.

`ComesUpWithOneOfTwo` needs more than the database: until the backend runs, the copies a start goes back to hold
the state before or the one asked for, and the mark is what was asked for (`AskedInv`). `ResultTells` adds which
of the two the database holds at each step of a start, and that the result will say so (`TruthInv`); a start
that was killed may have switched without a result.

With DB_MIGRATE_SKIP `RestoreInv` is lost: the backend may run on a database that was switched but not recorded
as restored. `NoMixOfStates` has an invariant of its own that survives it, `MixInv`: the -wal is gone before the
rename, and what a start is about to put in place, forth or back, is a file that is there (`WhatGoesIn`).

**Left out.** A database always exists (`hasDb`); the copy to `.restore-tmp` with its fsync is one step with the
rename, since nothing reads it; temporary names and manifests; the line in the change log. The checks of
`requestRestore` decide which files can be marked and are abstracted to "any existing file". Baselining and
drift are migrations that succeed or fail. Files changed by hand and power loss that loses a completed rename
are outside the model.

## 5. TempGroups

**What it models.** A pair is a client and a group. TeamSpeak is `member`; the table is `rows`, each with its
deadline and its next try in ticks left; `todo` is what the job's pass has read, `work` the attempt of the job
and of each revoke request, `post` the requests that give a group.

| Code | Actions |
|---|---|
| `POST /` | `PostRead`, `PostLook`, `PostCreate`, `PostAdd`, `PostRefused` or `PostAddLost`, `PostUndo` |
| `processDueTempGroups` | `PassStart`, `NextRow`, then an attempt per row; `PassFails` |
| `POST /:id/revoke` | `RevokeRead`, then an attempt |
| `removeMembership`, `applyRevokeResult` (an attempt) | `Check`, `Remove` or `AttemptFails`, `Write` |
| `PUT /:id`, `POST /:id/permanent`, `pruneTempGroups` | `Extend`, `MakePermanent`, `Prune` |
| TeamSpeak, clock, process | `AddByHand`, `RemoveByHand`, `Tick`, `Restart` |

TeamSpeak only knows whether a client is in a group. `member` also says how it came there: by hand, for which
row, or `Stray`: added although the POST was told it had failed and deletes the row (a lost answer), or after a
revoke had already concluded that the row holds nothing. Stray memberships are what the code cannot remember (a
hazard in `PROJECT.json`); `NobodyForgotten` is about all others: a membership given for a row has that row
open, so the job will come to it. A membership made permanent counts as one by hand from then on. `AttemptFails`
also stands for a removal that is carried out while its answer is lost.

**Runs.** `tg_job`: one pair, two rows, one POST and one revoke request, two ticks, one fault (a failed command,
a lost answer, a failed pass or a restart). `NobodyForgotten`, ended rows stay as they ended, and every overdue
row is ended or gets a new deadline.

*Bounds.* Two rows let a membership be given anew while the first row is still worked on; a deleted row's id
that nobody remembers is used again, so runs are not limited by the number of rows. Two ticks tell a deadline
ahead from the pause before a retry. One fault suffices for a failed attempt that races another request.

*Fairness.* The interval timer starts passes for ever, each command ends or times out after 15 s, time passes:
weak fairness of `Tick`, `PassStart` and `JobStep`. Requests and people are not fair. That failures are bounded
means that the connection comes back in the end, and that it has the power it needs.

**Proved** (`TempGroupsProofs`, any number of clients, groups, rows and requests, from `TempAssumption`).
`NobodyForgotten` is not inductive: a result that ends a row is written a step after the command. `TempInv` adds
that such a result is only held when no membership of that row is left (`ResultIsTrue`; a POST in flight cannot
bring it back without becoming Stray), that a POST has a row of its own and has not yet given a membership for
it (`RowsKnown`, `PostsApart`), and that a row is scheduled exactly while it is open (`OpenIsScheduled`),
without which the job would never see it. `EndedForGood` follows from the same steps.

**Left out.** Notices and their settings; the limit of 100 rows of a pass; the read of a row by extend and
permanent is merged with their conditional update, which decides again (so the base of `extendByMs` is any);
another identity behind the database entry counts as a membership that was removed; the deletion of a whole
group with its rows; the growth of the pause (any pause up to the bound).

## 6. SshQuery and QueryLine

**What it models.** One `SshQueryClient`. `client` has its fields, and how many of its logins wait for their
turn; `queue` and `current` are `commandQueue` and `currentCommand`. The handlers of a session are closures that
write fields all sessions share, so the sessions have a state of their own: `link[s]` says how far session `s`
is, whether its shell is open, whether its promise is settled, and whether the timer started it; `asked[s]` is
what its server has yet to answer, and `trailing` are the sessions whose server will still send the status and
"error id=0" lines that some versions put behind their welcome (`Trails`). A handler and the promise callbacks
it settles are one step, as they are in the code (no await lies between).

| Code | Actions |
|---|---|
| `connect`, `login`, `waitForSshTurn` | `LoginTurn`, `NoLogin`; `ShellOpens`, `ShellFails`, `Banner`, `ConnectTimeout`, `LoginFails` |
| 'close' of stream and session | `ChannelCloses`, `SshCloses` (also late, of a session that was given up) |
| `scheduleReconnect` | `Scheduled`, `TimerFires` |
| `executeCommand`, `processQueue`, `onShellData`, `handleErrorLine` | `Execute`, `TimesOut`, `Processed`, `Answer`, `GreetingEnds`, `Completes` |
| `startKeepalive`, `rejectAllPending`, `forceDisconnect` | `Execute(Whoami)`, `KeepaliveTick`, `Becomes`, `RejectAllPending`, `Forced` |
| `destroy` | `Destroy`, `DestroyEnds` 150 ms later |

`QueryLine` is the promise to those who give commands: they stand in one line, each once; a command joins at the
end, leaves when it is settled, the others keep their order, and all leave when the connection goes. `IsALine`
is its specification under `line <- TheLine`, the current command followed by the queue.

**Runs.**

| Run | Instance | Shows |
|---|---|---|
| `ssh_line` | two commands and the keepalive, which may fail twice, three sessions at once, one fault | the refinement; no command waits for a connection that is gone; answers reach who asked, as long as every command left the wire with its own; a destroyed client is quiet |
| `ssh_live` | fair, one command, three sessions, two faults | every command ends; a client that was connected comes back |

*Bounds.* Two commands beside the keepalive make a running and a waiting one; three sessions let a new one log
in while one that was given up and one whose shell was refused are still there. A fault is a failed login, a
loss or a late close of a session while the client is connected; two of them break a reconnect too.

*Fairness.* Timers fire, promises go on, a server that is up answers a login and a socket that was ended closes.
The server never has to answer a command: that commands end is due to their timeouts. `ssh_live` runs without
trailing lines, which only settle commands earlier and multiply its states by four.

**Proved** (`SshQueryProofs`, any commands, sessions, faults and failures, from `SshAssumption`). `LineMoves` is
not inductive: a keepalive that is rejected with the others drops the connection from inside the rejection.
`LineInv` adds the types and that a running command was written to a shell the client still has, without which
an answer or a timeout could not write the next one. The refinement `ImplementsQueryLine` follows action by
action: a rejection is `Clear`, an answer or a timeout is `Leave`. `InStep` is inductive with the types: of all
shells only the client's owes an answer, and only the one to the running command. `slipped` marks the three ways
out of step, until the next welcome: a timeout of the running command, data of a session that was given up, and
a line behind the welcome that finds a command on the wire (`GreetingEnds`; section 10). For `DestroyedIsQuiet`
it is enough that a destroyed client has neither timer nor keepalive (`Mute`).

**Left out.** Event subscriptions, host keys, the text of answers; the growth of the delay between attempts; the
150 ms of `destroy` may pass at any time. Other clients' logins with the same credentials appear as `NoLogin`
only.

## 7. BotConnection

**What it models.** One music bot as `VoiceBotManager`, `VoiceBot` and `Ts3Client` know it. `bot` has the
status, the flags for "stopped on purpose" and "refused for good", the client's state and socket, and the entry
in `reconnectState`. `job` are the operations in flight, each where it waits: for the lookup of the host, for
the connect, in the pause of an attempt, for the end of a restart, or for the database. `cleanups` counts the
cleanups `disconnect` has asked for, which come 500 ms later whatever the client does by then.

| Code | Actions |
|---|---|
| `startBot`, `stopBot`, `restartBot`, `removeBot` | `StartBot`, `StopBot`, `RestartBot` and `RestartGoes`, `RemoveBot` |
| `executeVoiceJoinChannel` of a flow | `JoinChannel`, `JoinStarts` |
| `Ts3Client.connect` | `Resolved`, `NotResolved`, `Connected`, `TimesOut`, `Refused` |
| `disconnect`, `cleanup`, `resendLoop`, socket errors | `CleanupFires`, `Silent`, `SocketError` |
| `skip`, `previous`, the end of a song or a station | `PlayerClaims` |
| `scheduleReconnect`, `attemptReconnect` | `Scheduled`, `TimerFires`, `GraceEnds`, `Rejected` |

`skip` and `previous` of the player write 'connected' whatever the connection is, and a station or a song that
ends does so too. `PlayerClaims` is that write, to a bot that is not shown as connected; the status is `claimed`
then, which the code cannot tell from `connected` (`Shown` is both): every guard that asks whether the bot runs
takes it for running.

`tries` and `crossed` are history. `crossed` says that operations came between each other since the last stop: a
start during an attempt's pause, a stop while an attempt connects. The code does not keep these apart (section
10), and the properties are about bots where it did not happen, except for `NothingAhead` of a bot that was
given up on.

**Runs.** `bot`: two operations at once, two attempts (10 in the code), two cleanups on their way, four faults,
one socket error, four commands or writes of the player. A bot that is done has no retry ahead; one that a
connect has shown as connected is; no round has more attempts than it says, also while the player writes; every
bot settles, or the player claims it is connected. `bot_join`: one bot moved by a flow, no faults (section 10).

*Bounds.* Two attempts tell the last one from those before it. Four faults fail the first connect and both
attempts and leave one for what follows. The disconnect that follows the last failed attempt needs two cleanups.

*Fairness.* Timers fire, lookups and connects end. Faults are bounded in the run: the server answers again in
the end.

*Timing.* `TimerFires` and `RestartGoes` wait for the cleanups on their way: a retry comes after a second at
least, the start of a restart after 600 ms, a cleanup after 500 ms. Nothing else is assumed about time.

**Proved** (`BotConnectionProofs`, any number of operations, attempts and faults, from `BotAssumption`).
`BotInv` strengthens `NothingAhead`: whoever was given up on has neither a timer nor a count, an operation in
the pause of an attempt is one of the timer's, and a bot stopped with no attempt under way has none that could
schedule the next. `LiveAsShown` is about the 'connected' a connect has written; that the player's is no sign of
a connection is told in section 10. `LiveInv` adds to `LiveAsShown` that, while nothing crosses, at most one
operation is under way (`OneJob`), no attempt or timer stands beside a bot shown as connected (`UpAndQuiet`),
and an attempt in its pause has no cleanup coming after it (`GraceIsCalm`). `RoundInv` adds to `RoundEnds` that
the attempts made and the one the timer has ahead are never more than the manager's count.

**Left out.** A bot with video, whose stop awaits the end of the stream before it disconnects
(`voice-bot.ts:627-630`); `stopAll` and the removal of a server's bots, which are `StopBot` and `RemoveBot` of
each; two connects at once of which the second leaves the socket of the first behind; a socket error of a bot
that connects (the glitches) is not claimed to settle: nobody closes the socket, and the status 'error' is taken
for a refusal.

## 8. Player and PlayQueue

**What it models.** `PlayQueue` is the class of the same name: each operation a function from a queue to a
queue, or to the set of queues it may give when it shuffles. `Player` is `VoiceBot`'s playback: `p` its fields,
`q` its queue. `loopEpoch` is modelled by what it decides: a probe or an opening is wanted (`probe`, `open`) or
late (`lateProbes`, `lateOpens`). `loop` is what the current epoch decodes, `alive` the number of ffmpeg
processes that run, `kill` whether `streamKill` would end one. `starts` are the starts that wait for their
connection: only `start`'s first line looks at the status, and it lets a bot in 'error' through with its song or
its pause alive. `Connected` then writes 'connected' over whatever is played, paused or begun by then.

| Code | Actions |
|---|---|
| `play`, `playStream`, `startSong` | `PlayItem`, `PlayRadio`, `Probed`, `Decodes`, `DecodeFails`, `TrackEnds`, `Opened`, `StreamCloses`, `OrphanEnds` |
| `pause`, `resume`, `seek`, `skip`, `previous`, `stopAudio` | `Pause`, `Resume`, `Seek`, `Skip`, `PreviousSong`, `StopAudio` |
| chat `!skip`, `!prev`; queue routes; flows and playlists | `ChatSkip`, `ChatPrevious`; `QueueItem`, `PlayIndex`, `RemoveItem`, `Clear`, `Reorder`, `SetRepeat`; `LoadItem` |
| `stop`, 'disconnected', `start`, 'error' | `Leave`, `Disconnected`, `Start`, `Connected` or `StartFails`, `ClientError` |
| the rule for being alone | `PauseForIdle`, `ResumeFromIdle` |

**Run.** `player`: three tracks, six commands, a history of two, a station. One decoder; the status says what is
heard; a pause is forgotten when it is over; the current track plays; a bot does not come to rest with tracks
waiting; left alone, it plays its queue to the end. `PlaysCurrent` excludes tracks a bot refused because it was
not running. Three properties exclude a station that was opened late (`overtaken`): `playStream` does not look
at `loopEpoch` after its await, as `play` does, and then takes the player from whatever was asked for since. Two
of them, about the status and the pauses, also exclude a start that ended over something, until the bot is
stopped (`startedOver`, section 10); that one decoder runs holds for such a bot as well, and so does all that is
said of its queue.

*Bounds.* Three tracks make a finished, a current and an upcoming one, which every operation of the queue tells
apart; two in the history let a third push one out. Six commands suffice for a pause, what overtakes it, and a
resume, and for an error, a start that ends over a song, and what comes then.

*Fairness.* ffprobe and the opening of a station end, a decode ends and is played, a connection that was left
ends. Commands are bounded, so that from some time on the bot is left alone.

**Proved** (`PlayerProofs`, any number of tracks and commands, from `PlayerAssumption` and `QueueAssumption`).
`PlayerInv` is, unless a station was opened late, the conjunction of the three properties with what they need of
each other: a song that is probed and a station that is opened exclude each other and anything that plays, and a
pause that is remembered has nothing under way. What concerns the decoders alone holds after any start
(`OneAtATime`), the rest until a start ends over something.

`PlayInv` speaks of the queue too, and of late stations. `PlaysCurrent` is not inductive: a bot with a client
'error' goes on decoding, and at the end of the track repeat plays what it remembers, so what a bot remembers
must be the queue's current track whatever its status (`Heard`). With it go the types, that the queue holds
tracks that were added (`Queues`), and that none is in it twice or in the history as well (`Once`).
`PlayQueueProofs` shows what each operation of the queue does to these, for any tracks and any limit of the
history; there lies the work on positions and permutations (removing, moving, shuffling). Stepping back undoes
stepping on (`BackUndoesNext`). `NothingWaits` follows from what each step leaves behind (`GoesOnPlaying`).

**Left out.** An ffmpeg that cannot be started for a station, autoplay and its look into the database, video,
volume, nickname, description and titles of a station, the position in a song, and when the rule for being alone
decides: it may at any time. Which of two starts at once gets the connection is section 7's matter; here each
that waits may succeed or fail.

## 9. What is proved and what is only checked

| Result | TLC | TLAPS |
|---|---|---|
| `QueueInv`, `AtMostOneOpenCase`, `OneTakerPerCase`, `EndedStaysEnded` of the support queue (`TypeOK` as part of `QueueInv`) | yes | yes |
| `OutageEndsNobody` | yes | yes |
| `OldCasesEnd` | yes, without requests | yes, with requests as long as no take is undone |
| `GraceKept` | yes, without requests | yes, without requests; of waiting cases with requests as long as no take is undone |
| `RestoreInv`, `CurrentStateKept`, `NoOldSessions` (but for failed deletes), `SwitchesAreWhole`, `ComesUpAsAsked`, `ResultIsTrue` | yes | yes, without DB_MIGRATE_SKIP |
| `NeverAMix` | yes | yes |
| `TempInv`, `NobodyForgotten`, `EndedStaysEnded` of temporary groups | yes | yes |
| `LineMoves`, `IsALine`, `InStep`, `DestroyedIsQuiet` of the SSH client | yes | yes, and its `TypeOK` |
| `TypeOK`, `NothingAhead`, `LiveAsShown`, `RoundEnds` of a bot's connection | yes | yes |
| `OneDecoder`, `StatusIsHeard`, `PauseIsAPause`, `PlaysCurrent`, `NothingWaits`, and `TypeOK` of `Player` | yes | yes |
| `GoneIsClosed`, `WaitingIsQueued`, `TakesEnd`, `RestoreIsDecided`, `OverdueEnds`, `CallsEnd`, `ComesBack`, `Settles`, `QueueEnds` (liveness) | yes | out of reach of the provers |

Liveness, ENABLED and induction over data stay with TLC. Every assumption a proof uses is a named ASSUME of the
module, which TLC evaluates on each run.

## 10. Where code and comments disagree

Two are runs that expect a violation; `PROJECT.json` quotes the comment and the line.

- `dr_half`: a crash during the migrations of a restore loses the way back.
- `bot_join`: a flow that moves a bot stops it and starts it at once; the start finds the old connection not yet
  cleaned up, is refused, and the bot stays offline. `VoiceBot.restart` waits for exactly this.

These were met in the models and have no run of their own.

- The undo of a take (`routes/support-queue.routes.ts:191`) leaves `absentSince` as the job set it while the
  case was taken; the client is cancelled by the first look that misses them, without the grace period.
- A look between the end of a removed case and the move of its client (`routes/support-queue.routes.ts:207`)
  queues the client again, which the comment at 201-202 says is prevented.
- A pass that read the queue before it was switched off creates a case afterwards
  (`utils/support-queue.ts:232`); it stays open in a queue that is off.
- A take that waits for the lock longer than the grace period is ended as done, and its undo finds nothing to
  undo; a failed take between the two updates of `closeOpenCases` puts a case back between them; a look between
  the new channel's row and `resetQueueState` continues the watch of the old channel.
- After a crashed restore and a start with DB_MIGRATE_SKIP, an old copy passes for the current state
  (`db-restore.ts:228`), and what was changed since is replaced without a copy.
- "Everybody signs in again", says `db-restore.ts:176-178` of a restore. A delete that fails is passed over for
  any reason (183-189; the catch means a table the schema does not have), a cut-off that fails is a warning
  (190-196), the mark is cleared, and the backend runs with the restored sessions.
- A failed attempt of the job that ends after an extension (`utils/temporary-groups.ts:115`) schedules the next
  one seconds ahead; the job looks at the next attempt and not at the deadline, and takes the group away early.
- `bot-engine/event-bridge.ts:86` says that reconnecting is handled by the SSH client; of a first connect that
  fails it is not: only the timer's own attempt schedules the next one (`ssh-query-client.ts:549`), and 'close'
  does so only after a login.
- After a timeout of the running SSH command the next one gets its late answer, and every answer from then on is
  off by one until the connection is lost (`ssh-query-client.ts:196`).
- Lines behind the SSH welcome "are consumed below", says `ssh-query-client.ts:406-409`. Only those that arrive
  before the welcome are: afterwards an "error id=0" line ends the first command that is on the wire (405-422),
  and the answers are off by one as above.
- `skip` and `previous` (`voice-bot.ts:841-862`) write 'connected' on a bot that is stopped, starting or
  retrying, and the routes and flows that call them do not ask. Until it is stopped such a bot is shown as
  running without a connection: a start is refused and takes the retry with it, every attempt to reconnect fails
  with 'already running' until the manager gives up, and a restart waits for a 'stopped' that nothing writes.
- "Nothing is playing yet right after connecting", says `voice-bot.ts:614-615`. `start` stops no playback: a bot
  in 'error' whose song goes on, or one that skipped to a song while the start waited, shows 'connected' and
  sounds, and a pause by the rule or of a station stays remembered in a bot that shows none.
- A bot started by hand while an attempt is in its pause is connected; the attempt's own start then throws
  'already running', which schedules another attempt, and that one closes the connection without an event: the
  bot is shown as connected and is not, while `voice-bot-manager.ts:452-455` promises null only for a bot that
  is connected or stopped on purpose.
- A station that opens after a newer command takes the player all the same (`voice-bot.ts:702`), with the newer
  song's ffmpeg left running; `startSong` says that a later command supersedes it (944-949).

## 11. Not modelled

`PROJECT.json` lists every component with the reason. Of components that have state and order of their own,
these are missing: the notices of temporary groups; the waits of flows, whose meaning depends on the flow's own
nodes; which listeners share an event session; the packets of the voice transport, with their counters, resends
and reassembly; the refresh of tokens. Left out for good: pages that pass one command to TeamSpeak and hold no
state, rendering and forms of the frontend, parsing, cryptography, audio and video data, and the samplers, whose
content is arithmetic on time series with one writer. They are most of the lines of the repository, and nothing
in them depends on the order of events.
