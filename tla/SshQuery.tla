-------------------------------- MODULE SshQuery --------------------------------
(***************************************************************************)
(* The SSH query client: one logical connection over a series of SSH       *)
(* sessions, one command on the wire at a time and the others in a line,   *)
(* a keepalive that cuts a silent connection, and reconnecting.            *)
(*                                                                         *)
(* The handlers of a session are closures that act on fields all sessions  *)
(* share; an event of an old session acts on the client as it is by then.  *)
(* A handler and the promise callbacks it settles are one step.            *)
(***************************************************************************)
EXTENDS Naturals, Sequences, SequencesExt

CONSTANTS
  Calls,      \* commands callers give
  Whoami,     \* the keepalive's command
  Sessions,   \* bound: SSH sessions there may be at once, numbered
  None,
  Failures,   \* keepalives that must fail in a row (3 in the code)
  Trails,     \* may lines follow the server's welcome?  Some versions send them
  MaxOwed,    \* bound: commands the server still owes an answer or that wait
  MaxTurns,   \* bound: logins of this client that wait for their turn
  MaxFaults   \* bound: failed logins, closed sessions, closes that come at a bad time

ASSUME SshAssumption ==
  /\ Whoami \notin Calls /\ None \notin Calls \cup {Whoami} /\ None \notin Sessions
  /\ Sessions \subseteq Nat /\ Trails \in BOOLEAN
  /\ Failures \in Nat \ {0} /\ MaxOwed \in Nat /\ MaxTurns \in Nat \ {0} /\ MaxFaults \in Nat

Commands == Calls \cup {Whoami}

VARIABLES
  client,   \* the fields of SshQueryClient, and how many of its logins wait for their turn
  link,     \* what each SSH session is doing, and the state its closures keep
  queue,    \* commandQueue
  current,  \* currentCommand
  asked,    \* the commands each session's server has not answered yet
  trailing, \* the sessions whose server has yet to send the lines that follow its welcome
  met,      \* history: the client was connected once
  slipped,  \* history: since it is connected, a command left the wire before its own answer
  faults    \* bound: faults so far

vars == <<client, link, queue, current, asked, trailing, met, slipped, faults>>

Free == [at |-> "free", chan |-> "none", greeted |-> FALSE, settled |-> TRUE,
         retry |-> FALSE, ended |-> FALSE]

Init ==
  /\ client = [ssh |-> None, shell |-> None, connected |-> FALSE, banner |-> FALSE,
               destroyed |-> FALSE, quitting |-> FALSE, fatal |-> FALSE,
               reconnecting |-> FALSE, timer |-> FALSE, keepalive |-> FALSE, fails |-> 0,
               first |-> TRUE, turns |-> 1]
  /\ link = [s \in Sessions |-> Free]
  /\ queue = <<>> /\ current = None
  /\ asked = [s \in Sessions |-> <<>>]
  /\ trailing = {} /\ met = FALSE /\ slipped = FALSE /\ faults = 0

Pending == ToSet(queue) \cup ({current} \ {None})
Fault   == faults < MaxFaults /\ faults' = faults + 1

------------------------------------------------------------------------------
(* Pieces the handlers share *)

\* Mutant: a destroyed client schedules too.
ScheduledAnyway(c) ==
  IF c.fatal \/ c.reconnecting THEN c ELSE [c EXCEPT !.reconnecting = TRUE, !.timer = TRUE]

Scheduled(c) ==
  IF c.destroyed \/ c.fatal \/ c.reconnecting THEN c
  ELSE [c EXCEPT !.reconnecting = TRUE, !.timer = TRUE]

Down(c) == [c EXCEPT !.connected = FALSE, !.banner = FALSE]

CloseShell(l, s) ==
  IF s # None /\ l[s].chan = "open" THEN [l EXCEPT ![s].chan = "closing"] ELSE l
EndSsh(l, s) ==
  IF s # None /\ l[s].at \in {"login", "up"} THEN [l EXCEPT ![s].ended = TRUE] ELSE l

\* Mutant: nothing follows a failed reconnect.
RefusedForGood(c, s) == c

\* The login of session s is refused: only the timer's login schedules the next one.
Refused(c, s) == IF ~link[s].settled /\ link[s].retry THEN Scheduled(c) ELSE c

Forced(c) == [Down(c) EXCEPT !.keepalive = FALSE, !.shell = None, !.ssh = None, !.fails = 0]

\* A step ends in c, l, q and k; a whoami that failed in it is counted, and the last one allowed
\* forces the connection down.
Becomes(c, l, q, k, whoamiFailed) ==
  IF whoamiFailed /\ c.fails + 1 >= Failures
  THEN /\ client' = Scheduled(Forced(c))
       /\ link' = EndSsh(CloseShell(l, c.shell), c.ssh)
       /\ queue' = <<>> /\ current' = None
  ELSE /\ client' = [c EXCEPT !.fails = IF whoamiFailed THEN @ + 1 ELSE @]
       /\ link' = l /\ queue' = q /\ current' = k

\* Mutant: only the current command is rejected.
RejectCurrent(c, l) == Becomes(c, l, queue, None, current = Whoami)

RejectAllPending(c, l) == Becomes(c, l, <<>>, None, Whoami \in Pending)

\* With no current command the first of q is written; owed is what the servers owe by now.
Processed(c, q, owed, whoamiFailed) ==
  IF q # <<>> /\ c.shell # None /\ c.connected
  THEN /\ Becomes(c, link, Tail(q), Head(q), whoamiFailed)
       /\ asked' = IF link[c.shell].chan = "open"
                   THEN [owed EXCEPT ![c.shell] = Append(@, Head(q))] ELSE owed
  ELSE Becomes(c, link, q, None, whoamiFailed) /\ asked' = owed

------------------------------------------------------------------------------
(* Connecting *)

\* No other login of these credentials runs; those of other clients are not seen here.
MyTurn == client.turns > 0 /\ \A s \in Sessions : link[s].settled

LoginTurn(s) ==
  /\ MyTurn /\ ~client.destroyed /\ ~client.fatal
  /\ link[s] = Free /\ s # client.shell
  /\ \A r \in Sessions : link[r] = Free /\ r # client.shell => s <= r
  /\ client' = [client EXCEPT !.turns = @ - 1, !.first = FALSE, !.ssh = s]
  /\ link' = [link EXCEPT ![s] = [Free EXCEPT !.at = "login", !.settled = FALSE,
                                              !.retry = ~client.first]]
  /\ UNCHANGED <<queue, current, asked, trailing, met, slipped, faults>>

\* The client is destroyed by now, or a login was refused, perhaps to another client.
NoLogin ==
  /\ MyTurn
  /\ IF client.destroyed \/ client.fatal THEN UNCHANGED faults ELSE Fault
  /\ client' = [client EXCEPT !.turns = @ - 1, !.first = FALSE, !.fatal = @ \/ ~client.destroyed]
  /\ UNCHANGED <<link, queue, current, asked, trailing, met, slipped>>

ShellOpens(s) ==
  /\ link[s].at = "login" /\ ~link[s].ended
  /\ IF client.destroyed
     THEN link' = EndSsh([link EXCEPT ![s].at = "up"], s) /\ UNCHANGED client
     ELSE /\ link' = [link EXCEPT ![s].at = "up", ![s].chan = "open"]
          /\ client' = [client EXCEPT !.shell = s, !.banner = FALSE]
  /\ slipped' = (slipped \/ current # None)
  /\ UNCHANGED <<queue, current, asked, trailing, met, faults>>

\* The session has no shell; nobody ends it.
ShellFails(s) ==
  /\ link[s].at = "login" /\ Fault
  /\ client' = Refused(client, s)
  /\ link' = [link EXCEPT ![s].at = "up", ![s].settled = TRUE]
  /\ UNCHANGED <<queue, current, asked, trailing, met, slipped>>

\* The welcome arrives, from whichever session; only a client that is not connected takes notice.
\* Some servers send a status and an "error id=0" after it, with it or later.
Banner(s) ==
  /\ link[s].chan # "none" /\ link[s].at = "up" /\ ~link[s].greeted
  /\ LET l == [link EXCEPT ![s].greeted = TRUE] IN
       IF client.connected \/ client.destroyed
       THEN /\ client' = [client EXCEPT !.banner = TRUE]
            /\ link' = IF client.connected THEN l ELSE EndSsh(CloseShell(l, s), s)
            /\ UNCHANGED <<met, slipped>>
       ELSE /\ client' = [client EXCEPT !.banner = TRUE, !.connected = TRUE,
                                        !.reconnecting = FALSE, !.keepalive = TRUE, !.fails = 0]
            /\ link' = [l EXCEPT ![s].settled = TRUE]
            /\ met' = TRUE
            /\ slipped' = (\E r \in Sessions : asked[r] # <<>>)
  /\ UNCHANGED trailing \/ (Trails /\ trailing' = trailing \cup {s})
  /\ UNCHANGED <<queue, current, asked, faults>>

ConnectTimeout(s) ==
  /\ ~link[s].settled
  /\ IF link[s].at = "login" \/ (link[s].chan = "open" /\ ~link[s].greeted)
     THEN Fault ELSE UNCHANGED faults
  /\ client' = Refused(client, s)
  /\ link' = EndSsh([link EXCEPT ![s].settled = TRUE], s)
  /\ UNCHANGED <<queue, current, asked, trailing, met, slipped>>

\* The attempt fails before there is a shell; its socket closes by itself.
LoginFails(s) ==
  /\ link[s].at = "login" /\ ~link[s].settled /\ Fault
  /\ \E auth \in BOOLEAN : client' = Refused([client EXCEPT !.fatal = @ \/ auth], s)
  /\ link' = EndSsh([link EXCEPT ![s].settled = TRUE], s)
  /\ UNCHANGED <<queue, current, asked, trailing, met, slipped>>

------------------------------------------------------------------------------
(* Losing the connection *)

\* A close that nobody asked for, or one that finds the client connected, is a fault.
MayClose(asksFor) == IF asksFor /\ ~client.connected THEN UNCHANGED faults ELSE Fault

\* What was current had been written to the client's shell.
Slips(s) == slipped' = (slipped \/ (current # None /\ s # client.shell))

ChannelCloses(s) ==
  /\ link[s].chan # "none"
  /\ MayClose(link[s].chan = "closing" \/ link[s].ended \/ link[s].at = "closed")
  /\ RejectAllPending(Scheduled(Down(client)),
                      IF link[s].at = "closed" THEN [link EXCEPT ![s] = Free]
                      ELSE [link EXCEPT ![s].chan = "none"])
  /\ asked' = [asked EXCEPT ![s] = <<>>] /\ trailing' = trailing \ {s}
  /\ Slips(s) /\ UNCHANGED met

\* Whether the client was connected is read from the field all sessions share.
SshCloses(s) ==
  /\ link[s].at \in {"login", "up"} /\ MayClose(link[s].ended)
  /\ LET c == Refused([Down(client) EXCEPT !.keepalive = FALSE], s) IN
       RejectAllPending(IF client.connected THEN Scheduled(c) ELSE c,
                        IF link[s].chan = "none" THEN [link EXCEPT ![s] = Free]
                        ELSE [link EXCEPT ![s].at = "closed", ![s].settled = TRUE])
  /\ asked' = [asked EXCEPT ![s] = <<>>] /\ trailing' = trailing \ {s}
  /\ Slips(s) /\ UNCHANGED met

\* The timer does not ask whether the client is connected again by now.
TimerFires ==
  /\ client.timer /\ client.turns < MaxTurns
  /\ client' = [client EXCEPT !.timer = FALSE, !.reconnecting = FALSE, !.turns = @ + 1]
  /\ UNCHANGED <<link, queue, current, asked, trailing, met, slipped, faults>>

\* Destroying writes quit to the shell and waits before it cuts the connection.
Destroy ==
  /\ LET c == [client EXCEPT !.destroyed = TRUE, !.timer = FALSE, !.keepalive = FALSE] IN
       IF client.shell # None THEN RejectAllPending([c EXCEPT !.quitting = TRUE], link)
       ELSE RejectAllPending([c EXCEPT !.connected = FALSE, !.ssh = None], EndSsh(link, c.ssh))
  /\ slipped' = TRUE
  /\ UNCHANGED <<asked, trailing, met, faults>>

\* A keepalive that Destroy failed may have taken the shell away: then it ends with an exception.
DestroyEnds ==
  /\ client.destroyed /\ client.quitting
  /\ client' = IF client.shell = None THEN [client EXCEPT !.quitting = FALSE]
               ELSE [client EXCEPT !.quitting = FALSE, !.connected = FALSE,
                                   !.shell = None, !.ssh = None]
  /\ link' = IF client.shell = None THEN link
             ELSE EndSsh(CloseShell(link, client.shell), client.ssh)
  /\ UNCHANGED <<queue, current, asked, trailing, met, slipped, faults>>

------------------------------------------------------------------------------
(* Commands *)

Room == Len(queue) + (IF client.shell = None THEN 0 ELSE Len(asked[client.shell])) < MaxOwed

\* Mutant: written at once, whatever is current.
ExecuteAtOnce(k) ==
  /\ client.connected /\ client.shell # None
  /\ k \notin Pending /\ Room
  /\ Processed(client, Append(queue, k), asked, FALSE)
  /\ UNCHANGED <<trailing, met, slipped, faults>>

Execute(k) ==
  /\ client.connected /\ client.shell # None
  /\ k \notin Pending /\ Room
  /\ IF current = None THEN Processed(client, Append(queue, k), asked, FALSE)
     ELSE Becomes(client, link, Append(queue, k), current, FALSE) /\ UNCHANGED asked
  /\ UNCHANGED <<trailing, met, slipped, faults>>

\* That the last keepalive allowed fails is a fault.
MayFail(whoamiFailed) ==
  IF whoamiFailed /\ client.fails + 1 >= Failures THEN Fault ELSE UNCHANGED faults

\* Mutant: only a waiting command is given up.
TimesOutWaiting(k) ==
  /\ \E i \in DOMAIN queue :
       queue[i] = k /\ Becomes(client, link, RemoveAt(queue, i), current, k = Whoami)
  /\ MayFail(k = Whoami) /\ UNCHANGED <<asked, trailing, met, slipped>>

TimesOut(k) ==
  /\ \/ k = current /\ Processed(client, queue, asked, k = Whoami)
     \/ /\ k # current /\ UNCHANGED asked
        /\ \E i \in DOMAIN queue :
             queue[i] = k /\ Becomes(client, link, RemoveAt(queue, i), current, k = Whoami)
  /\ slipped' = (slipped \/ k = current \/ k = Whoami)
  /\ MayFail(k = Whoami) /\ UNCHANGED <<trailing, met>>

\* A line "error ..." completes the current command, whoever it was meant for.
Completes(owed, failed) ==
  Processed(IF current = Whoami /\ ~failed THEN [client EXCEPT !.fails = 0] ELSE client,
            queue, owed, current = Whoami /\ failed)

\* The server of session s answers what it was asked first; the client takes it as the answer to
\* its current command.  Before the welcome, lines are dropped.
Answer(s) ==
  /\ asked[s] # <<>> /\ link[s].at = "up" /\ link[s].greeted /\ s \notin trailing
  /\ LET owed == [asked EXCEPT ![s] = Tail(@)] IN
       IF client.banner /\ current # None
       THEN \E failed \in BOOLEAN :
              Completes(owed, failed) /\ MayFail(current = Whoami /\ failed)
       ELSE asked' = owed /\ UNCHANGED <<client, link, queue, current, faults>>
  /\ UNCHANGED <<trailing, met, slipped>>

\* What follows the welcome is taken in the same way, once a command has been written.
GreetingEnds(s) ==
  /\ s \in trailing /\ link[s].at = "up"
  /\ trailing' = trailing \ {s}
  /\ IF client.banner /\ current # None
     THEN Completes(asked, FALSE) /\ slipped' = TRUE
     ELSE UNCHANGED <<client, link, queue, current, asked, slipped>>
  /\ UNCHANGED <<met, faults>>

\* Without a shell the whoami fails at once.
KeepaliveTick ==
  /\ client.keepalive /\ client.connected /\ client.shell = None
  /\ Becomes(client, link, queue, current, TRUE)
  /\ UNCHANGED <<asked, trailing, met, slipped, faults>>

Turn == NoLogin \/ \E s \in Sessions : LoginTurn(s)

SessionStep(s) ==
  \/ ShellOpens(s) \/ ShellFails(s) \/ Banner(s) \/ ConnectTimeout(s) \/ LoginFails(s)
  \/ ChannelCloses(s) \/ SshCloses(s) \/ Answer(s) \/ GreetingEnds(s)

Next ==
  \/ Turn \/ TimerFires \/ Destroy \/ DestroyEnds \/ KeepaliveTick
  \/ (client.keepalive /\ Execute(Whoami))
  \/ \E k \in Calls : Execute(k)
  \/ \E k \in Commands : TimesOut(k)
  \/ \E s \in Sessions : SessionStep(s)

Spec == Init /\ [][Next]_vars

\* Timers fire, promises go on, a server that is up answers a login, and a socket that was ended
\* closes.  Nothing makes the server answer a command.
Fairness ==
  /\ WF_vars(Turn) /\ WF_vars(TimerFires) /\ WF_vars(DestroyEnds)
  /\ \A k \in Calls : WF_vars(TimesOut(k))
  /\ \A s \in Sessions :
       /\ WF_vars(ShellOpens(s)) /\ WF_vars(Banner(s)) /\ WF_vars(ConnectTimeout(s))
       /\ WF_vars(link[s].ended /\ SshCloses(s))
       /\ WF_vars((link[s].chan = "closing" \/ link[s].at = "closed") /\ ChannelCloses(s))

FairSpec == Spec /\ Fairness

------------------------------------------------------------------------------
(* Properties *)

ClientSet ==
  [ssh : Sessions \cup {None}, shell : Sessions \cup {None},
   connected : BOOLEAN, banner : BOOLEAN, destroyed : BOOLEAN, quitting : BOOLEAN,
   fatal : BOOLEAN, reconnecting : BOOLEAN, timer : BOOLEAN, keepalive : BOOLEAN,
   fails : 0 .. Failures - 1, first : BOOLEAN, turns : 0 .. MaxTurns]

LinkSet ==
  [at : {"free", "login", "up", "closed"}, chan : {"none", "open", "closing"},
   greeted : BOOLEAN, settled : BOOLEAN, retry : BOOLEAN, ended : BOOLEAN]

TypeOK ==
  /\ client \in ClientSet
  /\ link \in [Sessions -> LinkSet]
  /\ queue \in Seq(Commands)
  /\ current \in Commands \cup {None}
  /\ asked \in [Sessions -> Seq(Commands)]
  /\ trailing \subseteq Sessions
  /\ met \in BOOLEAN /\ slipped \in BOOLEAN
  /\ faults \in 0 .. MaxFaults

\* While the client is not destroyed, nobody waits for a connection that is gone, and no command
\* stands in the line with nothing on the wire (processQueue, rejectAllPending).
LineMoves ==
  ~client.destroyed => /\ queue # <<>> => current # None
                       /\ current # None => client.connected

\* As long as every command was answered before it left the wire, the only answer any server owes
\* is the one to the current command: handleErrorLine gives it to the right caller.  Three things
\* set slipped until the next connection: a timeout, data of a session that was given up, and a
\* line after the welcome that finds a command on the wire.
InStep ==
  client.connected /\ ~client.destroyed /\ ~slipped =>
    \A s \in Sessions : asked[s] # <<>> => s = client.shell /\ asked[s] = <<current>>

\* The commands not yet settled are a line: nobody is overtaken, settled twice or left out.
TheLine == IF current = None THEN queue ELSE <<current>> \o queue
Line == INSTANCE QueryLine WITH Commands <- Commands, line <- TheLine
IsALine == Line!Spec

\* A destroyed client starts nothing again: no timer, no keepalive, no session.
DestroyedIsQuiet ==
  [][client.destroyed =>
       /\ ~client'.timer /\ ~client'.keepalive
       /\ \A s \in Sessions : link[s].at = "free" => link'[s].at = "free"]_vars

\* Every call settles, even when the server never answers it.
CallsEnd == \A k \in Calls : k \in Pending ~> k \notin Pending

\* A client that was connected once and no longer is, comes back, unless it is destroyed or its
\* credentials are refused.
ComesBack ==
  (met /\ ~client.connected) ~> (client.connected \/ client.destroyed \/ client.fatal)

================================================================================
