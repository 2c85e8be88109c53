----------------------------- MODULE SshQueryProofs -----------------------------
(***************************************************************************)
(* For any commands, sessions and bounds: the types of SshQuery, and that  *)
(* no command waits for a connection that is gone, or in a line in which   *)
(* nothing moves; the refinement of QueryLine; that a destroyed client     *)
(* stays quiet, and that answers reach the command that asked.             *)
(***************************************************************************)
EXTENDS SshQuery, TLAPS, SequenceTheorems

\* What a step of the line relies on besides its type: a current command was written to a shell.
Line1 == ~client.destroyed => (queue # <<>> => current # None)
Line2 == ~client.destroyed => (current # None => client.connected /\ client.shell # None)

LineInv == TypeOK /\ Line1 /\ Line2

LEMMA Numbers ==
  /\ None \notin Commands
  /\ 0 \in 0 .. Failures - 1
  /\ \A n \in 0 .. Failures - 1 : ~(n + 1 >= Failures) => n + 1 \in 0 .. Failures - 1
  /\ \A n \in 0 .. MaxTurns : n > 0 => n - 1 \in 0 .. MaxTurns
  /\ \A n \in 0 .. MaxTurns : n < MaxTurns => n + 1 \in 0 .. MaxTurns
  /\ \A n \in 0 .. MaxFaults : n < MaxFaults => n + 1 \in 0 .. MaxFaults
  /\ 1 \in 0 .. MaxTurns /\ 0 \in 0 .. MaxFaults
BY SshAssumption DEF Commands

LEMMA LinkTypes ==
  ASSUME NEW l \in [Sessions -> LinkSet], NEW s
  PROVE  /\ Free \in LinkSet
         /\ s \in Sessions \cup {None} => CloseShell(l, s) \in [Sessions -> LinkSet]
         /\ s \in Sessions \cup {None} => EndSsh(l, s) \in [Sessions -> LinkSet]
BY ZenonT(60) DEF Free, LinkSet, CloseShell, EndSsh

LEMMA LinkUpdates ==
  ASSUME NEW l \in [Sessions -> LinkSet], NEW s \in Sessions
  PROVE  /\ [l EXCEPT ![s].settled = TRUE] \in [Sessions -> LinkSet]
         /\ [l EXCEPT ![s].greeted = TRUE] \in [Sessions -> LinkSet]
         /\ [l EXCEPT ![s].at = "up"] \in [Sessions -> LinkSet]
         /\ [l EXCEPT ![s].at = "up", ![s].chan = "open"] \in [Sessions -> LinkSet]
         /\ [l EXCEPT ![s].at = "up", ![s].settled = TRUE] \in [Sessions -> LinkSet]
         /\ [l EXCEPT ![s].at = "closed", ![s].settled = TRUE] \in [Sessions -> LinkSet]
         /\ [l EXCEPT ![s].chan = "none"] \in [Sessions -> LinkSet]
         /\ [l EXCEPT ![s] = Free] \in [Sessions -> LinkSet]
<1>1. Free \in LinkSet
  BY DEF Free, LinkSet
<1>2. /\ [l EXCEPT ![s].settled = TRUE] \in [Sessions -> LinkSet]
      /\ [l EXCEPT ![s].greeted = TRUE] \in [Sessions -> LinkSet]
  BY DEF LinkSet
<1>3. /\ [l EXCEPT ![s].at = "up"] \in [Sessions -> LinkSet]
      /\ [l EXCEPT ![s].chan = "none"] \in [Sessions -> LinkSet]
  BY DEF LinkSet
<1>4. [l EXCEPT ![s].at = "up", ![s].chan = "open"] \in [Sessions -> LinkSet]
  BY ZenonT(60) DEF LinkSet
<1>5. /\ [l EXCEPT ![s].at = "up", ![s].settled = TRUE] \in [Sessions -> LinkSet]
      /\ [l EXCEPT ![s].at = "closed", ![s].settled = TRUE] \in [Sessions -> LinkSet]
  BY ZenonT(60) DEF LinkSet
<1>6. QED
  BY <1>1, <1>2, <1>3, <1>4, <1>5

LEMMA ClientTypes ==
  ASSUME NEW c \in ClientSet
  PROVE  /\ Scheduled(c) \in ClientSet
         /\ Down(c) \in ClientSet
         /\ \A s \in Sessions : Refused(c, s) \in ClientSet
<1>1. Scheduled(c) \in ClientSet
  <2>1. [c EXCEPT !.reconnecting = TRUE, !.timer = TRUE] \in ClientSet
    BY DEF ClientSet
  <2>2. QED
    BY <2>1 DEF Scheduled
<1>2. Down(c) \in ClientSet
  BY DEF Down, ClientSet
<1>3. QED
  BY <1>1, <1>2 DEF Refused

LEMMA SameFields ==
  ASSUME NEW c \in ClientSet
  PROVE  /\ Scheduled(c).destroyed = c.destroyed /\ Scheduled(c).connected = c.connected
         /\ Scheduled(c).shell = c.shell
         /\ Down(c).destroyed = c.destroyed /\ Down(c).shell = c.shell
         /\ \A s \in Sessions :
              /\ Refused(c, s).destroyed = c.destroyed /\ Refused(c, s).connected = c.connected
              /\ Refused(c, s).shell = c.shell
BY DEF Scheduled, Down, Refused, ClientSet

\* A step that leaves no command current and none waiting, or one whose current command has a shell.
Sound(c, q, k) ==
  ~c.destroyed => /\ q # <<>> => k # None
                  /\ k # None => c.connected /\ c.shell # None

LEMMA BecomesSound ==
  ASSUME NEW c \in ClientSet, NEW l \in [Sessions -> LinkSet], NEW q \in Seq(Commands),
         NEW k \in Commands \cup {None}, NEW failed \in BOOLEAN,
         Becomes(c, l, q, k, failed), Sound(c, q, k)
  PROVE  /\ client' \in ClientSet /\ link' \in [Sessions -> LinkSet]
         /\ queue' \in Seq(Commands) /\ current' \in Commands \cup {None}
         /\ Line1' /\ Line2'
<1>1. CASE failed /\ c.fails + 1 >= Failures
  <2>1. client' = Scheduled(Forced(c)) /\ link' = EndSsh(CloseShell(l, c.shell), c.ssh)
        /\ queue' = <<>> /\ current' = None
    BY <1>1 DEF Becomes
  <2>2. Forced(c) \in ClientSet
    BY ZenonT(60), ClientTypes, Numbers DEF Forced, ClientSet
  <2>3. client' \in ClientSet
    BY <2>1, <2>2, ClientTypes
  <2>4. CloseShell(l, c.shell) \in [Sessions -> LinkSet]
    BY LinkTypes DEF ClientSet
  <2>5. link' \in [Sessions -> LinkSet]
    BY <2>1, <2>4, LinkTypes DEF ClientSet
  <2>6. QED
    BY <2>1, <2>3, <2>5 DEF Line1, Line2
<1>2. CASE ~(failed /\ c.fails + 1 >= Failures)
  <2>1. /\ client' = [c EXCEPT !.fails = IF failed THEN @ + 1 ELSE @]
        /\ link' = l /\ queue' = q /\ current' = k
    BY <1>2 DEF Becomes
  <2>2. client' \in ClientSet
    BY <1>2, <2>1, Numbers DEF ClientSet
  <2>3. /\ client'.destroyed = c.destroyed /\ client'.connected = c.connected
        /\ client'.shell = c.shell
    BY <2>1 DEF ClientSet
  <2>4. QED
    BY <2>1, <2>2, <2>3 DEF Line1, Line2, Sound
<1>3. QED
  BY <1>1, <1>2

LEMMA RejectSound ==
  ASSUME NEW c \in ClientSet, NEW l \in [Sessions -> LinkSet], RejectAllPending(c, l)
  PROVE  /\ client' \in ClientSet /\ link' \in [Sessions -> LinkSet]
         /\ queue' \in Seq(Commands) /\ current' \in Commands \cup {None}
         /\ Line1' /\ Line2'
<1>1. Becomes(c, l, <<>>, None, Whoami \in Pending)
  BY DEF RejectAllPending
<1>2. (Whoami \in Pending) \in BOOLEAN /\ Sound(c, <<>>, None) /\ <<>> \in Seq(Commands)
  BY DEF Sound
<1>3. QED
  BY <1>1, <1>2, BecomesSound

LEMMA ProcessedSound ==
  ASSUME TypeOK, NEW c \in ClientSet, NEW q \in Seq(Commands),
         NEW owed \in [Sessions -> Seq(Commands)], NEW failed \in BOOLEAN,
         Processed(c, q, owed, failed),
         ~c.destroyed => (q # <<>> => c.connected /\ c.shell # None)
  PROVE  /\ client' \in ClientSet /\ link' \in [Sessions -> LinkSet]
         /\ queue' \in Seq(Commands) /\ current' \in Commands \cup {None}
         /\ asked' \in [Sessions -> Seq(Commands)]
         /\ Line1' /\ Line2'
<1> link \in [Sessions -> LinkSet]
  BY DEF TypeOK
<1>1. CASE q # <<>> /\ c.shell # None /\ c.connected
  <2>1. Head(q) \in Commands /\ Tail(q) \in Seq(Commands)
    BY <1>1
  <2>2. Becomes(c, link, Tail(q), Head(q), failed)
    BY <1>1 DEF Processed
  <2>3. Sound(c, Tail(q), Head(q))
    BY <1>1, <2>1, Numbers DEF Sound
  <2>4. c.shell \in Sessions
    BY <1>1 DEF ClientSet
  <2>5. Append(owed[c.shell], Head(q)) \in Seq(Commands)
    BY <2>1, <2>4
  <2>6. asked' \in [Sessions -> Seq(Commands)]
    BY <1>1, <2>5 DEF Processed
  <2>7. QED
    BY <2>1, <2>2, <2>3, <2>6, BecomesSound
<1>2. CASE ~(q # <<>> /\ c.shell # None /\ c.connected)
  <2>1. Becomes(c, link, q, None, failed) /\ asked' = owed
    BY <1>2 DEF Processed
  <2>2. Sound(c, q, None)
    BY <1>2 DEF Sound
  <2>3. QED
    BY <2>1, <2>2, BecomesSound
<1>3. QED
  BY <1>1, <1>2

\* A line that completes the current command: the keepalive's may reset its count before.
LEMMA CompletesFacts ==
  ASSUME TypeOK, NEW owed, NEW failed \in BOOLEAN, Completes(owed, failed)
  PROVE  \E c \in ClientSet, f \in BOOLEAN :
           /\ c.destroyed = client.destroyed /\ c.connected = client.connected
           /\ c.shell = client.shell /\ c.timer = client.timer /\ c.keepalive = client.keepalive
           /\ Processed(c, queue, owed, f)
<1> DEFINE c == IF current = Whoami /\ ~failed THEN [client EXCEPT !.fails = 0] ELSE client
           f == current = Whoami /\ failed
<1>1. Processed(c, queue, owed, f) /\ f \in BOOLEAN
  BY DEF Completes
<1>2. client \in ClientSet
  BY DEF TypeOK
<1>3. /\ c \in ClientSet /\ c.destroyed = client.destroyed /\ c.connected = client.connected
      /\ c.shell = client.shell /\ c.timer = client.timer /\ c.keepalive = client.keepalive
  BY <1>2, ZenonT(60), Numbers DEF ClientSet
<1> HIDE DEF c, f
<1>4. QED
  BY <1>1, <1>3

------------------------------------------------------------------------------

\* What is left of the state when the line has been dealt with.
Rest == trailing' \subseteq Sessions /\ met' \in BOOLEAN /\ slipped' \in BOOLEAN /\ faults' \in 0 .. MaxFaults

LEMMA FaultType ==
  ASSUME TypeOK, Fault \/ UNCHANGED faults
  PROVE  faults' \in 0 .. MaxFaults
BY Numbers DEF TypeOK, Fault

LEMMA Assembled ==
  ASSUME client' \in ClientSet, link' \in [Sessions -> LinkSet],
         queue' \in Seq(Commands), current' \in Commands \cup {None},
         asked' \in [Sessions -> Seq(Commands)], Rest, Line1', Line2'
  PROVE  LineInv'
BY DEF LineInv, TypeOK, Rest

\* A step that leaves the commands alone, and either the fields the line relies on or nothing
\* to wait for.
LEMMA AsideSound ==
  ASSUME LineInv, client' \in ClientSet, link' \in [Sessions -> LinkSet], Rest,
         UNCHANGED <<queue, current, asked>>,
         \/ client'.destroyed
         \/ /\ client'.destroyed = client.destroyed
            /\ client.connected => client'.connected
            /\ client.shell # None => client'.shell # None
  PROVE  LineInv'
BY DEF LineInv, TypeOK, Rest, Line1, Line2

LEMMA LoginStep ==
  ASSUME LineInv, NEW s \in Sessions,
         LoginTurn(s) \/ ShellOpens(s) \/ ShellFails(s) \/ Banner(s) \/ ConnectTimeout(s) \/ LoginFails(s)
  PROVE  LineInv'
<1> TypeOK /\ client \in ClientSet /\ link \in [Sessions -> LinkSet]
  BY DEF LineInv, TypeOK
<1>0. s # None /\ Refused(client, s) \in ClientSet
  BY SshAssumption, ClientTypes
<1>1. CASE LoginTurn(s)
  <2>1. client' \in ClientSet
    BY <1>1, Numbers DEF LoginTurn, MyTurn, ClientSet
  <2>2. link' \in [Sessions -> LinkSet]
    <3>1. [Free EXCEPT !.at = "login", !.settled = FALSE, !.retry = ~client.first] \in LinkSet
      BY DEF Free, LinkSet, ClientSet
    <3>2. QED
      BY <1>1, <3>1 DEF LoginTurn
  <2>3. Rest
    BY <1>1 DEF LoginTurn, TypeOK, Rest
  <2>4. /\ UNCHANGED <<queue, current, asked>>
        /\ client'.destroyed = client.destroyed /\ client'.connected = client.connected
        /\ client'.shell = client.shell
    BY <1>1 DEF LoginTurn, ClientSet
  <2>5. QED
    BY <2>1, <2>2, <2>3, <2>4, AsideSound
<1>2. CASE ShellOpens(s)
  <2>1. client' \in ClientSet
    BY ZenonT(60), <1>2 DEF ShellOpens, ClientSet
  <2>2. link' \in [Sessions -> LinkSet]
    <3>1. CASE client.destroyed
      <4>1. link' = EndSsh([link EXCEPT ![s].at = "up"], s)
        BY <1>2, <3>1 DEF ShellOpens
      <4>2. QED
        BY <4>1, LinkUpdates, LinkTypes
    <3>2. CASE ~client.destroyed
      <4>1. link' = [link EXCEPT ![s].at = "up", ![s].chan = "open"]
        BY <1>2, <3>2 DEF ShellOpens
      <4>2. QED
        BY <4>1, LinkUpdates
    <3>3. QED
      BY <3>1, <3>2
  <2>3. Rest
    BY <1>2 DEF ShellOpens, TypeOK, Rest
  <2>4. /\ UNCHANGED <<queue, current, asked>>
        /\ client'.destroyed = client.destroyed /\ client'.connected = client.connected
        /\ client.shell # None => client'.shell # None
    <3>1. UNCHANGED <<queue, current, asked>>
      BY <1>2 DEF ShellOpens
    <3>2. client' = client \/ client' = [client EXCEPT !.shell = s, !.banner = FALSE]
      BY <1>2 DEF ShellOpens
    <3>3. QED
      BY <1>0, <3>1, <3>2 DEF ClientSet
  <2>5. QED
    BY <2>1, <2>2, <2>3, <2>4, AsideSound
<1>3. CASE ShellFails(s)
  <2>1. client' \in ClientSet
    BY <1>0, <1>3 DEF ShellFails
  <2>2. link' \in [Sessions -> LinkSet]
    BY <1>3, LinkUpdates DEF ShellFails
  <2>3. Rest
    BY <1>3, FaultType DEF ShellFails, TypeOK, Rest
  <2>4. /\ UNCHANGED <<queue, current, asked>>
        /\ client'.destroyed = client.destroyed /\ client'.connected = client.connected
        /\ client'.shell = client.shell
    BY <1>3, SameFields DEF ShellFails
  <2>5. QED
    BY <2>1, <2>2, <2>3, <2>4, AsideSound
<1>4. CASE Banner(s)
  <2> DEFINE l == [link EXCEPT ![s].greeted = TRUE]
  <2>0. l \in [Sessions -> LinkSet]
    BY LinkUpdates
  <2>1. client' \in ClientSet
    BY ZenonT(60), <1>4, Numbers DEF Banner, ClientSet
  <2>2. link' \in [Sessions -> LinkSet]
    <3>1. [l EXCEPT ![s].settled = TRUE] \in [Sessions -> LinkSet]
      BY <2>0, LinkUpdates
    <3>2. CloseShell(l, s) \in [Sessions -> LinkSet]
      BY <2>0, LinkTypes
    <3>3. EndSsh(CloseShell(l, s), s) \in [Sessions -> LinkSet]
      BY <3>2, LinkTypes
    <3>4. QED
      BY <1>4, <2>0, <3>1, <3>3 DEF Banner
  <2>3. Rest
    BY <1>4 DEF Banner, TypeOK, Rest
  <2>4. /\ UNCHANGED <<queue, current, asked>>
        /\ client'.destroyed = client.destroyed
        /\ client.connected => client'.connected
        /\ client'.shell = client.shell
    BY <1>4 DEF Banner, ClientSet
  <2>5. QED
    BY <2>1, <2>2, <2>3, <2>4, AsideSound
<1>5. CASE ConnectTimeout(s)
  <2>1. client' \in ClientSet
    BY <1>0, <1>5 DEF ConnectTimeout
  <2>2. link' \in [Sessions -> LinkSet]
    <3>1. [link EXCEPT ![s].settled = TRUE] \in [Sessions -> LinkSet]
      BY LinkUpdates
    <3>2. QED
      BY <1>5, <3>1, LinkTypes DEF ConnectTimeout
  <2>3. Rest
    BY <1>5, FaultType DEF ConnectTimeout, TypeOK, Rest
  <2>4. /\ UNCHANGED <<queue, current, asked>>
        /\ client'.destroyed = client.destroyed /\ client'.connected = client.connected
        /\ client'.shell = client.shell
    BY <1>5, SameFields DEF ConnectTimeout
  <2>5. QED
    BY <2>1, <2>2, <2>3, <2>4, AsideSound
<1>6. CASE LoginFails(s)
  <2>0. PICK auth \in BOOLEAN : client' = Refused([client EXCEPT !.fatal = @ \/ auth], s)
    BY <1>6 DEF LoginFails
  <2> DEFINE c == [client EXCEPT !.fatal = @ \/ auth]
  <2>1. /\ c \in ClientSet /\ c.destroyed = client.destroyed
        /\ c.connected = client.connected /\ c.shell = client.shell
    BY DEF ClientSet
  <2>2. link' \in [Sessions -> LinkSet]
    <3>1. [link EXCEPT ![s].settled = TRUE] \in [Sessions -> LinkSet]
      BY LinkUpdates
    <3>2. QED
      BY <1>6, <3>1, LinkTypes DEF LoginFails
  <2>3. Rest
    BY <1>6, FaultType DEF LoginFails, TypeOK, Rest
  <2>4. UNCHANGED <<queue, current, asked>>
    BY <1>6 DEF LoginFails
  <2>5. /\ client' \in ClientSet
        /\ client'.destroyed = client.destroyed /\ client'.connected = client.connected
        /\ client'.shell = client.shell
    BY <2>0, <2>1, ClientTypes, SameFields
  <2>6. QED
    BY <2>2, <2>3, <2>4, <2>5, AsideSound
<1>7. QED
  BY <1>1, <1>2, <1>3, <1>4, <1>5, <1>6

LEMMA LossStep ==
  ASSUME LineInv, NEW s \in Sessions, ChannelCloses(s) \/ SshCloses(s)
  PROVE  LineInv'
<1> TypeOK /\ client \in ClientSet /\ link \in [Sessions -> LinkSet]
  BY DEF LineInv, TypeOK
<1>0. Rest
  <2>0. Slips(s) /\ met' = met /\ trailing' \subseteq Sessions
    BY DEF ChannelCloses, SshCloses, TypeOK
  <2>1. slipped' \in BOOLEAN /\ met' \in BOOLEAN
    BY <2>0 DEF Slips, TypeOK
  <2>2. Fault \/ UNCHANGED faults
    BY DEF ChannelCloses, SshCloses, MayClose
  <2>3. QED
    BY <2>0, <2>1, <2>2, FaultType DEF Rest
<1>1. asked' \in [Sessions -> Seq(Commands)]
  <2>1. asked' = [asked EXCEPT ![s] = <<>>]
    BY DEF ChannelCloses, SshCloses
  <2>2. QED
    BY <2>1 DEF TypeOK
<1>2. PICK c \in ClientSet, l \in [Sessions -> LinkSet] : RejectAllPending(c, l)
  <2>1. CASE ChannelCloses(s)
    <3> DEFINE l == IF link[s].at = "closed" THEN [link EXCEPT ![s] = Free]
                    ELSE [link EXCEPT ![s].chan = "none"]
    <3>1. l \in [Sessions -> LinkSet]
      BY LinkUpdates
    <3>2. Scheduled(Down(client)) \in ClientSet
      BY ClientTypes
    <3>3. RejectAllPending(Scheduled(Down(client)), l)
      BY <2>1 DEF ChannelCloses
    <3>4. QED
      BY <3>1, <3>2, <3>3
  <2>2. CASE SshCloses(s)
    <3> DEFINE d == [Down(client) EXCEPT !.keepalive = FALSE]
               c == IF client.connected THEN Scheduled(Refused(d, s)) ELSE Refused(d, s)
               l == IF link[s].chan = "none" THEN [link EXCEPT ![s] = Free]
                    ELSE [link EXCEPT ![s].at = "closed", ![s].settled = TRUE]
    <3>1. l \in [Sessions -> LinkSet]
      BY LinkUpdates
    <3>2. d \in ClientSet
      BY ZenonT(60), ClientTypes DEF ClientSet
    <3>3. Refused(d, s) \in ClientSet
      BY <3>2, ClientTypes
    <3>4. c \in ClientSet
      BY <3>3, ClientTypes
    <3>5. RejectAllPending(c, l)
      BY <2>2 DEF SshCloses
    <3>6. QED
      BY <3>1, <3>4, <3>5
  <2>3. QED
    BY <2>1, <2>2
<1>3. QED
  BY <1>0, <1>1, <1>2, RejectSound, Assembled

LEMMA TimerStep ==
  ASSUME LineInv, NoLogin \/ TimerFires \/ DestroyEnds
  PROVE  LineInv'
<1> TypeOK /\ client \in ClientSet /\ link \in [Sessions -> LinkSet]
  BY DEF LineInv, TypeOK
<1>1. CASE NoLogin
  <2>1. client' \in ClientSet
    BY <1>1, Numbers DEF NoLogin, MyTurn, ClientSet
  <2>2. Rest /\ link' = link /\ UNCHANGED <<queue, current, asked>>
    BY <1>1, FaultType DEF NoLogin, TypeOK, Rest
  <2>3. /\ client'.destroyed = client.destroyed /\ client'.connected = client.connected
        /\ client'.shell = client.shell
    BY <1>1 DEF NoLogin, ClientSet
  <2>4. QED
    BY <2>1, <2>2, <2>3, AsideSound
<1>2. CASE TimerFires
  <2>1. client' \in ClientSet
    BY <1>2, Numbers DEF TimerFires, ClientSet
  <2>2. Rest /\ link' = link /\ UNCHANGED <<queue, current, asked>>
    BY <1>2 DEF TimerFires, TypeOK, Rest
  <2>3. /\ client'.destroyed = client.destroyed /\ client'.connected = client.connected
        /\ client'.shell = client.shell
    BY <1>2 DEF TimerFires, ClientSet
  <2>4. QED
    BY <2>1, <2>2, <2>3, AsideSound
<1>3. CASE DestroyEnds
  <2>1. client' \in ClientSet /\ client'.destroyed = client.destroyed
    BY <1>3 DEF DestroyEnds, ClientSet
  <2>2. Rest /\ UNCHANGED <<queue, current, asked>>
    BY <1>3 DEF DestroyEnds, TypeOK, Rest
  <2>3. link' \in [Sessions -> LinkSet]
    <3>1. CloseShell(link, client.shell) \in [Sessions -> LinkSet]
      BY LinkTypes DEF ClientSet
    <3>2. EndSsh(CloseShell(link, client.shell), client.ssh) \in [Sessions -> LinkSet]
      BY <3>1, LinkTypes DEF ClientSet
    <3>3. QED
      BY <1>3, <3>2 DEF DestroyEnds
  <2>4. client.destroyed
    BY <1>3 DEF DestroyEnds
  <2>5. QED
    BY <2>1, <2>2, <2>3, <2>4, AsideSound
<1>4. QED
  BY <1>1, <1>2, <1>3

LEMMA DestroyStep ==
  ASSUME LineInv, Destroy
  PROVE  LineInv'
<1> TypeOK /\ client \in ClientSet /\ link \in [Sessions -> LinkSet]
  BY DEF LineInv, TypeOK
<1> DEFINE c == [client EXCEPT !.destroyed = TRUE, !.timer = FALSE, !.keepalive = FALSE]
<1>1. c \in ClientSet
  BY DEF ClientSet
<1>2. PICK d \in ClientSet, l \in [Sessions -> LinkSet] : RejectAllPending(d, l)
  <2>1. [c EXCEPT !.quitting = TRUE] \in ClientSet
    BY <1>1 DEF ClientSet
  <2>2. [c EXCEPT !.connected = FALSE, !.ssh = None] \in ClientSet
    BY <1>1 DEF ClientSet
  <2>3. EndSsh(link, c.ssh) \in [Sessions -> LinkSet]
    BY <1>1, LinkTypes DEF ClientSet
  <2>4. \/ RejectAllPending([c EXCEPT !.quitting = TRUE], link)
        \/ RejectAllPending([c EXCEPT !.connected = FALSE, !.ssh = None], EndSsh(link, c.ssh))
    BY DEF Destroy
  <2>5. QED
    BY <2>1, <2>2, <2>3, <2>4
<1>3. Rest /\ asked' \in [Sessions -> Seq(Commands)]
  BY DEF Destroy, TypeOK, Rest
<1>4. QED
  BY <1>2, <1>3, RejectSound, Assembled

\* Taking one element out of a sequence leaves a sequence, which is empty only if it was alone.
LEMMA RemoveAtType ==
  ASSUME NEW S, NEW q \in Seq(S), NEW i \in DOMAIN q
  PROVE  RemoveAt(q, i) \in Seq(S) /\ q # <<>>
<1>1. i \in 1 .. Len(q) /\ Len(q) \in Nat
  BY LenProperties
<1>2. SubSeq(q, 1, i - 1) \in Seq(S)
  BY <1>1, SubSeqProperties
<1>3. SubSeq(q, i + 1, Len(q)) \in Seq(S)
  BY <1>1, SubSeqProperties
<1>4. QED
  BY <1>1, <1>2, <1>3, ConcatProperties DEF RemoveAt

LEMMA CommandStep ==
  ASSUME LineInv, NEW k \in Commands, Execute(k) \/ TimesOut(k)
  PROVE  LineInv'
<1> TypeOK /\ client \in ClientSet /\ link \in [Sessions -> LinkSet] /\ queue \in Seq(Commands)
    /\ current \in Commands \cup {None} /\ asked \in [Sessions -> Seq(Commands)]
  BY DEF LineInv, TypeOK
<1>1. CASE Execute(k)
  <2>1. Rest
    BY <1>1 DEF Execute, TypeOK, Rest
  <2>2. Append(queue, k) \in Seq(Commands) /\ client.connected /\ client.shell # None
    BY <1>1 DEF Execute
  <2>3. CASE current = None
    <3>1. Processed(client, Append(queue, k), asked, FALSE)
      BY <1>1, <2>3 DEF Execute
    <3>2. QED
      BY <2>1, <2>2, <3>1, ProcessedSound, Assembled
  <2>4. CASE current # None
    <3>1. Becomes(client, link, Append(queue, k), current, FALSE) /\ asked' = asked
      BY <1>1, <2>4 DEF Execute
    <3>2. Sound(client, Append(queue, k), current)
      BY <2>2, <2>4 DEF Sound
    <3>3. QED
      BY <2>1, <2>2, <3>1, <3>2, BecomesSound, Assembled
  <2>5. QED
    BY <2>3, <2>4
<1>2. CASE TimesOut(k)
  <2>1. Rest
    <3>1. Fault \/ UNCHANGED faults
      BY <1>2 DEF TimesOut, MayFail
    <3>2. QED
      BY <1>2, <3>1, FaultType DEF TimesOut, TypeOK, Rest
  <2>2. (k = Whoami) \in BOOLEAN
    OBVIOUS
  <2>3. CASE k = current
    <3>1. Processed(client, queue, asked, k = Whoami)
      BY <1>2, <2>3 DEF TimesOut
    <3>2. ~client.destroyed => (queue # <<>> => client.connected /\ client.shell # None)
      BY DEF LineInv, Line1, Line2
    <3>3. QED
      BY <2>1, <2>2, <3>1, <3>2, ProcessedSound, Assembled
  <2>4. CASE k # current
    <3>1. PICK i \in DOMAIN queue : Becomes(client, link, RemoveAt(queue, i), current, k = Whoami)
      BY <1>2, <2>4 DEF TimesOut
    <3>2. RemoveAt(queue, i) \in Seq(Commands) /\ queue # <<>>
      BY RemoveAtType
    <3>3. Sound(client, RemoveAt(queue, i), current)
      BY <3>2 DEF Sound, LineInv, Line1, Line2
    <3>4. asked' = asked
      BY <1>2, <2>4 DEF TimesOut
    <3>5. QED
      BY <2>1, <2>2, <3>1, <3>2, <3>3, <3>4, BecomesSound, Assembled
  <2>5. QED
    BY <2>3, <2>4
<1>3. QED
  BY <1>1, <1>2

LEMMA ServerStep ==
  ASSUME LineInv, (\E s \in Sessions : Answer(s) \/ GreetingEnds(s)) \/ KeepaliveTick
  PROVE  LineInv'
<1> TypeOK /\ client \in ClientSet /\ link \in [Sessions -> LinkSet] /\ queue \in Seq(Commands)
    /\ current \in Commands \cup {None} /\ asked \in [Sessions -> Seq(Commands)]
  BY DEF LineInv, TypeOK
<1>0. ASSUME NEW owed \in [Sessions -> Seq(Commands)], NEW failed \in BOOLEAN,
             current # None, Completes(owed, failed), Rest
      PROVE  LineInv'
  <2>1. PICK c \in ClientSet, f \in BOOLEAN :
          /\ c.destroyed = client.destroyed /\ c.connected = client.connected /\ c.shell = client.shell
          /\ Processed(c, queue, owed, f)
    BY <1>0, CompletesFacts
  <2>2. ~c.destroyed => (queue # <<>> => c.connected /\ c.shell # None)
    BY <2>1 DEF LineInv, Line1, Line2
  <2>3. QED
    BY <1>0, <2>1, <2>2, ProcessedSound, Assembled
<1>1. ASSUME NEW s \in Sessions, Answer(s) PROVE LineInv'
  <2> DEFINE owed == [asked EXCEPT ![s] = Tail(@)]
  <2>1. owed \in [Sessions -> Seq(Commands)]
    <3>1. Tail(asked[s]) \in Seq(Commands)
      BY <1>1 DEF Answer
    <3>2. QED
      BY <3>1
  <2>2. CASE client.banner /\ current # None
    <3>1. PICK failed \in BOOLEAN : Completes(owed, failed) /\ MayFail(current = Whoami /\ failed)
      BY <1>1, <2>2 DEF Answer
    <3>2. Rest
      <4>1. Fault \/ UNCHANGED faults
        BY <3>1 DEF MayFail
      <4>2. QED
        BY <1>1, <4>1, FaultType DEF Answer, TypeOK, Rest
    <3> HIDE DEF owed
    <3>3. QED
      BY <1>0, <2>1, <2>2, <3>1, <3>2
  <2>3. CASE ~(client.banner /\ current # None)
    <3>1. asked' = owed /\ UNCHANGED <<client, link, queue, current, trailing, met, slipped, faults>>
      BY <1>1, <2>3 DEF Answer
    <3>2. Rest
      BY <3>1 DEF TypeOK, Rest
    <3>3. Line1' /\ Line2'
      BY <3>1 DEF LineInv, Line1, Line2
    <3>4. QED
      BY <2>1, <3>1, <3>2, <3>3, Assembled
  <2>4. QED
    BY <2>2, <2>3
<1>3. ASSUME NEW s \in Sessions, GreetingEnds(s) PROVE LineInv'
  <2>1. Rest
    BY <1>3 DEF GreetingEnds, TypeOK, Rest
  <2>2. CASE client.banner /\ current # None
    <3>1. Completes(asked, FALSE)
      BY <1>3, <2>2 DEF GreetingEnds
    <3>2. QED
      BY <1>0, <2>1, <2>2, <3>1
  <2>3. CASE ~(client.banner /\ current # None)
    <3>1. UNCHANGED <<client, link, queue, current, asked>>
      BY <1>3, <2>3 DEF GreetingEnds
    <3>2. Line1' /\ Line2'
      BY <3>1 DEF LineInv, Line1, Line2
    <3>3. QED
      BY <2>1, <3>1, <3>2, Assembled
  <2>4. QED
    BY <2>2, <2>3
<1>2. CASE KeepaliveTick
  <2>1. Becomes(client, link, queue, current, TRUE) /\ asked' = asked /\ Rest
    BY <1>2 DEF KeepaliveTick, TypeOK, Rest
  <2>2. Sound(client, queue, current)
    BY DEF Sound, LineInv, Line1, Line2
  <2>3. QED
    BY <2>1, <2>2, BecomesSound, Assembled
<1>4. QED
  BY <1>1, <1>2, <1>3

------------------------------------------------------------------------------

LEMMA LineInit == Init => LineInv
<1> SUFFICES ASSUME Init PROVE LineInv
  OBVIOUS
<1>1. client \in ClientSet
  BY Numbers DEF Init, ClientSet
<1>2. link \in [Sessions -> LinkSet]
  <2>1. Free \in LinkSet
    BY DEF Free, LinkSet
  <2>2. QED
    BY <2>1 DEF Init
<1>3. /\ queue = <<>> /\ current = None /\ asked = [s \in Sessions |-> <<>>]
      /\ trailing = {} /\ met = FALSE /\ slipped = FALSE /\ faults = 0
  BY DEF Init
<1>4. TypeOK
  <2>1. queue \in Seq(Commands) /\ asked \in [Sessions -> Seq(Commands)]
    BY <1>3
  <2>2. QED
    BY <1>1, <1>2, <1>3, <2>1, Numbers DEF TypeOK
<1>5. QED
  BY <1>3, <1>4 DEF LineInv, Line1, Line2

LEMMA LineNext == LineInv /\ [Next]_vars => LineInv'
<1> SUFFICES ASSUME LineInv, [Next]_vars PROVE LineInv'
  OBVIOUS
<1>1. CASE UNCHANGED vars
  BY <1>1 DEF vars, LineInv, TypeOK, Line1, Line2
<1>2. CASE Next
  <2>1. ASSUME NEW s \in Sessions, LoginTurn(s) \/ SessionStep(s) PROVE LineInv'
    BY <2>1, LoginStep, LossStep, ServerStep DEF SessionStep
  <2>2. ASSUME NEW k \in Commands, Execute(k) \/ TimesOut(k) PROVE LineInv'
    BY <2>2, CommandStep
  <2>3. QED
    BY <1>2, <2>1, <2>2, TimerStep, DestroyStep, ServerStep DEF Next, Turn, Commands
<1>3. QED
  BY <1>1, <1>2

\* The types hold through every order of events of the sessions.
THEOREM SshTypes == Spec => []TypeOK
<1>1. LineInv => TypeOK
  BY DEF LineInv
<1>2. QED
  BY <1>1, LineInit, LineNext, PTL DEF Spec

\* No command of a client that is not destroyed waits for a connection that is gone, or in a line
\* with nothing on the wire.
THEOREM TheLineMoves == Spec => []LineMoves
<1>1. LineInv => LineMoves
  BY DEF LineInv, Line1, Line2, LineMoves
<1>2. QED
  BY <1>1, LineInit, LineNext, PTL DEF Spec

------------------------------------------------------------------------------
(* The refinement of QueryLine *)

LEMMA HeadAndTail ==
  ASSUME NEW S, NEW q \in Seq(S), q # <<>>
  PROVE  <<Head(q)>> \o Tail(q) = q
OBVIOUS

LEMMA RemoveFirstOne ==
  ASSUME NEW S, NEW q \in Seq(S), NEW e \in S
  PROVE  RemoveAt(<<e>> \o q, 1) = q /\ 1 \in DOMAIN (<<e>> \o q)
BY DEF RemoveAt

LEMMA AppendBehind ==
  ASSUME NEW S, NEW q \in Seq(S), NEW e \in S, NEW k \in S
  PROVE  <<e>> \o Append(q, k) = Append(<<e>> \o q, k)
OBVIOUS

LEMMA Associates == \A S : \A a, b, d \in Seq(S) : (a \o b) \o d = a \o (b \o d)
<1>1. ASSUME NEW S, NEW a \in Seq(S), NEW b \in Seq(S), NEW d \in Seq(S)
      PROVE  (a \o b) \o d = a \o (b \o d)
  BY ConcatAssociative
<1>2. QED
  BY <1>1

LEMMA RemoveBehind ==
  ASSUME NEW S, NEW q \in Seq(S), NEW e \in S, NEW i \in DOMAIN q
  PROVE  RemoveAt(<<e>> \o q, i + 1) = <<e>> \o RemoveAt(q, i) /\ i + 1 \in DOMAIN (<<e>> \o q)
<1> DEFINE s == <<e>> \o q
<1>1. s \in Seq(S) /\ Len(s) = Len(q) + 1 /\ i \in 1 .. Len(q) /\ Len(q) \in Nat
  OBVIOUS
<1>2. \A j \in 1 .. Len(q) : s[j + 1] = q[j]
  BY <1>1
<1>3. s[1] = e
  BY <1>1
<1> HIDE DEF s
<1>4. SubSeq(s, 1, i) = <<e>> \o SubSeq(q, 1, i - 1)
  <2>1. SubSeq(s, 1, i) \in Seq(S) /\ Len(SubSeq(s, 1, i)) = i
    BY <1>1
  <2>2. SubSeq(q, 1, i - 1) \in Seq(S) /\ Len(SubSeq(q, 1, i - 1)) = i - 1
    BY <1>1
  <2>3. <<e>> \o SubSeq(q, 1, i - 1) \in Seq(S) /\ Len(<<e>> \o SubSeq(q, 1, i - 1)) = i
    BY <1>1, <2>2
  <2>4. ASSUME NEW j \in 1 .. i PROVE SubSeq(s, 1, i)[j] = (<<e>> \o SubSeq(q, 1, i - 1))[j]
    <3>1. SubSeq(s, 1, i)[j] = s[j]
      BY <1>1
    <3>2. CASE j = 1
      BY <1>1, <1>3, <2>2, <3>1, <3>2
    <3>3. CASE j # 1
      <4>1. j - 1 \in 1 .. i - 1 /\ s[j] = q[j - 1]
        <5>1. j - 1 \in 1 .. Len(q) /\ (j - 1) + 1 = j
          BY <1>1, <3>3
        <5>2. s[j] = q[j - 1]
          BY <1>2, <5>1, ZenonT(30)
        <5>3. j - 1 \in 1 .. i - 1
          BY <1>1, <3>3
        <5>4. QED
          BY <5>2, <5>3
      <4>2. (<<e>> \o SubSeq(q, 1, i - 1))[j] = SubSeq(q, 1, i - 1)[j - 1]
        BY <1>1, <2>2, <4>1
      <4>3. SubSeq(q, 1, i - 1)[j - 1] = q[j - 1]
        BY <1>1, <4>1
      <4>4. QED
        BY <3>1, <4>1, <4>2, <4>3
    <3>4. QED
      BY <3>2, <3>3
  <2>5. QED
    BY <2>1, <2>3, <2>4, SeqEqual
<1>5. SubSeq(s, i + 2, Len(q) + 1) = SubSeq(q, i + 1, Len(q))
  <2>1. SubSeq(s, i + 2, Len(q) + 1) \in Seq(S) /\ Len(SubSeq(s, i + 2, Len(q) + 1)) = Len(q) - i
    BY <1>1
  <2>2. SubSeq(q, i + 1, Len(q)) \in Seq(S) /\ Len(SubSeq(q, i + 1, Len(q))) = Len(q) - i
    BY <1>1
  <2>3. ASSUME NEW j \in 1 .. Len(q) - i PROVE SubSeq(s, i + 2, Len(q) + 1)[j] = SubSeq(q, i + 1, Len(q))[j]
    <3>1. SubSeq(s, i + 2, Len(q) + 1)[j] = s[i + j + 1]
      BY <1>1
    <3>2. SubSeq(q, i + 1, Len(q))[j] = q[i + j]
      BY <1>1
    <3>3. i + j \in 1 .. Len(q)
      BY <1>1
    <3>4. QED
      BY <1>2, <3>1, <3>2, <3>3
  <2>4. QED
    BY <2>1, <2>2, <2>3, SeqEqual
<1>6. RemoveAt(s, i + 1) = SubSeq(s, 1, i) \o SubSeq(s, i + 2, Len(q) + 1)
  <2>1. SubSeq(s, 1, (i + 1) - 1) = SubSeq(s, 1, i)
    <3>1. (i + 1) - 1 = i
      BY <1>1
    <3>2. QED
      BY <3>1, Zenon
  <2>2. SubSeq(s, (i + 1) + 1, Len(s)) = SubSeq(s, i + 2, Len(q) + 1)
    <3>1. (i + 1) + 1 = i + 2 /\ Len(s) = Len(q) + 1
      BY <1>1
    <3>2. QED
      BY <3>1, Zenon
  <2>3. QED
    BY <2>1, <2>2, Zenon DEF RemoveAt
<1>7. SubSeq(q, 1, i - 1) \in Seq(S) /\ SubSeq(q, i + 1, Len(q)) \in Seq(S) /\ <<e>> \in Seq(S)
  BY <1>1
<1>8. RemoveAt(s, i + 1) = <<e>> \o RemoveAt(q, i)
  <2>1. RemoveAt(q, i) = SubSeq(q, 1, i - 1) \o SubSeq(q, i + 1, Len(q))
    BY Zenon DEF RemoveAt
  <2>0. \A a, b, d \in Seq(S) : (a \o b) \o d = a \o (b \o d)
    BY Associates
  <2>2. (<<e>> \o SubSeq(q, 1, i - 1)) \o SubSeq(q, i + 1, Len(q))
          = <<e>> \o (SubSeq(q, 1, i - 1) \o SubSeq(q, i + 1, Len(q)))
    BY <1>7, <2>0, Zenon
  <2>3. QED
    BY <1>4, <1>5, <1>6, <2>1, <2>2, Zenon
<1>9. i + 1 \in DOMAIN s
  BY <1>1
<1>10. QED
  BY <1>8, <1>9, ZenonT(30) DEF s

LEMMA ElementsBehind ==
  ASSUME NEW S, NEW q \in Seq(S), NEW e \in S
  PROVE  ToSet(<<e>> \o q) = {e} \cup ToSet(q)
<1> DEFINE s == <<e>> \o q
<1>1. s \in Seq(S) /\ Len(s) = Len(q) + 1 /\ Len(q) \in Nat /\ DOMAIN s = 1 .. Len(q) + 1 /\ DOMAIN q = 1 .. Len(q)
  OBVIOUS
<1>2. \A j \in 1 .. Len(q) : s[j + 1] = q[j]
  BY <1>1
<1>3. s[1] = e
  BY <1>1
<1> HIDE DEF s
<1>4. ASSUME NEW j \in DOMAIN s PROVE s[j] \in {e} \cup ToSet(q)
  <2>1. CASE j = 1
    BY <1>3, <2>1
  <2>2. CASE j # 1
    <3>1. j - 1 \in 1 .. Len(q) /\ (j - 1) + 1 = j
      BY <1>1, <2>2
    <3>2. s[j] = q[j - 1]
      BY <1>2, <3>1
    <3>3. QED
      BY <1>1, <3>1, <3>2 DEF ToSet
  <2>3. QED
    BY <2>1, <2>2
<1>5. ASSUME NEW j \in DOMAIN q PROVE q[j] \in ToSet(s)
  <2>1. s[j + 1] = q[j] /\ j + 1 \in DOMAIN s
    BY <1>1, <1>2
  <2>2. QED
    BY <2>1 DEF ToSet
<1>6. e \in ToSet(s)
  BY <1>1, <1>3 DEF ToSet
<1>7. QED
  BY <1>4, <1>5, <1>6 DEF ToSet, s

\* A step of the abstract line, or none.
LineStep == Line!Next \/ UNCHANGED TheLine

LEMMA ClearStep == ASSUME TheLine' = <<>> PROVE LineStep
BY DEF LineStep, Line!Next, Line!Clear

LEMMA SameLine == ASSUME UNCHANGED <<queue, current>> PROVE LineStep
BY DEF LineStep, TheLine

LEMMA BecomesLine ==
  ASSUME NEW c, NEW l, NEW q, NEW k, NEW failed, Becomes(c, l, q, k, failed)
  PROVE  TheLine' = <<>> \/ (queue' = q /\ current' = k)
BY DEF Becomes, TheLine

LEMMA RejectLine ==
  ASSUME NEW c, NEW l, RejectAllPending(c, l)
  PROVE  LineStep
<1>1. Becomes(c, l, <<>>, None, Whoami \in Pending)
  BY DEF RejectAllPending
<1>2. TheLine' = <<>>
  BY <1>1, BecomesLine DEF TheLine
<1>3. QED
  BY <1>2, ClearStep

LEMMA ProcessedLine ==
  ASSUME NEW c, NEW q \in Seq(Commands), NEW owed, NEW failed, Processed(c, q, owed, failed)
  PROVE  TheLine' = <<>> \/ TheLine' = q
<1>1. CASE q # <<>> /\ c.shell # None /\ c.connected
  <2>1. Becomes(c, link, Tail(q), Head(q), failed)
    BY <1>1 DEF Processed
  <2>2. TheLine' = <<>> \/ (queue' = Tail(q) /\ current' = Head(q))
    BY <2>1, BecomesLine
  <2>3. Head(q) \in Commands
    BY <1>1
  <2>4. QED
    BY <1>1, <2>2, <2>3, Numbers, HeadAndTail DEF TheLine
<1>2. CASE ~(q # <<>> /\ c.shell # None /\ c.connected)
  <2>1. Becomes(c, link, q, None, failed)
    BY <1>2 DEF Processed
  <2>2. QED
    BY <2>1, BecomesLine DEF TheLine
<1>3. QED
  BY <1>1, <1>2

\* The current command leaves the line.
LEMMA CurrentLeaves ==
  ASSUME LineInv, current # None,
         NEW c, NEW owed, NEW failed, Processed(c, queue, owed, failed)
  PROVE  LineStep
<1>1. queue \in Seq(Commands) /\ current \in Commands
  BY DEF LineInv, TypeOK
<1>2. CASE TheLine' = <<>>
  BY <1>2, ClearStep
<1>3. CASE TheLine' = queue
  <2>1. TheLine = <<current>> \o queue
    BY DEF TheLine
  <2>2. 1 \in DOMAIN TheLine /\ TheLine' = RemoveAt(TheLine, 1)
    BY <1>1, <1>3, <2>1, RemoveFirstOne
  <2>3. QED
    BY <2>2 DEF LineStep, Line!Next, Line!Leave, Line!RemoveAt, RemoveAt
<1>4. QED
  BY <1>1, <1>2, <1>3, ProcessedLine

LEMMA CommandLine ==
  ASSUME LineInv, NEW k \in Commands, Execute(k) \/ TimesOut(k)
  PROVE  LineStep
<1>0. /\ queue \in Seq(Commands) /\ current \in Commands \cup {None} /\ None \notin Commands
  BY Numbers DEF LineInv, TypeOK
<1>1. CASE Execute(k)
  <2>1. k \notin ToSet(TheLine)
    <3>1. k \notin ToSet(queue) /\ k # current
      BY <1>0, <1>1 DEF Execute, Pending
    <3>2. CASE current = None
      BY <3>1, <3>2 DEF TheLine
    <3>3. CASE current # None
      <4>1. ToSet(<<current>> \o queue) = {current} \cup ToSet(queue)
        BY <1>0, <3>3, ElementsBehind
      <4>2. QED
        BY <3>1, <3>3, <4>1 DEF TheLine
    <3>4. QED
      BY <3>2, <3>3
  <2>2. TheLine' = <<>> \/ TheLine' = Append(TheLine, k)
    <3>1. Append(queue, k) \in Seq(Commands)
      BY <1>0
    <3>2. CASE current = None
      <4>1. Processed(client, Append(queue, k), asked, FALSE)
        BY <1>1, <3>2 DEF Execute
      <4>2. QED
        BY <3>1, <3>2, <4>1, ProcessedLine DEF TheLine
    <3>3. CASE current # None
      <4>1. Becomes(client, link, Append(queue, k), current, FALSE)
        BY <1>1, <3>3 DEF Execute
      <4>2. TheLine' = <<>> \/ (queue' = Append(queue, k) /\ current' = current)
        BY <4>1, BecomesLine
      <4>3. <<current>> \o Append(queue, k) = Append(<<current>> \o queue, k)
        BY <1>0, <3>3, AppendBehind
      <4>4. QED
        BY <3>3, <4>2, <4>3 DEF TheLine
    <3>4. QED
      BY <3>2, <3>3
  <2>3. CASE TheLine' = <<>>
    BY <2>3, ClearStep
  <2>4. CASE TheLine' = Append(TheLine, k)
    BY <2>1, <2>4 DEF LineStep, Line!Next, Line!Join, Line!ToSet, ToSet
  <2>5. QED
    BY <2>2, <2>3, <2>4
<1>2. CASE TimesOut(k)
  <2>1. CASE k = current
    <3>1. Processed(client, queue, asked, k = Whoami) /\ current # None
      BY <1>0, <1>2, <2>1 DEF TimesOut
    <3>2. QED
      BY <3>1, CurrentLeaves
  <2>2. CASE k # current
    <3>1. PICK i \in DOMAIN queue : Becomes(client, link, RemoveAt(queue, i), current, k = Whoami)
      BY <1>2, <2>2 DEF TimesOut
    <3>2. TheLine' = <<>> \/ (queue' = RemoveAt(queue, i) /\ current' = current)
      BY <3>1, BecomesLine
    <3>3. CASE TheLine' = <<>>
      BY <3>3, ClearStep
    <3>4. CASE queue' = RemoveAt(queue, i) /\ current' = current
      <4>1. \E j \in DOMAIN TheLine : TheLine' = RemoveAt(TheLine, j)
        <5>1. CASE current = None
          BY <3>4, <5>1 DEF TheLine
        <5>2. CASE current # None
          <6>1. TheLine = <<current>> \o queue /\ TheLine' = <<current>> \o RemoveAt(queue, i)
            BY <3>4, <5>2 DEF TheLine
          <6>2. /\ i + 1 \in DOMAIN (<<current>> \o queue)
                /\ RemoveAt(<<current>> \o queue, i + 1) = <<current>> \o RemoveAt(queue, i)
            BY <1>0, <5>2, RemoveBehind
          <6>3. QED
            BY <6>1, <6>2
        <5>3. QED
          BY <5>1, <5>2
      <4>2. QED
        BY <4>1 DEF LineStep, Line!Next, Line!Leave, Line!RemoveAt, RemoveAt
    <3>5. QED
      BY <3>2, <3>3, <3>4
  <2>3. QED
    BY <2>1, <2>2
<1>3. QED
  BY <1>1, <1>2

LEMMA AnswerLine ==
  ASSUME LineInv, NEW s \in Sessions, Answer(s) \/ GreetingEnds(s)
  PROVE  LineStep
<1>1. CASE client.banner /\ current # None
  <2>1. PICK owed : \E failed \in BOOLEAN : Completes(owed, failed)
    BY <1>1 DEF Answer, GreetingEnds
  <2>2. PICK c, f : Processed(c, queue, owed, f)
    BY <2>1 DEF Completes
  <2>3. QED
    BY <1>1, <2>2, CurrentLeaves
<1>2. CASE ~(client.banner /\ current # None)
  BY <1>2, SameLine DEF Answer, GreetingEnds
<1>3. QED
  BY <1>1, <1>2

LEMMA LineNextStep == LineInv /\ [Next]_vars => LineStep
<1> SUFFICES ASSUME LineInv, [Next]_vars PROVE LineStep
  OBVIOUS
<1>1. CASE UNCHANGED vars
  BY <1>1, SameLine DEF vars
<1>2. CASE NoLogin \/ TimerFires \/ DestroyEnds
  BY <1>2, SameLine DEF NoLogin, TimerFires, DestroyEnds
<1>3. ASSUME NEW s \in Sessions,
             LoginTurn(s) \/ ShellOpens(s) \/ ShellFails(s) \/ Banner(s) \/ ConnectTimeout(s) \/ LoginFails(s)
      PROVE  LineStep
  <2>1. UNCHANGED <<queue, current>>
    BY <1>3 DEF LoginTurn, ShellOpens, ShellFails, Banner, ConnectTimeout, LoginFails
  <2>2. QED
    BY <2>1, SameLine
<1>4. ASSUME NEW s \in Sessions, ChannelCloses(s) \/ SshCloses(s) PROVE LineStep
  <2>1. PICK c, l : RejectAllPending(c, l)
    BY <1>4 DEF ChannelCloses, SshCloses
  <2>2. QED
    BY <2>1, RejectLine
<1>5. CASE Destroy
  <2>1. PICK c, l : RejectAllPending(c, l)
    BY <1>5 DEF Destroy
  <2>2. QED
    BY <2>1, RejectLine
<1>6. CASE KeepaliveTick
  <2>1. Becomes(client, link, queue, current, TRUE)
    BY <1>6 DEF KeepaliveTick
  <2>2. TheLine' = <<>> \/ UNCHANGED <<queue, current>>
    BY <2>1, BecomesLine
  <2>3. QED
    BY <2>2, ClearStep, SameLine
<1>7. ASSUME NEW k \in Commands, Execute(k) \/ TimesOut(k) PROVE LineStep
  BY <1>7, CommandLine
<1>8. QED
  BY <1>1, <1>2, <1>3, <1>4, <1>5, <1>6, <1>7, AnswerLine DEF Next, Turn, SessionStep, Commands

\* The client's commands behave as the one line of QueryLine.
THEOREM ImplementsQueryLine == Spec => IsALine
<1>1. Init => Line!Init
  BY DEF Init, Line!Init, TheLine
<1>2. LineInv /\ [Next]_vars => [Line!Next]_TheLine
  BY LineNextStep DEF LineStep
<1>3. QED
  BY <1>1, <1>2, LineInit, LineNext, PTL DEF Spec, IsALine, Line!Spec

------------------------------------------------------------------------------
(* A destroyed client *)

\* Nothing of a destroyed client is scheduled.
Mute(c) == c.destroyed => ~c.timer /\ ~c.keepalive

\* A number that is free in link is free in l.
FreeIn(l) == \A s \in Sessions : link[s].at = "free" => l[s].at = "free"

\* A step leads a client that is mute to one that is, and wakes no session of a destroyed one.
QuietStep ==
  /\ Mute(client)' /\ (client.destroyed => client'.destroyed)
  /\ client.destroyed => FreeIn(link')

LEMMA MuteStays ==
  ASSUME NEW c \in ClientSet, Mute(c)
  PROVE  /\ Mute(Scheduled(c)) /\ Scheduled(c).destroyed = c.destroyed
         /\ Mute(Down(c)) /\ Down(c).destroyed = c.destroyed
         /\ Forced(c) \in ClientSet /\ Mute(Forced(c)) /\ Forced(c).destroyed = c.destroyed
         /\ \A s \in Sessions : Mute(Refused(c, s)) /\ Refused(c, s).destroyed = c.destroyed
<1>1. Mute(Scheduled(c)) /\ Scheduled(c).destroyed = c.destroyed
  BY DEF Mute, Scheduled, ClientSet
<1>2. Mute(Down(c)) /\ Down(c).destroyed = c.destroyed
  BY DEF Mute, Down, ClientSet
<1>3. Forced(c) \in ClientSet
  BY ZenonT(60), ClientTypes, Numbers DEF Forced, ClientSet
<1>4. Mute(Forced(c)) /\ Forced(c).destroyed = c.destroyed
  BY DEF Mute, Forced, Down, ClientSet
<1>5. QED
  BY <1>1, <1>2, <1>3, <1>4 DEF Refused

LEMMA FreeStays ==
  ASSUME NEW l \in [Sessions -> LinkSet], FreeIn(l), NEW s
  PROVE  FreeIn(CloseShell(l, s)) /\ FreeIn(EndSsh(l, s))
<1>1. \A r \in Sessions : CloseShell(l, s)[r].at = l[r].at
  BY DEF CloseShell, LinkSet
<1>2. \A r \in Sessions : EndSsh(l, s)[r].at = l[r].at
  BY DEF EndSsh, LinkSet
<1>3. QED
  BY <1>1, <1>2 DEF FreeIn

\* A session that is not free may be changed in any way.
LEMMA NotFree ==
  ASSUME TypeOK, NEW s \in Sessions, link[s].at # "free", NEW l,
         \A r \in Sessions \ {s} : l[r] = link[r]
  PROVE  FreeIn(l)
BY DEF FreeIn

LEMMA BecomesQuiet ==
  ASSUME NEW c \in ClientSet, Mute(c), client.destroyed => c.destroyed,
         NEW l \in [Sessions -> LinkSet], client.destroyed => FreeIn(l),
         NEW q, NEW k, NEW failed, Becomes(c, l, q, k, failed)
  PROVE  QuietStep
<1>1. CASE failed /\ c.fails + 1 >= Failures
  <2>1. client' = Scheduled(Forced(c)) /\ link' = EndSsh(CloseShell(l, c.shell), c.ssh)
    BY <1>1 DEF Becomes
  <2>2. Mute(Scheduled(Forced(c))) /\ Scheduled(Forced(c)).destroyed = c.destroyed
    <3>1. Forced(c) \in ClientSet /\ Mute(Forced(c)) /\ Forced(c).destroyed = c.destroyed
      BY MuteStays
    <3>2. QED
      BY <3>1, MuteStays
  <2>3. CloseShell(l, c.shell) \in [Sessions -> LinkSet]
    BY LinkTypes DEF ClientSet
  <2>4. client.destroyed => FreeIn(link')
    BY <2>1, <2>3, FreeStays
  <2>5. QED
    BY <2>1, <2>2, <2>4 DEF QuietStep, Mute
<1>2. CASE ~(failed /\ c.fails + 1 >= Failures)
  <2>1. client' = [c EXCEPT !.fails = IF failed THEN @ + 1 ELSE @] /\ link' = l
    BY <1>2 DEF Becomes
  <2>2. client'.destroyed = c.destroyed /\ client'.timer = c.timer /\ client'.keepalive = c.keepalive
    BY <2>1 DEF ClientSet
  <2>3. QED
    BY <2>1, <2>2 DEF QuietStep, Mute
<1>3. QED
  BY <1>1, <1>2

LEMMA ProcessedQuiet ==
  ASSUME TypeOK, NEW c \in ClientSet, Mute(c), client.destroyed => c.destroyed,
         NEW q, NEW owed, NEW failed, Processed(c, q, owed, failed)
  PROVE  QuietStep
<1>1. link \in [Sessions -> LinkSet] /\ FreeIn(link)
  BY DEF TypeOK, FreeIn
<1>2. PICK q2, k : Becomes(c, link, q2, k, failed)
  BY DEF Processed
<1>3. QED
  BY <1>1, <1>2, BecomesQuiet

LEMMA SessionQuiet ==
  ASSUME TypeOK, Mute(client), NEW s \in Sessions, SessionStep(s)
  PROVE  QuietStep
<1>0. client \in ClientSet /\ link \in [Sessions -> LinkSet] /\ FreeIn(link)
  BY DEF TypeOK, FreeIn
<1>1. CASE ShellOpens(s)
  <2>1. link[s].at = "login"
    BY <1>1 DEF ShellOpens
  <2>2. CASE client.destroyed
    <3>1. client' = client /\ link' = EndSsh([link EXCEPT ![s].at = "up"], s)
      BY <1>1, <2>2 DEF ShellOpens
    <3>2. [link EXCEPT ![s].at = "up"] \in [Sessions -> LinkSet]
      BY <1>0, LinkUpdates
    <3>3. FreeIn([link EXCEPT ![s].at = "up"])
      BY <1>0, <2>1, NotFree
    <3>4. FreeIn(link')
      BY <3>1, <3>2, <3>3, FreeStays
    <3>5. QED
      BY <3>1, <3>4 DEF QuietStep, Mute
  <2>3. CASE ~client.destroyed
    BY <1>0, <1>1, <2>3 DEF ShellOpens, QuietStep, Mute, ClientSet
  <2>4. QED
    BY <1>0, <2>2, <2>3 DEF ClientSet
<1>2. CASE ShellFails(s)
  <2>1. /\ link[s].at = "login" /\ client' = Refused(client, s)
        /\ link' = [link EXCEPT ![s].at = "up", ![s].settled = TRUE]
    BY <1>2 DEF ShellFails
  <2>2. FreeIn(link')
    BY <1>0, <2>1, NotFree
  <2>3. QED
    BY <1>0, <2>1, <2>2, MuteStays DEF QuietStep, Mute
<1>3. CASE Banner(s)
  <2> DEFINE l == [link EXCEPT ![s].greeted = TRUE]
  <2>1. l \in [Sessions -> LinkSet] /\ FreeIn(l)
    <3>1. link[s].at # "free"
      BY <1>3 DEF Banner
    <3>2. FreeIn(l)
      BY <1>0, <3>1, NotFree
    <3>3. QED
      BY <1>0, <3>2, LinkUpdates
  <2>2. CASE client.destroyed
    <3>1. client' = [client EXCEPT !.banner = TRUE] /\ link' \in {l, EndSsh(CloseShell(l, s), s)}
      BY <1>3, <2>2 DEF Banner
    <3>2. CloseShell(l, s) \in [Sessions -> LinkSet] /\ FreeIn(CloseShell(l, s))
      BY <2>1, LinkTypes, FreeStays
    <3>3. FreeIn(link')
      BY <2>1, <3>1, <3>2, FreeStays
    <3>4. /\ client'.destroyed = client.destroyed /\ client'.timer = client.timer
          /\ client'.keepalive = client.keepalive
      BY <1>0, <3>1 DEF ClientSet
    <3>5. QED
      BY <3>3, <3>4 DEF QuietStep, Mute
  <2>3. CASE ~client.destroyed
    <3>1. client'.destroyed = client.destroyed
      BY <1>0, <1>3, <2>3 DEF Banner, ClientSet
    <3>2. QED
      BY <2>3, <3>1 DEF QuietStep, Mute
  <2>4. QED
    BY <2>2, <2>3
<1>4. CASE ConnectTimeout(s)
  <2>1. client' = Refused(client, s) /\ link' = EndSsh([link EXCEPT ![s].settled = TRUE], s)
    BY <1>4 DEF ConnectTimeout
  <2>2. /\ [link EXCEPT ![s].settled = TRUE] \in [Sessions -> LinkSet]
        /\ \A r \in Sessions : [link EXCEPT ![s].settled = TRUE][r].at = link[r].at
    <3>1. [link EXCEPT ![s].settled = TRUE] \in [Sessions -> LinkSet]
      BY <1>0, LinkUpdates
    <3>2. \A r \in Sessions : [link EXCEPT ![s].settled = TRUE][r].at = link[r].at
      BY <1>0 DEF LinkSet
    <3>3. QED
      BY <3>1, <3>2
  <2>3. FreeIn([link EXCEPT ![s].settled = TRUE])
    BY <2>2 DEF FreeIn
  <2>4. FreeIn(link')
    BY <2>1, <2>2, <2>3, FreeStays
  <2>5. QED
    BY <1>0, <2>1, <2>4, MuteStays DEF QuietStep, Mute
<1>5. CASE LoginFails(s)
  <2>1. PICK auth \in BOOLEAN : client' = Refused([client EXCEPT !.fatal = @ \/ auth], s)
    BY <1>5 DEF LoginFails
  <2>2. [client EXCEPT !.fatal = @ \/ auth] \in ClientSet
    BY <1>0, ZenonT(30) DEF ClientSet
  <2>3. /\ Mute([client EXCEPT !.fatal = @ \/ auth])
        /\ [client EXCEPT !.fatal = @ \/ auth].destroyed = client.destroyed
    BY <1>0 DEF Mute, ClientSet
  <2>4. /\ link[s].at = "login" /\ link' = EndSsh([link EXCEPT ![s].settled = TRUE], s)
    BY <1>5 DEF LoginFails
  <2>5. FreeIn([link EXCEPT ![s].settled = TRUE]) /\ [link EXCEPT ![s].settled = TRUE] \in [Sessions -> LinkSet]
    BY <1>0, <2>4, NotFree, LinkUpdates
  <2>6. FreeIn(link')
    BY <2>4, <2>5, FreeStays
  <2>7. QED
    BY <2>1, <2>2, <2>3, <2>6, MuteStays DEF QuietStep, Mute
<1>6. CASE ChannelCloses(s)
  <2> DEFINE l == IF link[s].at = "closed" THEN [link EXCEPT ![s] = Free]
                  ELSE [link EXCEPT ![s].chan = "none"]
  <2>1. Becomes(Scheduled(Down(client)), l, <<>>, None, Whoami \in Pending)
    BY <1>6 DEF ChannelCloses, RejectAllPending
  <2>2. Down(client) \in ClientSet /\ Mute(Down(client)) /\ Down(client).destroyed = client.destroyed
    BY <1>0, ClientTypes, MuteStays
  <2>3. /\ Scheduled(Down(client)) \in ClientSet /\ Mute(Scheduled(Down(client)))
        /\ Scheduled(Down(client)).destroyed = client.destroyed
    BY <2>2, ClientTypes, MuteStays
  <2>4. l \in [Sessions -> LinkSet]
    BY <1>0, LinkUpdates
  <2>5. FreeIn(l)
    <3>1. CASE link[s].at = "closed"
      BY <1>0, <3>1, NotFree
    <3>2. CASE link[s].at # "closed"
      <4>1. \A r \in Sessions : l[r].at = link[r].at
        BY <1>0, <3>2 DEF LinkSet
      <4>2. QED
        BY <4>1 DEF FreeIn
    <3>3. QED
      BY <3>1, <3>2
  <2> HIDE DEF l
  <2>6. QED
    BY <2>1, <2>3, <2>4, <2>5, BecomesQuiet
<1>7. CASE SshCloses(s)
  <2> DEFINE d == [Down(client) EXCEPT !.keepalive = FALSE]
             c == Refused(d, s)
             e == IF client.connected THEN Scheduled(c) ELSE c
             l == IF link[s].chan = "none" THEN [link EXCEPT ![s] = Free]
                  ELSE [link EXCEPT ![s].at = "closed", ![s].settled = TRUE]
  <2>1. link[s].at # "free" /\ Becomes(e, l, <<>>, None, Whoami \in Pending)
    BY <1>7 DEF SshCloses, RejectAllPending
  <2>2. Down(client) \in ClientSet /\ Mute(Down(client)) /\ Down(client).destroyed = client.destroyed
    BY <1>0, ClientTypes, MuteStays
  <2>3. d \in ClientSet /\ Mute(d) /\ d.destroyed = client.destroyed
    BY <2>2 DEF ClientSet, Mute
  <2> HIDE DEF d
  <2>4. c \in ClientSet /\ Mute(c) /\ c.destroyed = client.destroyed
    BY <2>3, ClientTypes, MuteStays
  <2> HIDE DEF c
  <2>5. e \in ClientSet /\ Mute(e) /\ e.destroyed = client.destroyed
    BY <2>4, ClientTypes, MuteStays
  <2>6. l \in [Sessions -> LinkSet]
    BY <1>0, LinkUpdates
  <2>7. FreeIn(l)
    BY <1>0, <2>1, NotFree
  <2> HIDE DEF e, l
  <2>8. QED
    BY <2>1, <2>5, <2>6, <2>7, BecomesQuiet
<1>8. CASE Answer(s) \/ GreetingEnds(s)
  <2>1. CASE client.banner /\ current # None
    <3>1. PICK owed : \E failed \in BOOLEAN : Completes(owed, failed)
      BY <1>8, <2>1 DEF Answer, GreetingEnds
    <3>2. PICK c \in ClientSet, f \in BOOLEAN :
            /\ c.destroyed = client.destroyed /\ c.timer = client.timer
            /\ c.keepalive = client.keepalive
            /\ Processed(c, queue, owed, f)
      BY <3>1, CompletesFacts
    <3>3. Mute(c)
      BY <3>2 DEF Mute
    <3>4. QED
      BY <3>2, <3>3, ProcessedQuiet
  <2>2. CASE ~(client.banner /\ current # None)
    BY <1>0, <1>8, <2>2 DEF Answer, GreetingEnds, QuietStep, Mute
  <2>3. QED
    BY <2>1, <2>2
<1>9. QED
  BY <1>1, <1>2, <1>3, <1>4, <1>5, <1>6, <1>7, <1>8 DEF SessionStep

LEMMA CommandQuiet ==
  ASSUME TypeOK, Mute(client), NEW k \in Commands, Execute(k) \/ TimesOut(k)
  PROVE  QuietStep
<1>0. client \in ClientSet /\ link \in [Sessions -> LinkSet] /\ FreeIn(link)
  BY DEF TypeOK, FreeIn
<1>1. (\E q, f : Processed(client, q, asked, f)) \/ (\E q, f : Becomes(client, link, q, current, f))
  <2>1. CASE Execute(k)
    BY <2>1 DEF Execute
  <2>2. CASE TimesOut(k)
    BY <2>2 DEF TimesOut
  <2>3. QED
    BY <2>1, <2>2
<1>2. QED
  BY <1>0, <1>1, ProcessedQuiet, BecomesQuiet

LEMMA ClientQuiet ==
  ASSUME TypeOK, Mute(client),
         Turn \/ TimerFires \/ Destroy \/ DestroyEnds \/ KeepaliveTick
  PROVE  QuietStep
<1>0. client \in ClientSet /\ link \in [Sessions -> LinkSet] /\ FreeIn(link)
  BY DEF TypeOK, FreeIn
<1>1. CASE NoLogin \/ TimerFires
  <2>1. link' = link /\ client'.destroyed = client.destroyed /\ client'.keepalive = client.keepalive
        /\ (client'.timer => client.timer)
    BY <1>0, <1>1 DEF NoLogin, TimerFires, ClientSet
  <2>2. QED
    BY <1>0, <2>1 DEF QuietStep, Mute
<1>2. ASSUME NEW s \in Sessions, LoginTurn(s) PROVE QuietStep
  <2>1. ~client.destroyed /\ client'.destroyed = client.destroyed
    BY <1>0, <1>2 DEF LoginTurn, ClientSet
  <2>2. QED
    BY <2>1 DEF QuietStep, Mute
<1>3. CASE Destroy
  <2> DEFINE c == [client EXCEPT !.destroyed = TRUE, !.timer = FALSE, !.keepalive = FALSE]
  <2>1. c \in ClientSet /\ c.destroyed /\ ~c.timer /\ ~c.keepalive /\ c.ssh = client.ssh
    BY <1>0 DEF ClientSet
  <2>2. Destroy => \/ RejectAllPending([c EXCEPT !.quitting = TRUE], link)
                   \/ RejectAllPending([c EXCEPT !.connected = FALSE, !.ssh = None], EndSsh(link, c.ssh))
    BY DEF Destroy
  <2> HIDE DEF c
  <2>3. /\ [c EXCEPT !.quitting = TRUE] \in ClientSet /\ [c EXCEPT !.quitting = TRUE].destroyed
        /\ Mute([c EXCEPT !.quitting = TRUE])
    BY <2>1 DEF ClientSet, Mute
  <2>4. LET d == [c EXCEPT !.connected = FALSE, !.ssh = None] IN
          d \in ClientSet /\ d.destroyed /\ Mute(d)
    BY <2>1 DEF ClientSet, Mute
  <2>5. EndSsh(link, c.ssh) \in [Sessions -> LinkSet] /\ FreeIn(EndSsh(link, c.ssh))
    BY <1>0, <2>1, LinkTypes, FreeStays DEF ClientSet
  <2>6. QED
    BY <1>0, <1>3, <2>2, <2>3, <2>4, <2>5, BecomesQuiet DEF RejectAllPending
<1>4. CASE DestroyEnds
  <2>1. /\ client'.destroyed = client.destroyed /\ client'.timer = client.timer
        /\ client'.keepalive = client.keepalive
    BY <1>0, <1>4 DEF DestroyEnds, ClientSet
  <2>2. CloseShell(link, client.shell) \in [Sessions -> LinkSet] /\ FreeIn(CloseShell(link, client.shell))
    BY <1>0, LinkTypes, FreeStays DEF ClientSet
  <2>3. FreeIn(link')
    BY <1>0, <1>4, <2>2, FreeStays DEF DestroyEnds
  <2>4. QED
    BY <2>1, <2>3 DEF QuietStep, Mute
<1>5. CASE KeepaliveTick
  <2>1. Becomes(client, link, queue, current, TRUE)
    BY <1>5 DEF KeepaliveTick
  <2>2. QED
    BY <1>0, <2>1, BecomesQuiet
<1>6. QED
  BY <1>1, <1>2, <1>3, <1>4, <1>5 DEF Turn

LEMMA QuietNext == TypeOK /\ Mute(client) /\ [Next]_vars => QuietStep
<1> SUFFICES ASSUME TypeOK, Mute(client), [Next]_vars PROVE QuietStep
  OBVIOUS
<1>1. CASE UNCHANGED vars
  BY <1>1 DEF vars, QuietStep, Mute, FreeIn
<1>2. CASE Next
  BY <1>2, ClientQuiet, CommandQuiet, SessionQuiet DEF Next, Commands
<1>3. QED
  BY <1>1, <1>2

\* A destroyed client schedules nothing, sends no keepalive and opens no session, whatever of its
\* connects and sessions was still under way.
THEOREM NothingAfterDestroy == Spec => DestroyedIsQuiet
<1>1. Init => Mute(client)
  BY DEF Init, Mute
<1>2. TypeOK /\ Mute(client) /\ [Next]_vars => Mute(client)'
  BY QuietNext DEF QuietStep
<1>3. TypeOK /\ Mute(client) /\ [Next]_vars =>
        [client.destroyed =>
           /\ ~client'.timer /\ ~client'.keepalive
           /\ \A s \in Sessions : link[s].at = "free" => link'[s].at = "free"]_vars
  BY QuietNext DEF QuietStep, Mute, FreeIn
<1>4. QED
  BY <1>1, <1>2, <1>3, SshTypes, PTL DEF Spec, DestroyedIsQuiet

------------------------------------------------------------------------------
(* Answers reach who asked *)

\* With fields c and current command k, the servers owe at most the answer to k.
OwesOne(c, k, owed) ==
  c.connected /\ ~c.destroyed =>
    \A s \in Sessions : owed[s] # <<>> => s = c.shell /\ owed[s] = <<k>>

LEMMA NothingOwed ==
  ASSUME TypeOK, OwesOne(client, current, asked), client.connected, ~client.destroyed, current = None
  PROVE  \A s \in Sessions : asked[s] = <<>>
<1>1. ASSUME NEW s \in Sessions, asked[s] # <<>> PROVE FALSE
  <2>1. asked[s] = <<None>> /\ asked[s] \in Seq(Commands)
    BY <1>1 DEF OwesOne, TypeOK
  <2>2. None \in Commands
    BY <2>1
  <2>3. QED
    BY <2>2, Numbers
<1>2. QED
  BY <1>1

\* A keepalive that drops the connection leaves no client that is in step or out of it.
LEMMA BecomesInStep ==
  ASSUME NEW c \in ClientSet, NEW l, NEW q, NEW k, NEW failed, Becomes(c, l, q, k, failed),
         OwesOne(c, k, asked')
  PROVE  InStep'
<1>1. CASE failed /\ c.fails + 1 >= Failures
  <2>1. client' = Scheduled(Forced(c))
    BY <1>1 DEF Becomes
  <2>2. Forced(c) \in ClientSet /\ ~Forced(c).connected
    <3>1. Forced(c) \in ClientSet
      BY ZenonT(60), ClientTypes, Numbers DEF Forced, ClientSet
    <3>2. ~Forced(c).connected
      BY DEF Forced, Down, ClientSet
    <3>3. QED
      BY <3>1, <3>2
  <2>3. ~client'.connected
    BY <2>1, <2>2, SameFields
  <2>4. QED
    BY <2>3 DEF InStep
<1>2. CASE ~(failed /\ c.fails + 1 >= Failures)
  <2>1. client' = [c EXCEPT !.fails = IF failed THEN @ + 1 ELSE @] /\ current' = k
    BY <1>2 DEF Becomes
  <2>2. /\ client'.connected = c.connected /\ client'.destroyed = c.destroyed
        /\ client'.shell = c.shell
    BY <2>1 DEF ClientSet
  <2>3. QED
    BY <2>1, <2>2 DEF InStep, OwesOne
<1>3. QED
  BY <1>1, <1>2

LEMMA ProcessedInStep ==
  ASSUME TypeOK, NEW c \in ClientSet, NEW q \in Seq(Commands),
         NEW owed \in [Sessions -> Seq(Commands)], NEW failed, Processed(c, q, owed, failed),
         c.connected /\ ~c.destroyed => \A s \in Sessions : owed[s] = <<>>
  PROVE  InStep'
<1>1. CASE q # <<>> /\ c.shell # None /\ c.connected
  <2>1. /\ Becomes(c, link, Tail(q), Head(q), failed)
        /\ asked' = IF link[c.shell].chan = "open"
                    THEN [owed EXCEPT ![c.shell] = Append(@, Head(q))] ELSE owed
    BY <1>1 DEF Processed
  <2>2. OwesOne(c, Head(q), asked')
    <3>1. SUFFICES ASSUME c.connected, ~c.destroyed, NEW s \in Sessions, asked'[s] # <<>>
                   PROVE  s = c.shell /\ asked'[s] = <<Head(q)>>
      BY DEF OwesOne
    <3>2. owed[s] = <<>>
      BY <3>1
    <3>3. asked' # owed
      BY <3>1, <3>2
    <3> DEFINE more == Append(owed[c.shell], Head(q))
    <3>4. asked' = [owed EXCEPT ![c.shell] = more]
      BY <2>1, <3>3
    <3>5. owed[s] = <<>> /\ s = c.shell => more = <<Head(q)>>
      <4>1. \A h : Append(<<>>, h) = <<h>>
        OBVIOUS
      <4>2. QED
        BY <4>1, Zenon
    <3> HIDE DEF more
    <3>6. s = c.shell /\ asked'[s] = more
      BY <3>1, <3>2, <3>4
    <3>7. QED
      BY <3>2, <3>5, <3>6
  <2>3. QED
    BY <2>1, <2>2, BecomesInStep
<1>2. CASE ~(q # <<>> /\ c.shell # None /\ c.connected)
  <2>1. Becomes(c, link, q, None, failed) /\ asked' = owed
    BY <1>2 DEF Processed
  <2>2. OwesOne(c, None, asked')
    BY <2>1 DEF OwesOne
  <2>3. QED
    BY <2>1, <2>2, BecomesInStep
<1>3. QED
  BY <1>1, <1>2

\* A step that leaves the commands and the client's way to the server alone.
LEMMA InStepKept ==
  ASSUME InStep, slipped' = slipped, UNCHANGED <<current, asked>>,
         client'.connected => client.connected /\ client'.shell = client.shell,
         client'.destroyed = client.destroyed
  PROVE  InStep'
BY DEF InStep

LEMMA SessionInStep ==
  ASSUME TypeOK, InStep, NEW s \in Sessions, SessionStep(s)
  PROVE  InStep'
<1>0. client \in ClientSet /\ link \in [Sessions -> LinkSet] /\ asked \in [Sessions -> Seq(Commands)]
  BY DEF TypeOK
<1>1. CASE ShellOpens(s)
  <2>1. SUFFICES ASSUME ~slipped', client'.connected, ~client'.destroyed
                 PROVE  \A r \in Sessions : asked'[r] # <<>> => r = client'.shell /\ asked'[r] = <<current'>>
    BY DEF InStep
  <2>2. /\ ~slipped /\ current = None /\ asked' = asked
        /\ client'.connected = client.connected /\ client'.destroyed = client.destroyed
    BY <1>0, <1>1, <2>1 DEF ShellOpens, ClientSet
  <2>3. \A r \in Sessions : asked[r] = <<>>
    BY <2>1, <2>2, NothingOwed DEF InStep, OwesOne
  <2>4. QED
    BY <2>2, <2>3
<1>2. CASE ShellFails(s) \/ ConnectTimeout(s)
  <2>1. client' = Refused(client, s) /\ slipped' = slipped /\ UNCHANGED <<current, asked>>
    BY <1>2 DEF ShellFails, ConnectTimeout
  <2>2. QED
    BY <1>0, <2>1, SameFields, InStepKept
<1>3. CASE LoginFails(s)
  <2>1. PICK auth \in BOOLEAN : client' = Refused([client EXCEPT !.fatal = @ \/ auth], s)
    BY <1>3 DEF LoginFails
  <2> DEFINE c == [client EXCEPT !.fatal = @ \/ auth]
  <2>2. /\ c \in ClientSet /\ c.connected = client.connected /\ c.destroyed = client.destroyed
        /\ c.shell = client.shell
    BY <1>0 DEF ClientSet
  <2>3. client' = Refused(c, s) /\ slipped' = slipped /\ UNCHANGED <<current, asked>>
    BY <1>3, <2>1 DEF LoginFails
  <2> HIDE DEF c
  <2>4. QED
    BY <2>2, <2>3, SameFields, InStepKept
<1>4. CASE Banner(s)
  <2>1. CASE client.connected \/ client.destroyed
    <3>1. /\ client' = [client EXCEPT !.banner = TRUE]
          /\ slipped' = slipped /\ UNCHANGED <<current, asked>>
      BY <1>4, <2>1 DEF Banner
    <3>2. QED
      BY <1>0, <3>1, InStepKept DEF ClientSet
  <2>2. CASE ~(client.connected \/ client.destroyed)
    <3>1. slipped' = (\E r \in Sessions : asked[r] # <<>>) /\ asked' = asked
      BY <1>4, <2>2 DEF Banner
    <3>2. QED
      BY <3>1 DEF InStep
  <2>3. QED
    BY <2>1, <2>2
<1>5. CASE ChannelCloses(s)
  <2>1. PICK l : RejectAllPending(Scheduled(Down(client)), l)
    BY <1>5 DEF ChannelCloses
  <2>2. /\ Scheduled(Down(client)) \in ClientSet
        /\ ~Scheduled(Down(client)).connected
    <3>1. Down(client) \in ClientSet /\ ~Down(client).connected
      BY <1>0, ClientTypes DEF Down, ClientSet
    <3>2. QED
      BY <3>1, ClientTypes, SameFields
  <2>3. OwesOne(Scheduled(Down(client)), None, asked')
    BY <2>2 DEF OwesOne
  <2>4. QED
    BY <2>1, <2>2, <2>3, BecomesInStep DEF RejectAllPending
<1>6. CASE SshCloses(s)
  <2> DEFINE d == [Down(client) EXCEPT !.keepalive = FALSE]
             c == Refused(d, s)
  <2>1. d \in ClientSet /\ ~d.connected
    BY <1>0 DEF Down, ClientSet
  <2>2. /\ c \in ClientSet /\ ~c.connected
    BY <2>1, ClientTypes, SameFields
  <2>3. PICK l : RejectAllPending(IF client.connected THEN Scheduled(c) ELSE c, l)
    BY <1>6 DEF SshCloses
  <2> HIDE DEF c, d
  <2>4. Scheduled(c) \in ClientSet /\ ~Scheduled(c).connected
    BY <2>2, ClientTypes, SameFields
  <2>5. PICK e \in ClientSet : ~e.connected /\ RejectAllPending(e, l)
    BY <2>2, <2>3, <2>4
  <2>6. OwesOne(e, None, asked')
    BY <2>5 DEF OwesOne
  <2>7. QED
    BY <2>5, <2>6, BecomesInStep DEF RejectAllPending
<1>7. CASE Answer(s)
  <2> DEFINE owed == [asked EXCEPT ![s] = Tail(@)]
  <2>1. asked[s] # <<>> /\ slipped' = slipped
    BY <1>7 DEF Answer
  <2>2. CASE slipped
    BY <2>1, <2>2 DEF InStep
  <2>3. CASE ~slipped
    <3>1. owed \in [Sessions -> Seq(Commands)]
      BY <1>0, <2>1
    <3>2. ASSUME client.connected, ~client.destroyed, NEW r \in Sessions PROVE owed[r] = <<>>
      <4>1. CASE r = s
        <5>1. asked[s] = <<current>>
          BY <2>1, <2>3, <3>2 DEF InStep
        <5>2. QED
          BY <1>0, <4>1, <5>1
      <4>2. CASE r # s
        BY <1>0, <2>1, <2>3, <3>2, <4>2 DEF InStep
      <4>3. QED
        BY <4>1, <4>2
    <3>3. CASE client.banner /\ current # None
      <4>1. PICK failed \in BOOLEAN : Completes(owed, failed)
        BY <1>7, <3>3 DEF Answer
      <4> HIDE DEF owed
      <4>2. PICK c \in ClientSet, f \in BOOLEAN :
              /\ c.connected = client.connected /\ c.destroyed = client.destroyed
              /\ Processed(c, queue, owed, f)
        BY <4>1, CompletesFacts
      <4>3. queue \in Seq(Commands)
        BY DEF TypeOK
      <4>4. QED
        BY <3>1, <3>2, <4>2, <4>3, ProcessedInStep
    <3>4. CASE ~(client.banner /\ current # None)
      <4>1. asked' = owed /\ UNCHANGED <<client, current>>
        BY <1>7, <3>4 DEF Answer
      <4> HIDE DEF owed
      <4>2. QED
        BY <3>2, <4>1 DEF InStep
    <3>5. QED
      BY <3>3, <3>4
  <2>4. QED
    BY <2>2, <2>3
<1>8. CASE GreetingEnds(s)
  <2>1. CASE client.banner /\ current # None
    BY <1>8, <2>1 DEF GreetingEnds, InStep
  <2>2. CASE ~(client.banner /\ current # None)
    BY <1>8, <2>2, InStepKept DEF GreetingEnds
  <2>3. QED
    BY <2>1, <2>2
<1>9. QED
  BY <1>1, <1>2, <1>3, <1>4, <1>5, <1>6, <1>7, <1>8 DEF SessionStep

LEMMA CommandInStep ==
  ASSUME TypeOK, InStep, NEW k \in Commands, Execute(k) \/ TimesOut(k)
  PROVE  InStep'
<1>0. /\ client \in ClientSet /\ asked \in [Sessions -> Seq(Commands)] /\ queue \in Seq(Commands)
  BY DEF TypeOK
<1>1. CASE slipped'
  BY <1>1 DEF InStep
<1>2. CASE ~slipped' /\ Execute(k)
  <2>1. ~slipped
    BY <1>2 DEF Execute
  <2>2. CASE current = None
    <3>1. Processed(client, Append(queue, k), asked, FALSE)
      BY <1>2, <2>2 DEF Execute
    <3>2. Append(queue, k) \in Seq(Commands)
      BY <1>0
    <3>3. client.connected /\ ~client.destroyed => \A s \in Sessions : asked[s] = <<>>
      BY <2>1, <2>2, NothingOwed DEF InStep, OwesOne
    <3>4. QED
      BY <1>0, <3>1, <3>2, <3>3, ProcessedInStep
  <2>3. CASE current # None
    <3>1. Becomes(client, link, Append(queue, k), current, FALSE) /\ asked' = asked
      BY <1>2, <2>3 DEF Execute
    <3>2. OwesOne(client, current, asked')
      BY <2>1, <3>1 DEF InStep, OwesOne
    <3>3. QED
      BY <1>0, <3>1, <3>2, BecomesInStep
  <2>4. QED
    BY <2>2, <2>3
<1>3. CASE ~slipped' /\ TimesOut(k)
  <2>1. ~slipped /\ k # current
    BY <1>3 DEF TimesOut
  <2>2. asked' = asked /\ \E q : Becomes(client, link, q, current, k = Whoami)
    BY <1>3, <2>1 DEF TimesOut
  <2>3. OwesOne(client, current, asked')
    BY <2>1, <2>2 DEF InStep, OwesOne
  <2>4. QED
    BY <1>0, <2>2, <2>3, BecomesInStep
<1>4. QED
  BY <1>1, <1>2, <1>3

LEMMA ClientInStep ==
  ASSUME TypeOK, InStep, Turn \/ TimerFires \/ Destroy \/ DestroyEnds \/ KeepaliveTick
  PROVE  InStep'
<1>0. client \in ClientSet
  BY DEF TypeOK
<1>1. CASE NoLogin \/ TimerFires \/ \E s \in Sessions : LoginTurn(s)
  <2>1. /\ client'.connected = client.connected /\ client'.destroyed = client.destroyed
        /\ client'.shell = client.shell /\ slipped' = slipped /\ UNCHANGED <<current, asked>>
    BY <1>0, <1>1 DEF NoLogin, TimerFires, LoginTurn, ClientSet
  <2>2. QED
    BY <2>1, InStepKept
<1>2. CASE Destroy
  BY <1>2 DEF Destroy, InStep
<1>3. CASE DestroyEnds
  <2>1. client'.destroyed
    BY <1>0, <1>3 DEF DestroyEnds, ClientSet
  <2>2. QED
    BY <2>1 DEF InStep
<1>4. CASE KeepaliveTick
  <2>1. Becomes(client, link, queue, current, TRUE) /\ asked' = asked /\ slipped' = slipped
    BY <1>4 DEF KeepaliveTick
  <2>2. CASE slipped
    BY <2>1, <2>2 DEF InStep
  <2>3. CASE ~slipped
    <3>1. OwesOne(client, current, asked')
      BY <2>1, <2>3 DEF InStep, OwesOne
    <3>2. QED
      BY <1>0, <2>1, <3>1, BecomesInStep
  <2>4. QED
    BY <2>2, <2>3
<1>5. QED
  BY <1>1, <1>2, <1>3, <1>4 DEF Turn

LEMMA InStepNext == TypeOK /\ InStep /\ [Next]_vars => InStep'
<1> SUFFICES ASSUME TypeOK, InStep, [Next]_vars PROVE InStep'
  OBVIOUS
<1>1. CASE UNCHANGED vars
  BY <1>1 DEF vars, InStep
<1>2. CASE Next
  BY <1>2, ClientInStep, CommandInStep, SessionInStep DEF Next, Commands
<1>3. QED
  BY <1>1, <1>2

\* As long as no command left the wire before its own answer, also to a line that follows the
\* welcome, the only answer any server owes is the one to the current command, through reconnects,
\* late sessions and refused shells.
THEOREM AnswersReachTheirCommand == Spec => []InStep
<1>1. Init => InStep
  BY DEF Init, InStep
<1>2. QED
  BY <1>1, InStepNext, SshTypes, PTL DEF Spec

================================================================================
