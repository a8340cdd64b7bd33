------------------------------ MODULE Gateway ------------------------------
(***************************************************************************)
(* The connection of platform/qqbot to the gateway of QQ: a read loop and  *)
(* a heartbeat loop for each connection that came up, and the reconnect    *)
(* loop that any of them starts. The loops share wsConn, sessionID,        *)
(* lastSeq and heartbeatOK; a heartbeat loop is not tied to its connection *)
(* and lives on when the read loop reports the break. The gateway numbers  *)
(* the events of a session and sends those after lastSeq again to a client *)
(* that resumes it.                                                        *)
(***************************************************************************)
EXTENDS Naturals, Sequences

CONSTANTS
  MaxConn,      \* bound on the connections that are opened, the first included
  MaxAttempts,  \* maxReconnectAttempts
  MaxSeq,       \* bound on the numbers of a session; READY is number 1
  MaxQueue,     \* bound on the frames on their way
  MaxNotice     \* bound on the frames the gateway sends of its own accord

ASSUME GatewayAssumption ==
  /\ MaxConn \in Nat \ {0} /\ MaxSeq \in Nat \ {0}
  /\ MaxAttempts \in Nat \ {0} /\ MaxQueue \in Nat /\ MaxNotice \in Nat

VARIABLES
  wsConn,    \* 0 for nil
  link,      \* each connection: "none", "open", "closed" by us or "lost"
  sessionID, \* named after the connection that identified, 0 for ""
  lastSeq, heartbeatOK, reconnecting,
  listener,  \* the readLoop that came with each connection
  beats,     \* the heartbeatLoops; they are all alike
  recon,     \* reconnectLoop: where it is, its attempt and its connection
  stopped,   \* Stop was called, ctx is done
  gaveUp,    \* reconnectLoop ran out of attempts
  server,    \* the gateway: its session, the last number, may it be resumed
  frames,    \* on their way to us
  handled,   \* numbers of that session whose event went through handleDispatch
  notices

gatewayVars == <<wsConn, link, sessionID, lastSeq, heartbeatOK, reconnecting, listener,
                 beats, recon, stopped, gaveUp, server, frames, handled, notices>>

Link == 1..MaxConn
GatewayEvent == [session : Link, seq : 2..MaxSeq]
NoEvent == [session |-> 0, seq |-> 0]
Notice == {"beat", "reconnect", "invalid", "resumable"}
Frame == [op : {"event"}, event : GatewayEvent] \union [op : {"ack"} \union Notice]
Gone == [pc |-> "gone", link |-> 0, event |-> NoEvent]

GatewayTypeOK ==
  /\ wsConn \in 0..MaxConn
  /\ link \in [Link -> {"none", "open", "closed", "lost"}]
  /\ sessionID \in 0..MaxConn
  /\ lastSeq \in 0..MaxSeq
  /\ heartbeatOK \in BOOLEAN /\ reconnecting \in BOOLEAN
  /\ listener \in [Link -> [pc : {"read", "handle", "gone"}, link : 0..MaxConn,
                            event : GatewayEvent \union {NoEvent}]]
  /\ beats \in 0..MaxConn
  /\ recon \in [pc : {"new", "no", "close", "dial", "auth", "reset", "failed"},
                attempt : 0..MaxAttempts, link : 0..MaxConn]
  /\ stopped \in BOOLEAN /\ gaveUp \in BOOLEAN
  /\ server \in [session : 0..MaxConn, seq : 0..MaxSeq, resumable : BOOLEAN, link : 0..MaxConn]
  /\ \A c \in Link : \A i \in DOMAIN frames[c] : frames[c][i] \in Frame
  /\ handled \subseteq 2..MaxSeq
  /\ notices \in 0..MaxNotice

GatewayInit ==
  /\ wsConn = 0
  /\ link = [c \in Link |-> "none"]
  /\ sessionID = 0 /\ lastSeq = 0
  /\ heartbeatOK = FALSE /\ reconnecting = FALSE
  /\ listener = [c \in Link |-> Gone]
  /\ beats = 0
  /\ recon = [pc |-> "new", attempt |-> 0, link |-> 0]
  /\ stopped = FALSE /\ gaveUp = FALSE
  /\ server = [session |-> 0, seq |-> 0, resumable |-> FALSE, link |-> 0]
  /\ frames = [c \in Link |-> <<>>]
  /\ handled = {}
  /\ notices = 0

-----------------------------------------------------------------------------
(* What several steps share.                                               *)

\* triggerReconnect: the first one starts the loop, the others are ignored.
TriggerReconnect ==
  IF reconnecting
    THEN UNCHANGED <<reconnecting, recon>>
    ELSE /\ reconnecting' = TRUE
         /\ recon' = [pc |-> "close", attempt |-> 1, link |-> 0]

\* sendHeartbeat and the answer of the gateway, if it comes. A heartbeat goes
\* to wsConn, whichever loop sends it.
Heartbeat(queues) ==
  {queues} \union
    IF wsConn # 0 /\ link[wsConn] = "open" /\ Len(queues[wsConn]) < MaxQueue
      THEN {[queues EXCEPT ![wsConn] = Append(@, [op |-> "ack"])]}
      ELSE {}

\* Mutant of WaitForReady: the number of the session before is kept.
WaitForReadyKeepsNumber(c) ==
  /\ sessionID' = c
  /\ UNCHANGED lastSeq
  /\ server' = [session |-> c, seq |-> 1, resumable |-> TRUE, link |-> c]
  /\ handled' = {}

\* waitForReady: a session of its own, its first number and connection c.
WaitForReady(c) ==
  /\ sessionID' = c
  /\ lastSeq' = 1
  /\ server' = [session |-> c, seq |-> 1, resumable |-> TRUE, link |-> c]
  /\ handled' = {}

\* The top of readLoop: it reads whatever wsConn is by now.
ReadLoop ==
  IF stopped \/ wsConn = 0 THEN Gone ELSE [pc |-> "read", link |-> wsConn, event |-> NoEvent]

\* A connection we close; nothing more is read from it.
CloseConn(c) ==
  /\ link' = [d \in Link |-> IF d = c THEN "closed" ELSE link[d]]
  /\ frames' = [d \in Link |-> IF d = c THEN <<>> ELSE frames[d]]

\* Start and connectGateway: token, address, hello, identify, READY. No other
\* loop runs yet; a Start that fails leaves the platform out.
Start ==
  /\ recon.pc = "new"
  /\ wsConn' = 1
  /\ link' = [link EXCEPT ![1] = "open"]
  /\ heartbeatOK' = TRUE
  /\ WaitForReady(1)
  /\ listener' = [listener EXCEPT ![1] = [pc |-> "read", link |-> 1, event |-> NoEvent]]
  /\ beats' = 1
  /\ recon' = [recon EXCEPT !.pc = "no"]
  /\ UNCHANGED <<reconnecting, stopped, gaveUp, frames, notices>>

\* Stop. wsConn keeps the closed connection.
Stop ==
  /\ recon.pc # "new" /\ ~stopped
  /\ stopped' = TRUE
  /\ CloseConn(wsConn)
  /\ UNCHANGED <<wsConn, sessionID, lastSeq, heartbeatOK, reconnecting, listener, beats,
                 recon, gaveUp, server, handled, notices>>

-----------------------------------------------------------------------------
(* readLoop.                                                               *)

\* ReadJSON fails.
ReadError(r) ==
  LET c == listener[r].link IN
  /\ listener[r].pc = "read"
  /\ link[c] = "closed" \/ (link[c] = "lost" /\ frames[c] = <<>>)
  /\ listener' = [listener EXCEPT ![r] = Gone]
  /\ IF stopped THEN UNCHANGED <<reconnecting, recon>> ELSE TriggerReconnect
  /\ UNCHANGED <<wsConn, link, sessionID, lastSeq, heartbeatOK, beats, stopped, gaveUp,
                 server, frames, handled, notices>>

\* A frame. The number is kept before the event is handled; ReadJSON and Store
\* are one step, a reconnect takes a second at least.
ReadFrame(r) ==
  LET c == listener[r].link
      frame == Head(frames[c])
      rest == [frames EXCEPT ![c] = Tail(@)] IN
  /\ listener[r].pc = "read"
  /\ link[c] \in {"open", "lost"} /\ frames[c] # <<>>
  /\ CASE frame.op = "event" ->
            /\ lastSeq' = frame.event.seq
            /\ listener' = [listener EXCEPT ![r].pc = "handle", ![r].event = frame.event]
            /\ frames' = rest
            /\ UNCHANGED <<sessionID, heartbeatOK, reconnecting, recon>>
       [] frame.op = "beat" ->
            /\ frames' \in Heartbeat(rest)
            /\ listener' = [listener EXCEPT ![r] = ReadLoop]
            /\ UNCHANGED <<sessionID, lastSeq, heartbeatOK, reconnecting, recon>>
       [] frame.op = "ack" ->
            /\ heartbeatOK' = TRUE
            /\ frames' = rest
            /\ listener' = [listener EXCEPT ![r] = ReadLoop]
            /\ UNCHANGED <<sessionID, lastSeq, reconnecting, recon>>
       [] frame.op \in {"reconnect", "invalid", "resumable"} ->
            /\ sessionID' = IF frame.op = "invalid" THEN 0 ELSE sessionID
            /\ TriggerReconnect
            /\ frames' = rest
            /\ listener' = [listener EXCEPT ![r] = Gone]
            /\ UNCHANGED <<lastSeq, heartbeatOK>>
  /\ UNCHANGED <<wsConn, link, beats, stopped, gaveUp, server, handled, notices>>

\* handleDispatch returns. Downloads and the handler of the engine take their
\* time, the read loop waits for them.
Handled(r) ==
  LET event == listener[r].event IN
  /\ listener[r].pc = "handle"
  /\ handled' = IF event.session = server.session THEN handled \union {event.seq} ELSE handled
  /\ listener' = [listener EXCEPT ![r] = ReadLoop]
  /\ UNCHANGED <<wsConn, link, sessionID, lastSeq, heartbeatOK, reconnecting, beats, recon,
                 stopped, gaveUp, server, frames, notices>>

-----------------------------------------------------------------------------
(* heartbeatLoop.                                                          *)

LoopEnds ==
  /\ stopped /\ beats > 0
  /\ beats' = beats - 1
  /\ UNCHANGED <<wsConn, link, sessionID, lastSeq, heartbeatOK, reconnecting, listener,
                 recon, stopped, gaveUp, server, frames, handled, notices>>

\* A tick with no answer to the last heartbeat.
TickUnanswered ==
  /\ ~stopped /\ beats > 0 /\ ~heartbeatOK
  /\ TriggerReconnect
  /\ beats' = beats - 1
  /\ UNCHANGED <<wsConn, link, sessionID, lastSeq, heartbeatOK, listener, stopped, gaveUp,
                 server, frames, handled, notices>>

Tick ==
  /\ ~stopped /\ beats > 0 /\ heartbeatOK
  /\ heartbeatOK' = FALSE
  /\ frames' \in Heartbeat(frames)
  /\ UNCHANGED <<wsConn, link, sessionID, lastSeq, reconnecting, listener, beats, recon,
                 stopped, gaveUp, server, handled, notices>>

-----------------------------------------------------------------------------
(* reconnectLoop.                                                          *)

\* The context is looked at before the attempt waits, not after.
NextAttempt(n) ==
  recon' = [recon EXCEPT !.pc = IF stopped THEN "failed" ELSE "dial", !.attempt = n, !.link = 0]

CloseOld ==
  /\ recon.pc = "close"
  /\ CloseConn(wsConn)
  /\ wsConn' = 0
  /\ NextAttempt(1)
  /\ UNCHANGED <<sessionID, lastSeq, heartbeatOK, reconnecting, listener, beats, stopped,
                 gaveUp, server, handled, notices>>

\* Token, address, dialling and waitForHello go well.
Dial(c) ==
  /\ recon.pc = "dial"
  /\ link[c] = "none" /\ \A d \in 1..(c - 1) : link[d] # "none"
  /\ link' = [link EXCEPT ![c] = "open"]
  /\ wsConn' = c
  /\ heartbeatOK' = TRUE
  /\ recon' = [recon EXCEPT !.pc = "auth", !.link = c]
  /\ UNCHANGED <<sessionID, lastSeq, reconnecting, listener, beats, stopped, gaveUp, server,
                 frames, handled, notices>>

\* Any step of an attempt fails. A connection that was opened is closed, and
\* wsConn keeps it.
AttemptFails ==
  /\ recon.pc \in {"dial", "auth"}
  /\ CloseConn(recon.link)
  /\ IF recon.attempt < MaxAttempts
       THEN NextAttempt(recon.attempt + 1) /\ UNCHANGED gaveUp
       ELSE /\ recon' = [recon EXCEPT !.pc = "failed", !.link = 0]
            /\ gaveUp' = TRUE
  /\ UNCHANGED <<wsConn, sessionID, lastSeq, heartbeatOK, reconnecting, listener, beats,
                 stopped, server, handled, notices>>

\* The new read loop; the first tick of the new heartbeat loop comes an interval
\* later, so the loop counts from ResetReconnecting on.
StartLoops ==
  /\ listener' = [listener EXCEPT ![recon.link] = ReadLoop]
  /\ recon' = [recon EXCEPT !.pc = "reset"]

\* sendIdentify and waitForReady, with no session to resume.
Identify ==
  /\ recon.pc = "auth" /\ link[recon.link] = "open"
  /\ sessionID = 0
  /\ WaitForReady(recon.link)
  /\ StartLoops
  /\ UNCHANGED <<wsConn, link, heartbeatOK, reconnecting, beats, stopped, gaveUp, frames,
                 notices>>

\* The events after number n of the session.
After(n) ==
  [i \in 1..(server.seq - n) |->
    [op |-> "event", event |-> [session |-> server.session, seq |-> n + i]]]

\* sendResume: nobody waits for the answer, it comes to the read loop.
Resume ==
  LET c == recon.link
      same == server.session = sessionID /\ server.resumable IN
  /\ recon.pc = "auth" /\ link[c] = "open"
  /\ sessionID # 0
  /\ \/ /\ same
        /\ server' = [server EXCEPT !.link = c]
        /\ frames' = [frames EXCEPT ![c] = @ \o After(lastSeq)]
     \/ /\ ~same
        /\ UNCHANGED server
        /\ frames' = [frames EXCEPT ![c] = Append(@, [op |-> "invalid"])]
  /\ StartLoops
  /\ UNCHANGED <<wsConn, link, sessionID, lastSeq, heartbeatOK, reconnecting, beats,
                 stopped, gaveUp, handled, notices>>

\* The write of sendResume fails: the session is given up for an identify.
ResumeFails ==
  /\ recon.pc = "auth"
  /\ sessionID # 0
  /\ sessionID' = 0
  /\ UNCHANGED <<wsConn, link, lastSeq, heartbeatOK, reconnecting, listener, beats, recon,
                 stopped, gaveUp, server, frames, handled, notices>>

\* Mutant of ResetReconnecting: the loop ends without the reset.
LeaveReconnecting ==
  /\ recon.pc \in {"reset", "failed"}
  /\ beats' = IF recon.pc = "reset" THEN beats + 1 ELSE beats
  /\ recon' = [pc |-> "no", attempt |-> 0, link |-> 0]
  /\ UNCHANGED <<wsConn, link, sessionID, lastSeq, heartbeatOK, reconnecting, listener,
                 stopped, gaveUp, server, frames, handled, notices>>

\* The deferred reset, after the new loops were started.
ResetReconnecting ==
  /\ recon.pc \in {"reset", "failed"}
  /\ reconnecting' = FALSE
  /\ beats' = IF recon.pc = "reset" THEN beats + 1 ELSE beats
  /\ recon' = [pc |-> "no", attempt |-> 0, link |-> 0]
  /\ UNCHANGED <<wsConn, link, sessionID, lastSeq, heartbeatOK, listener, stopped, gaveUp,
                 server, frames, handled, notices>>

-----------------------------------------------------------------------------
(* The gateway and the network.                                            *)

SendEvent ==
  LET event == [session |-> server.session, seq |-> server.seq + 1]
      c == server.link IN
  /\ server.session # 0 /\ server.seq < MaxSeq
  /\ server' = [server EXCEPT !.seq = @ + 1]
  /\ frames' = IF link[c] = "open"
                 THEN [frames EXCEPT ![c] = Append(@, [op |-> "event", event |-> event])]
                 ELSE frames
  /\ UNCHANGED <<wsConn, link, sessionID, lastSeq, heartbeatOK, reconnecting, listener,
                 beats, recon, stopped, gaveUp, handled, notices>>

SendNotice(op) ==
  LET c == server.link IN
  /\ notices < MaxNotice
  /\ notices' = notices + 1
  /\ c # 0 /\ link[c] = "open"
  /\ frames' = [frames EXCEPT ![c] = Append(@, [op |-> op])]
  /\ server' = IF op = "invalid" THEN [server EXCEPT !.resumable = FALSE] ELSE server
  /\ UNCHANGED <<wsConn, link, sessionID, lastSeq, heartbeatOK, reconnecting, listener,
                 beats, recon, stopped, gaveUp, handled>>

\* A connection breaks; what is on its way arrives up to some frame.
Break(c) ==
  /\ link[c] = "open"
  /\ link' = [link EXCEPT ![c] = "lost"]
  /\ \E n \in 0..Len(frames[c]) : frames' = [frames EXCEPT ![c] = SubSeq(@, 1, n)]
  /\ UNCHANGED <<wsConn, sessionID, lastSeq, heartbeatOK, reconnecting, listener, beats,
                 recon, stopped, gaveUp, server, handled, notices>>

GatewayNext ==
  \/ Start \/ Stop
  \/ \E r \in Link : ReadError(r) \/ ReadFrame(r) \/ Handled(r)
  \/ LoopEnds \/ TickUnanswered \/ Tick
  \/ CloseOld \/ AttemptFails \/ Identify \/ Resume \/ ResumeFails \/ ResetReconnecting
  \/ \E c \in Link : Dial(c) \/ Break(c)
  \/ SendEvent
  \/ \E op \in Notice : SendNotice(op)

GatewaySpec == GatewayInit /\ [][GatewayNext]_gatewayVars

-----------------------------------------------------------------------------
(* What the gateway connection promises.                                   *)

\* Whatever was lost or answered too late, some loop is left to notice and to
\* reconnect, until Stop or until all attempts failed (triggerReconnect ignores
\* all calls but the first, and the loop that called it ends).
SomeoneWatches ==
  recon.pc # "new" /\ ~stopped /\ ~gaveUp =>
    \/ recon.pc # "no"
    \/ beats > 0
    \/ \E c \in Link : listener[c].pc \in {"read", "handle"}

\* lastSeq never runs ahead of the events that were taken: resuming from it loses
\* no event of the session (lastSeq belongs to the session of sessionID).
ResumeLosesNothing ==
  sessionID # 0 /\ sessionID = server.session =>
    \A n \in 2..lastSeq :
      \/ n \in handled
      \/ \E r \in Link : listener[r].event = [session |-> sessionID, seq |-> n]
=============================================================================
