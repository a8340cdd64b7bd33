------------------------------- MODULE OneBot -------------------------------
(***************************************************************************)
(* The connection of platform/qq to a OneBot server: API calls and events  *)
(* share one WebSocket. callAPI writes a request with an echo number and   *)
(* waits, at most 15 seconds, for readLoop to find the answer with that    *)
(* number; readLoop runs the handler of a message itself, and a handler    *)
(* that replies at once (a command, a busy session) calls callAPI on it.   *)
(***************************************************************************)
EXTENDS Naturals, Sequences, FiniteSets

CONSTANTS
  MaxCall,     \* bound on echoSeq
  MaxMessage,  \* bound on the messages the server sends
  MaxBreak,    \* bound on the breaks of the connection
  Own, User    \* user ids: of the bot itself and of somebody else

ASSUME OneBotAssumption == MaxCall \in Nat \ {0} /\ MaxMessage \in Nat /\ MaxBreak \in Nat

VARIABLES
  wire,         \* the connection: "none", "up", "down" or "closed" by Stop
  incoming,     \* frames on their way to us
  toServer,     \* requests the server has and did not answer
  echoSeq,
  echoCh,       \* the echo numbers readLoop would find a channel for
  call,         \* each call: "free", "waiting", "answered" in its channel, "done", "failed"
  botStarter,   \* Start: "new", "login" or "done"
  botReader,    \* readLoop: "none", "read", "reply", "reconnect" or "gone"
  replying,     \* the call readLoop's handler waits for
  turn,         \* the call a turn waits for, 0 for none
  selfID,       \* Own when it is known
  accepted,     \* messages of each user that reached the handler of the engine
  botCancelled, sent, breaks

onebotVars == <<wire, incoming, toServer, echoSeq, echoCh, call, botStarter, botReader,
                replying, turn, selfID, accepted, botCancelled, sent, breaks>>

Echo == 1..MaxCall
OneBotFrame == [kind : {"answer"}, echo : Echo] \union [kind : {"message"}, user : {Own, User}]

OneBotTypeOK ==
  /\ wire \in {"none", "up", "down", "closed"}
  /\ \A i \in DOMAIN incoming : incoming[i] \in OneBotFrame
  /\ toServer \subseteq Echo
  /\ echoSeq \in 0..MaxCall
  /\ echoCh \subseteq Echo
  /\ call \in [Echo -> {"free", "waiting", "answered", "done", "failed"}]
  /\ botStarter \in {"new", "login", "done"}
  /\ botReader \in {"none", "read", "reply", "reconnect", "gone"}
  /\ replying \in 0..MaxCall /\ turn \in 0..MaxCall
  /\ selfID \in {0, Own}
  /\ botCancelled \in BOOLEAN
  /\ accepted \subseteq {Own, User}
  /\ sent \in 0..MaxMessage /\ breaks \in 0..MaxBreak

OneBotInit ==
  /\ wire = "none" /\ incoming = <<>> /\ toServer = {}
  /\ echoSeq = 0 /\ echoCh = {}
  /\ call = [e \in Echo |-> "free"]
  /\ botStarter = "new" /\ botReader = "none" /\ replying = 0 /\ turn = 0
  /\ selfID = 0 /\ accepted = {}
  /\ botCancelled = FALSE /\ sent = 0 /\ breaks = 0

-----------------------------------------------------------------------------
(* callAPI.                                                                *)

\* The number, the channel and the request; a write that fails takes the channel
\* out of the table again. A broken connection may take a request and lose it.
BeginCall ==
  /\ echoSeq < MaxCall
  /\ echoSeq' = echoSeq + 1
  /\ \/ /\ wire # "up"
        /\ call' = [call EXCEPT ![echoSeq'] = "failed"]
        /\ UNCHANGED <<echoCh, toServer>>
     \/ /\ wire # "closed"
        /\ call' = [call EXCEPT ![echoSeq'] = "waiting"]
        /\ echoCh' = echoCh \union {echoSeq'}
        /\ toServer' = IF wire = "up" THEN toServer \union {echoSeq'} ELSE toServer

\* Mutant of EndCall: a call that gives up stays in the table.
EndCallKeeps(e, outcome) ==
  /\ UNCHANGED echoCh
  /\ call' = [call EXCEPT ![e] = outcome]

\* The deferred Delete.
EndCall(e, outcome) ==
  /\ echoCh' = echoCh \ {e}
  /\ call' = [call EXCEPT ![e] = outcome]

\* The answer, or the timeout, which may be taken although the answer is there.
CallEnds(e) ==
  \/ /\ call[e] = "answered"
     /\ EndCall(e, "done")
  \/ /\ call[e] \in {"waiting", "answered"}
     /\ EndCall(e, "failed")

-----------------------------------------------------------------------------
(* Start and Stop.                                                         *)

\* Dial, then get_login_info, before there is a readLoop.
Connect ==
  /\ botStarter = "new"
  /\ wire' = "up"
  /\ botStarter' = "login"
  /\ echoSeq' = 1
  /\ echoCh' = {1}
  /\ toServer' = {1}
  /\ call' = [call EXCEPT ![1] = "waiting"]
  /\ UNCHANGED <<incoming, botReader, replying, turn, selfID, accepted, botCancelled, sent,
                 breaks>>

\* The id of the bot if the call went well, and readLoop either way.
LoginReturns ==
  /\ botStarter = "login"
  /\ CallEnds(1)
  /\ selfID' = IF call'[1] = "done" THEN Own ELSE 0
  /\ botStarter' = "done"
  /\ botReader' = "read"
  /\ UNCHANGED <<wire, incoming, toServer, echoSeq, replying, turn, accepted, botCancelled,
                 sent, breaks>>

\* Stop closes the connection there is now; a reconnect goes on.
StopOneBot ==
  /\ botStarter = "done" /\ ~botCancelled
  /\ botCancelled' = TRUE
  /\ wire' = IF wire = "up" THEN "closed" ELSE wire
  /\ incoming' = <<>>
  /\ UNCHANGED <<toServer, echoSeq, echoCh, call, botStarter, botReader, replying, turn,
                 selfID, accepted, sent, breaks>>

-----------------------------------------------------------------------------
(* readLoop.                                                               *)

\* An answer goes to the channel its number names, once; others are dropped.
ReadAnswer ==
  LET e == Head(incoming).echo IN
  /\ botReader = "read" /\ ~botCancelled
  /\ incoming # <<>> /\ Head(incoming).kind = "answer"
  /\ incoming' = Tail(incoming)
  /\ IF e \in echoCh
       THEN /\ echoCh' = echoCh \ {e}
            /\ call' = [call EXCEPT ![e] = "answered"]
       ELSE UNCHANGED <<echoCh, call>>
  /\ UNCHANGED <<wire, toServer, echoSeq, botStarter, botReader, replying, turn, selfID,
                 accepted, botCancelled, sent, breaks>>

\* handleMessage: nothing of the bot's own, nothing old, repeated, forbidden or
\* empty. The handler of the engine replies at once or leaves that to a turn.
ReadMessage ==
  LET user == Head(incoming).user IN
  /\ botReader = "read" /\ ~botCancelled
  /\ incoming # <<>> /\ Head(incoming).kind = "message"
  /\ incoming' = Tail(incoming)
  /\ \/ UNCHANGED <<echoSeq, echoCh, toServer, call, botReader, replying, accepted>>
     \/ /\ user # selfID
        /\ accepted' = accepted \union {user}
        /\ \/ UNCHANGED <<echoSeq, echoCh, toServer, call, botReader, replying>>
           \/ /\ BeginCall
              /\ IF call'[echoSeq'] = "waiting"
                   THEN botReader' = "reply" /\ replying' = echoSeq'
                   ELSE UNCHANGED <<botReader, replying>>
  /\ UNCHANGED <<wire, botStarter, turn, selfID, botCancelled, sent, breaks>>

\* The reply of the handler returns, and readLoop reads on.
ReplyReturns ==
  /\ botReader = "reply"
  /\ CallEnds(replying)
  /\ botReader' = "read"
  /\ replying' = 0
  /\ UNCHANGED <<wire, incoming, toServer, echoSeq, botStarter, turn, selfID, accepted,
                 botCancelled, sent, breaks>>

\* ReadMessage fails: the end after Stop, reconnect otherwise.
OneBotReadError ==
  /\ botReader = "read"
  /\ wire \in {"down", "closed"} /\ incoming = <<>>
  /\ botReader' = IF botCancelled THEN "gone" ELSE "reconnect"
  /\ UNCHANGED <<wire, incoming, toServer, echoSeq, echoCh, call, botStarter, replying,
                 turn, selfID, accepted, botCancelled, sent, breaks>>

\* reconnect, which does not know of Stop: 30 attempts and then readLoop again.
Reconnect ==
  /\ botReader = "reconnect"
  /\ \/ wire' = "up"
     \/ UNCHANGED wire
  /\ botReader' = "read"
  /\ UNCHANGED <<incoming, toServer, echoSeq, echoCh, call, botStarter, replying, turn,
                 selfID, accepted, botCancelled, sent, breaks>>

\* The loop looks at the context before it reads.
ReadLoopEnds ==
  /\ botReader = "read" /\ botCancelled
  /\ botReader' = "gone"
  /\ UNCHANGED <<wire, incoming, toServer, echoSeq, echoCh, call, botStarter, replying,
                 turn, selfID, accepted, botCancelled, sent, breaks>>

-----------------------------------------------------------------------------
(* A turn that sends, the server and the network.                          *)

TurnSends ==
  /\ botStarter = "done" /\ turn = 0
  /\ BeginCall
  /\ turn' = IF call'[echoSeq'] = "waiting" THEN echoSeq' ELSE 0
  /\ UNCHANGED <<wire, incoming, botStarter, botReader, replying, selfID, accepted,
                 botCancelled, sent, breaks>>

TurnReturns ==
  /\ turn # 0
  /\ CallEnds(turn)
  /\ turn' = 0
  /\ UNCHANGED <<wire, incoming, toServer, echoSeq, botStarter, botReader, replying, selfID,
                 accepted, botCancelled, sent, breaks>>

ServerAnswers(e) ==
  /\ e \in toServer /\ wire = "up"
  /\ toServer' = toServer \ {e}
  /\ incoming' = Append(incoming, [kind |-> "answer", echo |-> e])
  /\ UNCHANGED <<wire, echoSeq, echoCh, call, botStarter, botReader, replying, turn, selfID,
                 accepted, botCancelled, sent, breaks>>

ServerSends(user) ==
  /\ wire = "up" /\ sent < MaxMessage
  /\ sent' = sent + 1
  /\ incoming' = Append(incoming, [kind |-> "message", user |-> user])
  /\ UNCHANGED <<wire, toServer, echoSeq, echoCh, call, botStarter, botReader, replying,
                 turn, selfID, accepted, botCancelled, breaks>>

\* What is on its way is lost, and the server forgets what it was asked.
Disconnect ==
  /\ wire = "up" /\ breaks < MaxBreak
  /\ breaks' = breaks + 1
  /\ wire' = "down"
  /\ incoming' = <<>>
  /\ toServer' = {}
  /\ UNCHANGED <<echoSeq, echoCh, call, botStarter, botReader, replying, turn, selfID,
                 accepted, botCancelled, sent>>

OneBotNext ==
  \/ Connect \/ LoginReturns \/ StopOneBot
  \/ ReadAnswer \/ ReadMessage \/ ReplyReturns \/ OneBotReadError \/ Reconnect \/ ReadLoopEnds
  \/ TurnSends \/ TurnReturns
  \/ \E e \in Echo : ServerAnswers(e)
  \/ \E user \in {Own, User} : ServerSends(user)
  \/ Disconnect

OneBotSpec == OneBotInit /\ [][OneBotNext]_onebotVars

-----------------------------------------------------------------------------
(* What the connection promises.                                           *)

\* The table holds the numbers of the calls that wait and no others, through
\* late answers, timeouts and breaks: readLoop puts one answer at most into a
\* channel that has room for one, so it never blocks on a caller that left.
EchoTableIsExact == echoCh = {e \in Echo : call[e] = "waiting"}
=============================================================================
