------------------------------ MODULE QQProofs ------------------------------
(***************************************************************************)
(* The platforms of QQ, for any number of calls, messages, senders, events *)
(* and tokens.                                                             *)
(***************************************************************************)
EXTENDS OneBot, QQBotSender, Gateway, SeqItems, TLAPS

-----------------------------------------------------------------------------
(* platform/qq/qq.go: the table of echo numbers.

   The table of echo numbers of OneBot is exact, for any number of calls,
   messages and breaks of the connection.

   A number is used once: the numbers above echoSeq belong to no call yet.
   The call of Start comes first, since nothing reads or sends before
   readLoop runs; and readLoop and a turn wait for calls that exist. *)

\* Calls are numbered in order, and Start makes the first.
CallsOK ==
  /\ \A e \in Echo : e > echoSeq => call[e] = "free"
  /\ botStarter = "new" => echoSeq = 0
  /\ botStarter # "done" => botReader = "none"
  /\ botReader = "reply" => replying \in Echo

USE OneBotAssumption

EchoInv ==
  /\ OneBotTypeOK
  /\ incoming \in Seq(OneBotFrame)
  /\ CallsOK
  /\ EchoTableIsExact

\* The part of it that calls change.
CallTypeOK ==
  /\ echoSeq \in 0..MaxCall
  /\ call \in [Echo -> {"free", "waiting", "answered", "done", "failed"}]
  /\ toServer \subseteq Echo
  /\ \A e \in Echo : e > echoSeq => call[e] = "free"

LEMMA CallTyped == ASSUME EchoInv PROVE CallTypeOK
BY DEF EchoInv, OneBotTypeOK, CallsOK, CallTypeOK

\* A new call has a number of its own, and waits exactly when it is in the table.
LEMMA BeginCallKeeps ==
  ASSUME EchoInv, BeginCall
  PROVE  CallTypeOK' /\ EchoTableIsExact' /\ echoSeq' \in Echo
<1>1. echoSeq' = echoSeq + 1 /\ echoSeq' \in Echo /\ call[echoSeq'] = "free"
  BY CallTyped DEF BeginCall, CallTypeOK, Echo
<1>2. echoSeq' \in 0..MaxCall /\ \A e \in Echo : e > echoSeq' => e > echoSeq /\ e # echoSeq'
  BY <1>1, CallTyped DEF CallTypeOK, Echo
<1>3. CASE call' = [call EXCEPT ![echoSeq'] = "failed"] /\ UNCHANGED <<echoCh, toServer>>
  <2>1. CallTypeOK'
    BY <1>1, <1>2, <1>3, CallTyped DEF CallTypeOK
  <2>2. EchoTableIsExact'
    BY <1>1, <1>3, CallTyped DEF CallTypeOK, EchoInv, EchoTableIsExact
  <2>. QED BY <1>1, <2>1, <2>2
<1>4. CASE /\ call' = [call EXCEPT ![echoSeq'] = "waiting"]
           /\ echoCh' = echoCh \union {echoSeq'}
           /\ toServer' = IF wire = "up" THEN toServer \union {echoSeq'} ELSE toServer
  <2>1. CallTypeOK'
    BY <1>1, <1>2, <1>4, CallTyped DEF CallTypeOK
  <2>2. EchoTableIsExact'
    BY <1>1, <1>4, CallTyped DEF CallTypeOK, EchoInv, EchoTableIsExact
  <2>. QED BY <1>1, <2>1, <2>2
<1>. QED BY <1>3, <1>4 DEF BeginCall

\* A call that ends, with its answer or without, leaves the table.
LEMMA CallEndsKeeps ==
  ASSUME EchoInv, NEW e \in Echo, CallEnds(e), UNCHANGED <<echoSeq, toServer>>
  PROVE  CallTypeOK' /\ EchoTableIsExact'
<1>1. PICK outcome \in {"done", "failed"} : call[e] # "free" /\ EndCall(e, outcome)
  BY DEF CallEnds
<1>2. CallTypeOK'
  BY <1>1, CallTyped DEF CallTypeOK, EndCall
<1>3. EchoTableIsExact'
  BY <1>1, CallTyped DEF CallTypeOK, EndCall, EchoInv, EchoTableIsExact
<1>. QED BY <1>2, <1>3

\* Steps that begin and end no call.
LEMMA CallsStay ==
  ASSUME EchoInv, UNCHANGED <<echoSeq, echoCh, call>>, toServer' \subseteq Echo
  PROVE  CallTypeOK' /\ EchoTableIsExact'
BY CallTyped DEF CallTypeOK, EchoInv, EchoTableIsExact

\* Frames come and go at the ends of a sequence of frames.
LEMMA FramesTyped ==
  ASSUME NEW s \in Seq(OneBotFrame)
  PROVE  \A i \in DOMAIN s : s[i] \in OneBotFrame
BY ElementOfSeq, LenProperties

LEMMA TakenFrame ==
  ASSUME EchoInv, incoming # <<>>
  PROVE  Head(incoming) \in OneBotFrame /\ Tail(incoming) \in Seq(OneBotFrame)
BY HeadTailProperties DEF EchoInv

LEMMA ReadKeeps ==
  ASSUME EchoInv, ReadAnswer \/ ReadMessage
  PROVE  EchoInv'
<1>1. Head(incoming) \in OneBotFrame /\ incoming' \in Seq(OneBotFrame) /\ botReader = "read"
  BY TakenFrame DEF ReadAnswer, ReadMessage
<1>2. \A i \in DOMAIN incoming' : incoming'[i] \in OneBotFrame
  BY <1>1, FramesTyped
<1>3. botStarter = "done"
  BY <1>1 DEF EchoInv, CallsOK, OneBotTypeOK
<1>4. CASE ReadAnswer
  <2>1. CallTypeOK' /\ EchoTableIsExact'
    <3>1. CASE UNCHANGED <<echoCh, call>>
      BY <1>4, <3>1, CallsStay, CallTyped DEF ReadAnswer, CallTypeOK
    <3>2. CASE ~UNCHANGED <<echoCh, call>>
      <4>1. PICK e \in echoCh : echoCh' = echoCh \ {e} /\ call' = [call EXCEPT ![e] = "answered"]
        BY <1>4, <3>2 DEF ReadAnswer
      <4>2. e \in Echo /\ call[e] = "waiting" /\ UNCHANGED <<echoSeq, toServer>>
        BY <1>4, <4>1 DEF EchoInv, EchoTableIsExact, ReadAnswer
      <4>3. CallTypeOK'
        BY <4>1, <4>2, CallTyped DEF CallTypeOK
      <4>4. EchoTableIsExact'
        BY <4>1, <4>2, CallTyped DEF CallTypeOK, EchoInv, EchoTableIsExact
      <4>. QED BY <4>3, <4>4
    <3>. QED BY <3>1, <3>2
  <2>. QED
    BY <1>1, <1>2, <1>4, <2>1
       DEF ReadAnswer, EchoInv, OneBotTypeOK, CallsOK, CallTypeOK, EchoTableIsExact
<1>5. CASE ReadMessage
  <2>1. Head(incoming).user \in {Own, User}
    BY <1>1, <1>5 DEF ReadMessage, OneBotFrame
  <2>2. accepted' \subseteq {Own, User}
    BY <1>5, <2>1 DEF ReadMessage, EchoInv, OneBotTypeOK
  <2>3. CallTypeOK' /\ EchoTableIsExact'
    <3>1. CASE UNCHANGED <<echoSeq, echoCh, toServer, call>>
      BY <3>1, CallsStay, CallTyped DEF CallTypeOK
    <3>2. CASE BeginCall
      BY <3>2, BeginCallKeeps
    <3>. QED BY <1>5, <3>1, <3>2 DEF ReadMessage
  <2>4. \/ UNCHANGED <<botReader, replying>>
        \/ botReader' = "reply" /\ replying' \in Echo
    BY <1>5, BeginCallKeeps DEF ReadMessage
  <2>5. replying' \in 0..MaxCall /\ (botReader' = "reply" => replying' \in Echo) /\ botReader' # "none"
    BY <1>1, <2>4 DEF EchoInv, OneBotTypeOK, CallsOK, Echo
  <2>. QED
    BY <1>1, <1>2, <1>3, <1>5, <2>2, <2>3, <2>4, <2>5
       DEF ReadMessage, EchoInv, OneBotTypeOK, CallsOK, CallTypeOK, EchoTableIsExact
<1>. QED BY <1>4, <1>5

\* The steps of calls that end: of Start, of readLoop and of a turn.
LEMMA CallReturnKeeps ==
  ASSUME EchoInv, LoginReturns \/ ReplyReturns \/ TurnReturns
  PROVE  EchoInv'
<1>1. PICK e \in Echo : CallEnds(e)
  BY DEF LoginReturns, ReplyReturns, TurnReturns, EchoInv, OneBotTypeOK, CallsOK, Echo
<1>2. UNCHANGED <<echoSeq, toServer, wire, incoming, accepted, botCancelled, sent, breaks>>
  BY DEF LoginReturns, ReplyReturns, TurnReturns
<1>3. CallTypeOK' /\ EchoTableIsExact'
  BY <1>1, <1>2, CallEndsKeeps
<1>. QED
  BY <1>2, <1>3 DEF LoginReturns, ReplyReturns, TurnReturns, EchoInv, OneBotTypeOK, CallsOK, CallTypeOK,
     EchoTableIsExact, Echo

LEMMA CallSendKeeps ==
  ASSUME EchoInv, Connect \/ TurnSends
  PROVE  EchoInv'
<1>1. CASE Connect
  <2>1. \A e \in Echo : call[e] = "free"
    BY <1>1 DEF Connect, EchoInv, CallsOK, Echo
  <2>2. 1 \in Echo
    BY DEF Echo
  <2>3. CallTypeOK' /\ EchoTableIsExact'
    BY <1>1, <2>1, <2>2, CallTyped DEF Connect, CallTypeOK, EchoTableIsExact, Echo
  <2>. QED
    BY <1>1, <2>3 DEF Connect, EchoInv, OneBotTypeOK, CallsOK, CallTypeOK, EchoTableIsExact
<1>2. CASE TurnSends
  <2>1. CallTypeOK' /\ EchoTableIsExact' /\ echoSeq' \in Echo
    BY <1>2, BeginCallKeeps DEF TurnSends
  <2>2. turn' \in 0..MaxCall
    BY <1>2, <2>1 DEF TurnSends, Echo
  <2>. QED
    BY <1>2, <2>1, <2>2 DEF TurnSends, EchoInv, OneBotTypeOK, CallsOK, CallTypeOK, EchoTableIsExact
<1>. QED BY <1>1, <1>2

\* Steps of readLoop, the server and the network that touch no call.
LEMMA OthersKeep ==
  ASSUME EchoInv,
         \/ StopOneBot \/ OneBotReadError \/ Reconnect \/ ReadLoopEnds \/ Disconnect
         \/ \E e \in Echo : ServerAnswers(e)
         \/ \E user \in {Own, User} : ServerSends(user)
  PROVE  EchoInv'
<1>1. UNCHANGED <<echoSeq, echoCh, call, botStarter, replying, turn, selfID, accepted>>
      /\ toServer' \subseteq Echo
  BY DEF StopOneBot, OneBotReadError, Reconnect, ReadLoopEnds, Disconnect, ServerAnswers, ServerSends, EchoInv, OneBotTypeOK
<1>2. CallTypeOK' /\ EchoTableIsExact'
  BY <1>1, CallsStay
<1>3. incoming' \in Seq(OneBotFrame)
  <2>1. ASSUME NEW e \in Echo, ServerAnswers(e) PROVE incoming' \in Seq(OneBotFrame)
    <3>1. [kind |-> "answer", echo |-> e] \in OneBotFrame
      BY DEF OneBotFrame
    <3>. QED BY <2>1, <3>1, AppendProperties DEF ServerAnswers, EchoInv
  <2>2. ASSUME NEW user \in {Own, User}, ServerSends(user) PROVE incoming' \in Seq(OneBotFrame)
    <3>1. [kind |-> "message", user |-> user] \in OneBotFrame
      BY DEF OneBotFrame
    <3>. QED BY <2>2, <3>1, AppendProperties DEF ServerSends, EchoInv
  <2>3. CASE incoming' = incoming \/ incoming' = <<>>
    BY <2>3, EmptySeq DEF EchoInv
  <2>. QED BY <2>1, <2>2, <2>3 DEF StopOneBot, OneBotReadError, Reconnect, ReadLoopEnds, Disconnect
<1>4. \A i \in DOMAIN incoming' : incoming'[i] \in OneBotFrame
  BY <1>3, FramesTyped
<1>5. \/ botReader' = botReader
      \/ botReader \in {"read", "reconnect"} /\ botReader' \in {"read", "reconnect", "gone"}
  <2>1. CASE OneBotReadError
    BY <2>1, Zenon DEF OneBotReadError
  <2>2. CASE Reconnect \/ ReadLoopEnds
    BY <2>2 DEF Reconnect, ReadLoopEnds
  <2>3. CASE UNCHANGED botReader
    BY <2>3
  <2>. QED BY <2>1, <2>2, <2>3 DEF StopOneBot, Disconnect, ServerAnswers, ServerSends
<1>6. wire' \in {"none", "up", "down", "closed"}
  BY DEF StopOneBot, OneBotReadError, Reconnect, ReadLoopEnds, Disconnect, ServerAnswers, ServerSends, EchoInv, OneBotTypeOK
<1>7. sent' \in 0..MaxMessage /\ breaks' \in 0..MaxBreak
  <2>1. \/ sent' = sent
        \/ sent < MaxMessage /\ sent' = sent + 1
    BY DEF StopOneBot, OneBotReadError, Reconnect, ReadLoopEnds, Disconnect, ServerAnswers, ServerSends
  <2>2. \/ breaks' = breaks
        \/ breaks < MaxBreak /\ breaks' = breaks + 1
    BY DEF StopOneBot, OneBotReadError, Reconnect, ReadLoopEnds, Disconnect, ServerAnswers, ServerSends
  <2>. QED BY <2>1, <2>2 DEF EchoInv, OneBotTypeOK
<1>8. botCancelled' \in BOOLEAN
  BY Zenon DEF StopOneBot, OneBotReadError, Reconnect, ReadLoopEnds, Disconnect, ServerAnswers, ServerSends, EchoInv, OneBotTypeOK
<1>. QED
  BY <1>1, <1>2, <1>3, <1>4, <1>5, <1>6, <1>7, <1>8 DEF EchoInv, OneBotTypeOK, CallsOK, CallTypeOK, EchoTableIsExact

LEMMA InitEcho ==
  ASSUME OneBotInit
  PROVE  EchoInv
<1>1. incoming \in Seq(OneBotFrame) /\ \A i \in DOMAIN incoming : incoming[i] \in OneBotFrame
  BY EmptySeq DEF OneBotInit
<1>2. botCancelled \in BOOLEAN
  BY Zenon DEF OneBotInit
<1>3. call \in [Echo -> {"free", "waiting", "answered", "done", "failed"}] /\ CallsOK /\ EchoTableIsExact
  BY DEF OneBotInit, CallsOK, EchoTableIsExact, Echo
<1>. QED BY <1>1, <1>2, <1>3 DEF OneBotInit, EchoInv, OneBotTypeOK

\* The invariant holds in every reachable state.
THEOREM EchoInvariance == OneBotSpec => []EchoInv
<1>1. OneBotInit => EchoInv
  BY InitEcho
<1>2. EchoInv /\ [OneBotNext]_onebotVars => EchoInv'
  <2>. SUFFICES ASSUME EchoInv, [OneBotNext]_onebotVars PROVE EchoInv'
    OBVIOUS
  <2>1. CASE UNCHANGED onebotVars
    BY <2>1 DEF onebotVars, EchoInv, OneBotTypeOK, CallsOK, EchoTableIsExact
  <2>. QED BY <2>1, ReadKeeps, CallReturnKeeps, CallSendKeeps, OthersKeep DEF OneBotNext
<1>. QED BY <1>1, <1>2, PTL DEF OneBotSpec

\* Every variable of the connection has its type.
THEOREM OneBotTypeCorrect == OneBotSpec => []OneBotTypeOK
BY EchoInvariance, PTL DEF EchoInv

\* callAPI and readLoop: the table holds the numbers of the calls that wait and
\* no others, through late answers, timeouts, failed writes and breaks, so that
\* no answer is put into a channel that nobody reads.
THEOREM EchoTableExact == OneBotSpec => []EchoTableIsExact
BY EchoInvariance, PTL DEF EchoInv

-----------------------------------------------------------------------------
(* platform/qqbot/qqbot.go: the replies.

   The numbers of the replies to one event are fresh until its first reply
   is older than msgSeqTTL, for any number of senders, events, messages
   and tokens, and any msgSeqTTL.

   A message has one number from nextMsgSeq on, however often it is tried:
   what matters is the set of the numbers that were drawn and may still
   reach the server or have reached it. *)

PC == {"token", "ask", "store", "read", "post", "ask401", "store401"}
SomeReply == [event : Event, seq : Nat, at : Nat, send : Nat, again : BOOLEAN]
Sending == [pc : PC, reply : SomeReply, token : Nat]

Replying(s) == sending[s].pc # "idle"

\* What nextMsgSeq gave a message: its event, number and time, and which message it is.
NumberOf(a) == [event |-> a.event, seq |-> a.seq, at |-> a.at, send |-> a.send]
Number == [event : Event, seq : Nat, at : Nat, send : Nat]

\* The numbers of the messages under way and of those the server took.
Numbers ==
  {NumberOf(a) : a \in delivered} \union
  {NumberOf(sending[s].reply) : s \in {u \in Sender : Replying(u)}}

SendingTypeOK ==
  /\ sending \in [Sender -> {IdleSender} \union Sending]
  /\ delivered \subseteq SomeReply
  /\ token \in Nat /\ issued \in Nat

TableTypeOK ==
  /\ now \in Nat /\ sends \in Nat
  /\ msgSeqMap \in [Event -> [seq : Nat, createdAt : Int]]
  /\ firstAt \in [Event -> Int]

\* A message is under way once, or was taken once, and not both.
SentOnce ==
  /\ \A a, b \in delivered : a.send = b.send => a = b
  /\ \A s \in Sender : Replying(s) => \A a \in delivered : a.send # sending[s].reply.send
  /\ \A s, u \in Sender :
       Replying(s) /\ Replying(u) /\ sending[s].reply.send = sending[u].reply.send => s = u

\* The entry of an event lives as long as msgSeqTTL says, and counts its numbers.
EntryOK ==
  \A e \in Event :
    /\ firstAt[e] = Unset => msgSeqMap[e] = NoEntry
    /\ firstAt[e] # Unset /\ now <= firstAt[e] + TTL =>
         /\ msgSeqMap[e].createdAt = firstAt[e]
         /\ \A n \in Numbers : n.event = e => n.seq <= msgSeqMap[e].seq

NumbersOK ==
  /\ \A n \in Numbers : n \in Number /\ n.send <= sends /\ firstAt[n.event] # Unset
  /\ \A m, n \in Numbers :
       m # n /\ m.event = n.event /\ m.seq = n.seq =>
         m.at > firstAt[m.event] + TTL \/ n.at > firstAt[m.event] + TTL

HIDE OneBotAssumption
USE SenderAssumption

SenderInv == SendingTypeOK /\ TableTypeOK /\ SentOnce /\ EntryOK /\ NumbersOK

-----------------------------------------------------------------------------
\* A message under way has a record, and its number counts.
LEMMA ActiveIsSending ==
  ASSUME SenderInv, NEW s \in Sender, Replying(s)
  PROVE  sending[s] \in Sending /\ sending[s].reply \in SomeReply /\ NumberOf(sending[s].reply) \in Numbers
<1>1. sending[s] \in Sending
  BY DEF SenderInv, SendingTypeOK, Replying, IdleSender
<1>2. sending[s].reply \in SomeReply
  BY <1>1 DEF Sending
<1>. QED BY <1>1, <1>2 DEF Numbers

\* A step that draws no number and leaves the table alone.
LEMMA NumbersShrink ==
  ASSUME SenderInv, UNCHANGED <<msgSeqMap, firstAt, sends>>, Numbers' \subseteq Numbers,
         now' \in Nat, now <= now'
  PROVE  TableTypeOK' /\ EntryOK' /\ NumbersOK'
<1>1. TableTypeOK'
  BY DEF SenderInv, TableTypeOK
<1>2. NumbersOK'
  BY DEF SenderInv, NumbersOK
<1>3. ASSUME NEW e \in Event, firstAt[e] # Unset, now' <= firstAt[e] + TTL
      PROVE  now <= firstAt[e] + TTL
  BY <1>3 DEF SenderInv, TableTypeOK
<1>4. EntryOK'
  BY <1>3 DEF SenderInv, EntryOK
<1>. QED BY <1>1, <1>2, <1>4

-----------------------------------------------------------------------------
(* One more try, or the next step of a try: the number stays.              *)

LEMMA TryKeeps ==
  ASSUME SenderInv, NEW s \in Sender, Replying(s), NEW c \in Sending,
         sending' = [sending EXCEPT ![s] = c],
         NumberOf(c.reply) = NumberOf(sending[s].reply),
         UNCHANGED <<now, msgSeqMap, delivered, firstAt, sends>>,
         token' \in Nat, issued' \in Nat
  PROVE  SenderInv'
<1>1. sending' \in [Sender -> {IdleSender} \union Sending] /\ sending'[s] = c
      /\ \A u \in Sender \ {s} : sending'[u] = sending[u]
  BY DEF SenderInv, SendingTypeOK
<1>2. SendingTypeOK'
  BY <1>1 DEF SenderInv, SendingTypeOK
<1>3. c.pc # "idle" /\ c.reply.send = sending[s].reply.send
  BY DEF Sending, PC, NumberOf
<1>4. \A u \in Sender :
        (Replying(u)' <=> Replying(u)) /\ (Replying(u) => NumberOf(sending'[u].reply) = NumberOf(sending[u].reply))
  BY <1>1, <1>3 DEF Replying
<1>5. Numbers' = Numbers
  BY <1>4 DEF Numbers
<1>6. SentOnce'
  <2>1. \A u \in Sender : Replying(u) => sending'[u].reply.send = sending[u].reply.send
    BY <1>1, <1>3
  <2>. QED BY <1>4, <2>1 DEF SenderInv, SentOnce
<1>7. now' \in Nat /\ now <= now'
  BY DEF SenderInv, TableTypeOK
<1>. QED BY <1>2, <1>5, <1>6, <1>7, NumbersShrink DEF SenderInv

\* The changes a step makes to the record of a message.
LEMMA PcGoes ==
  ASSUME NEW c \in Sending, NEW p \in PC
  PROVE  [c EXCEPT !.pc = p] \in Sending /\ [c EXCEPT !.pc = p].reply = c.reply
BY DEF Sending

LEMMA TokenGoes ==
  ASSUME NEW c \in Sending, NEW p \in PC, NEW t \in Nat
  PROVE  [c EXCEPT !.pc = p, !.token = t] \in Sending /\ [c EXCEPT !.pc = p, !.token = t].reply = c.reply
BY DEF Sending

LEMMA AgainGoes ==
  ASSUME NEW c \in Sending, NEW p \in PC
  PROVE  /\ [c EXCEPT !.pc = p, !.reply.again = TRUE] \in Sending
         /\ NumberOf([c EXCEPT !.pc = p, !.reply.again = TRUE].reply) = NumberOf(c.reply)
<1>1. c.reply \in SomeReply
  BY DEF Sending
<1>2. /\ [c.reply EXCEPT !.again = TRUE] \in SomeReply
      /\ NumberOf([c.reply EXCEPT !.again = TRUE]) = NumberOf(c.reply)
  BY <1>1 DEF SomeReply, NumberOf
<1>3. [c EXCEPT !.pc = p, !.reply.again = TRUE].reply = [c.reply EXCEPT !.again = TRUE]
  BY DEF Sending
<1>. QED BY <1>2, <1>3 DEF Sending

LEMMA TokenStepKeeps ==
  ASSUME SenderInv, NEW s \in Sender,
         GetAccessToken(s) \/ RefreshToken(s) \/ StoreToken(s) \/ ReadToken(s)
  PROVE  SenderInv'
<1>1. Replying(s) /\ UNCHANGED <<now, msgSeqMap, delivered, firstAt, sends>>
  BY DEF Replying, GetAccessToken, RefreshToken, StoreToken, ReadToken
<1>2. sending[s] \in Sending
  BY <1>1, ActiveIsSending
<1>3. token \in Nat /\ issued \in Nat /\ sending[s].token \in Nat
  BY <1>2 DEF SenderInv, SendingTypeOK, Sending
<1>4. token' \in Nat /\ issued' \in Nat
  BY <1>3 DEF GetAccessToken, RefreshToken, StoreToken, ReadToken
<1>5. \/ \E p \in PC : sending' = [sending EXCEPT ![s] = [sending[s] EXCEPT !.pc = p]]
      \/ \E p \in PC, t \in Nat :
           sending' = [sending EXCEPT ![s] = [sending[s] EXCEPT !.pc = p, !.token = t]]
  <2>1. CASE GetAccessToken(s)
    <3>1. \/ sending' = [sending EXCEPT ![s] = [sending[s] EXCEPT !.pc = "post", !.token = token]]
          \/ sending' = [sending EXCEPT ![s] = [sending[s] EXCEPT !.pc = "ask"]]
      BY <2>1 DEF GetAccessToken, SenderGoes
    <3>. QED BY <1>3, <3>1 DEF PC
  <2>2. CASE RefreshToken(s)
    <3>1. \E p \in {"store", "store401"} :
            sending' = [sending EXCEPT ![s] = [sending[s] EXCEPT !.pc = p, !.token = issued']]
      BY <2>2 DEF RefreshToken
    <3>. QED BY <1>4, <3>1 DEF PC
  <2>3. CASE StoreToken(s)
    <3>1. \E p \in {"read", "token"} : sending' = [sending EXCEPT ![s] = [sending[s] EXCEPT !.pc = p]]
      BY <2>3 DEF StoreToken, SenderGoes
    <3>. QED BY <3>1 DEF PC
  <2>4. CASE ReadToken(s)
    <3>1. sending' = [sending EXCEPT ![s] = [sending[s] EXCEPT !.pc = "post", !.token = token]]
      BY <2>4 DEF ReadToken
    <3>. QED BY <1>3, <3>1 DEF PC
  <2>. QED BY <2>1, <2>2, <2>3, <2>4
<1>6. PICK c \in Sending : sending' = [sending EXCEPT ![s] = c] /\ c.reply = sending[s].reply
  <2>1. ASSUME NEW p \in PC, sending' = [sending EXCEPT ![s] = [sending[s] EXCEPT !.pc = p]]
        PROVE  \E c \in Sending : sending' = [sending EXCEPT ![s] = c] /\ c.reply = sending[s].reply
    <3>1. [sending[s] EXCEPT !.pc = p] \in Sending /\ [sending[s] EXCEPT !.pc = p].reply = sending[s].reply
      BY <1>2, PcGoes
    <3>. QED BY <2>1, <3>1
  <2>2. ASSUME NEW p \in PC, NEW t \in Nat,
               sending' = [sending EXCEPT ![s] = [sending[s] EXCEPT !.pc = p, !.token = t]]
        PROVE  \E c \in Sending : sending' = [sending EXCEPT ![s] = c] /\ c.reply = sending[s].reply
    <3>. DEFINE c == [sending[s] EXCEPT !.pc = p, !.token = t]
    <3>1. c \in Sending /\ c.reply = sending[s].reply
      BY <1>2, TokenGoes
    <3>. QED BY <2>2, <3>1
  <2>. QED BY <1>5, <2>1, <2>2
<1>. QED BY <1>1, <1>4, <1>6, TryKeeps

-----------------------------------------------------------------------------
(* The end of a message, taken by the server or not.                       *)

LEMMA ReturnKeeps ==
  ASSUME SenderInv, NEW s \in Sender, Replying(s), SenderReturns(s),
         delivered' = delivered \/ delivered' = delivered \union {sending[s].reply},
         UNCHANGED <<now, msgSeqMap, token, issued, firstAt, sends>>
  PROVE  SenderInv'
<1>1. /\ sending' \in [Sender -> {IdleSender} \union Sending] /\ sending'[s] = IdleSender
      /\ \A u \in Sender \ {s} : sending'[u] = sending[u]
  BY DEF SenderReturns, SenderInv, SendingTypeOK
<1>2. /\ sending[s].reply \in SomeReply /\ NumberOf(sending[s].reply) \in Numbers
  BY ActiveIsSending
<1>3. SendingTypeOK'
  BY <1>1, <1>2 DEF SenderInv, SendingTypeOK
<1>4. \A u \in Sender : Replying(u)' <=> Replying(u) /\ u # s
  BY <1>1 DEF Replying, IdleSender
<1>5. \A a \in delivered' : NumberOf(a) \in Numbers
  BY <1>2 DEF Numbers
<1>6. \A u \in Sender : Replying(u)' => NumberOf(sending'[u].reply) \in Numbers
  BY <1>1, <1>4 DEF Numbers
<1>7. Numbers' \subseteq Numbers
  BY <1>5, <1>6 DEF Numbers
<1>8. SentOnce'
  BY <1>1, <1>4 DEF SenderInv, SentOnce
<1>9. now' \in Nat /\ now <= now'
  BY DEF SenderInv, TableTypeOK
<1>. QED BY <1>3, <1>7, <1>8, <1>9, NumbersShrink DEF SenderInv

LEMMA PostKeeps ==
  ASSUME SenderInv, NEW s \in Sender,
         RefreshFails(s) \/ PostAccepted(s) \/ PostFails(s) \/ PostUnauthorized(s)
  PROVE  SenderInv'
<1>1. Replying(s) /\ UNCHANGED <<now, msgSeqMap, token, issued, firstAt, sends>>
  BY DEF Replying, RefreshFails, PostAccepted, PostFails, PostUnauthorized
<1>2. sending[s] \in Sending /\ token' \in Nat /\ issued' \in Nat
  BY <1>1, ActiveIsSending DEF SenderInv, SendingTypeOK
<1>3. CASE SenderReturns(s)
  <2>1. delivered' = delivered \/ delivered' = delivered \union {sending[s].reply}
    BY DEF RefreshFails, PostAccepted, PostFails, PostUnauthorized
  <2>. QED BY <1>1, <1>3, <2>1, ReturnKeeps
<1>4. CASE RefreshFails(s) /\ ~SenderReturns(s)
  <2>. DEFINE c == [sending[s] EXCEPT !.pc = "post", !.token = 0]
  <2>1. sending' = [sending EXCEPT ![s] = c] /\ UNCHANGED delivered
    BY <1>4, Zenon DEF RefreshFails, NoToken
  <2>2. c \in Sending /\ c.reply = sending[s].reply
    BY <1>2, TokenGoes DEF PC
  <2>. QED BY <1>1, <1>2, <2>1, <2>2, TryKeeps
<1>5. CASE PostUnauthorized(s) /\ ~SenderReturns(s)
  <2>. DEFINE c == [sending[s] EXCEPT !.pc = "ask401", !.reply.again = TRUE]
  <2>1. sending' = [sending EXCEPT ![s] = c] /\ UNCHANGED delivered
    BY <1>5, Zenon DEF PostUnauthorized
  <2>2. c \in Sending /\ NumberOf(c.reply) = NumberOf(sending[s].reply)
    BY <1>2, AgainGoes DEF PC
  <2>. QED BY <1>1, <1>2, <2>1, <2>2, TryKeeps
<1>. QED BY <1>3, <1>4, <1>5 DEF PostAccepted, PostFails

-----------------------------------------------------------------------------
(* A new message.                                                          *)

LEMMA SendKeeps ==
  ASSUME SenderInv, NEW s \in Sender, NEW e \in Event, SendMessage(s, e)
  PROVE  SenderInv'
<1>. DEFINE kept == [f \in Event |-> IF Expired(msgSeqMap[f]) THEN NoEntry ELSE msgSeqMap[f]]
            entry == [seq |-> kept[e].seq + 1,
                      createdAt |-> IF kept[e] = NoEntry THEN now ELSE kept[e].createdAt]
            reply == [event |-> e, seq |-> entry.seq, at |-> now, send |-> sends + 1, again |-> FALSE]
<1>1. /\ sending[s] = IdleSender /\ sends' = sends + 1
      /\ msgSeqMap' = [kept EXCEPT ![e] = entry]
      /\ firstAt' = [firstAt EXCEPT ![e] = IF @ = Unset THEN now ELSE @]
      /\ sending' = [sending EXCEPT ![s] = [pc |-> "token", token |-> NoToken, reply |-> reply]]
      /\ UNCHANGED <<now, token, issued, delivered>>
  BY DEF SendMessage
<1>2. NoEntry \in [seq : Nat, createdAt : Int] /\ now \in Nat /\ sends \in Nat
  BY DEF NoEntry, Unset, SenderInv, TableTypeOK
<1>3. kept \in [Event -> [seq : Nat, createdAt : Int]]
  BY <1>2 DEF SenderInv, TableTypeOK
<1>4. entry \in [seq : Nat, createdAt : Int]
  BY <1>2, <1>3
<1>. HIDE DEF kept
<1>5. reply \in SomeReply
  BY <1>2, <1>4 DEF SomeReply
<1>6. TableTypeOK'
  BY <1>1, <1>2, <1>3, <1>4 DEF SenderInv, TableTypeOK
<1>. HIDE DEF entry, reply
<1>7. sending'[s].pc = "token" /\ sending'[s].reply = reply
      /\ sending' \in [Sender -> {IdleSender} \union Sending]
      /\ \A u \in Sender \ {s} : sending'[u] = sending[u]
  <2>1. [pc |-> "token", token |-> NoToken, reply |-> reply] \in Sending
    BY <1>5 DEF Sending, PC, NoToken
  <2>. QED BY <1>1, <2>1 DEF SenderInv, SendingTypeOK
<1>8. SendingTypeOK'
  BY <1>1, <1>7 DEF SenderInv, SendingTypeOK
<1>9. ~Replying(s) /\ \A u \in Sender : Replying(u)' <=> Replying(u) \/ u = s
  BY <1>1, <1>7 DEF Replying, IdleSender
<1>10. Numbers' = Numbers \union {NumberOf(reply)}
  BY <1>1, <1>7, <1>9 DEF Numbers
<1>11. NumberOf(reply) = [event |-> e, seq |-> entry.seq, at |-> now, send |-> sends + 1]
       /\ reply.send = sends + 1
  BY DEF reply, NumberOf
<1>12. SentOnce'
  <2>1. ASSUME NEW a \in delivered PROVE a.send <= sends /\ a.send \in Nat
    <3>1. NumberOf(a) \in Numbers
      BY DEF Numbers
    <3>. QED BY <3>1 DEF SenderInv, NumbersOK, NumberOf, Number
  <2>2. \A u \in Sender : Replying(u) => sending[u].reply.send <= sends /\ sending[u].reply.send \in Nat
    BY ActiveIsSending DEF SenderInv, NumbersOK, NumberOf, Number
  <2>. QED BY <1>1, <1>2, <1>7, <1>9, <1>11, <2>1, <2>2 DEF SenderInv, SentOnce
<1>13. ASSUME firstAt[e] = Unset
       PROVE  kept[e] = NoEntry /\ entry = [seq |-> 1, createdAt |-> now]
              /\ \A n \in Numbers : n.event # e
  <2>1. kept[e] = NoEntry
    BY <1>13 DEF kept, SenderInv, EntryOK
  <2>2. \A n \in Numbers : n.event # e
    BY <1>13 DEF SenderInv, NumbersOK
  <2>. QED BY <2>1, <2>2 DEF entry, NoEntry
<1>14. ASSUME NEW f \in Event, firstAt[f] # Unset, now <= firstAt[f] + TTL
       PROVE  kept[f] = msgSeqMap[f] /\ kept[f].createdAt = firstAt[f]
              /\ \A n \in Numbers : n.event = f => n.seq <= kept[f].seq
  <2>1. /\ msgSeqMap[f].createdAt = firstAt[f]
        /\ \A n \in Numbers : n.event = f => n.seq <= msgSeqMap[f].seq
    BY <1>14 DEF SenderInv, EntryOK
  <2>2. ~Expired(msgSeqMap[f])
    BY <1>2, <1>14, <2>1 DEF Expired, SenderInv, TableTypeOK
  <2>. QED BY <2>1, <2>2 DEF kept
<1>15. ASSUME firstAt[e] # Unset, now <= firstAt[e] + TTL
       PROVE  entry = [seq |-> kept[e].seq + 1, createdAt |-> firstAt[e]]
  <2>1. kept[e] # NoEntry
    BY <1>14, <1>15 DEF NoEntry
  <2>. QED BY <1>14, <1>15, <2>1 DEF entry
<1>16. EntryOK'
  <2>. SUFFICES ASSUME NEW f \in Event
                PROVE  /\ firstAt'[f] = Unset => msgSeqMap'[f] = NoEntry
                       /\ firstAt'[f] # Unset /\ now <= firstAt'[f] + TTL =>
                            /\ msgSeqMap'[f].createdAt = firstAt'[f]
                            /\ \A n \in Numbers' : n.event = f => n.seq <= msgSeqMap'[f].seq
    BY <1>1 DEF EntryOK
  <2>1. CASE f # e
    <3>1. firstAt'[f] = firstAt[f] /\ msgSeqMap'[f] = kept[f]
      BY <1>1, <1>3, <2>1 DEF SenderInv, TableTypeOK
    <3>2. firstAt[f] = Unset => kept[f] = NoEntry
      BY DEF kept, SenderInv, EntryOK
    <3>3. \A n \in Numbers' : n.event = f => n \in Numbers
      BY <1>10, <1>11, <2>1
    <3>. QED BY <1>14, <3>1, <3>2, <3>3
  <2>2. CASE f = e /\ firstAt[e] = Unset
    <3>1. firstAt'[e] = now /\ msgSeqMap'[e] = [seq |-> 1, createdAt |-> now] /\ now # Unset
      BY <1>1, <1>2, <1>3, <1>13, <2>2 DEF SenderInv, TableTypeOK, Unset
    <3>2. \A n \in Numbers' : n.event = e => n.seq = 1
      BY <1>10, <1>11, <1>13, <2>2
    <3>. QED BY <2>2, <3>1, <3>2
  <2>3. CASE f = e /\ firstAt[e] # Unset
    <3>1. firstAt'[e] = firstAt[e] /\ msgSeqMap'[e] = entry
      BY <1>1, <1>3, <2>3 DEF SenderInv, TableTypeOK
    <3>2. ASSUME now <= firstAt[e] + TTL
          PROVE  entry.createdAt = firstAt[e] /\ \A n \in Numbers' : n.event = e => n.seq <= entry.seq
      <4>1. entry.createdAt = firstAt[e] /\ entry.seq = kept[e].seq + 1 /\ kept[e].seq \in Nat
        BY <1>3, <1>15, <2>3, <3>2
      <4>2. \A n \in Numbers : n \in Number /\ (n.event = e => n.seq <= kept[e].seq)
        BY <1>14, <2>3, <3>2 DEF SenderInv, NumbersOK
      <4>3. \A n \in Numbers : n.event = e => n.seq <= entry.seq
        BY <4>1, <4>2 DEF Number
      <4>. QED BY <1>10, <1>11, <4>1, <4>3
    <3>. QED BY <2>3, <3>1, <3>2
  <2>. QED BY <2>1, <2>2, <2>3
<1>17. NumbersOK'
  <2>1. firstAt'[e] # Unset
    BY <1>1, <1>2 DEF SenderInv, TableTypeOK, Unset
  <2>2. \A f \in Event : firstAt[f] # Unset => firstAt'[f] = firstAt[f]
    BY <1>1 DEF SenderInv, TableTypeOK
  <2>3. NumberOf(reply) \in Number
    BY <1>2, <1>4, <1>11 DEF Number
  <2>4. \A n \in Numbers' : n \in Number /\ n.send <= sends' /\ firstAt'[n.event] # Unset
    <3>1. \A n \in Numbers : n \in Number /\ n.send <= sends' /\ firstAt'[n.event] # Unset
      BY <1>1, <1>2, <2>2 DEF SenderInv, NumbersOK, Number
    <3>2. NumberOf(reply).send <= sends' /\ firstAt'[NumberOf(reply).event] # Unset
      BY <1>1, <1>2, <1>11, <2>1
    <3>. QED BY <1>10, <2>3, <3>1, <3>2
  <2>5. ASSUME NEW n \in Numbers, n.event = e, n.seq = entry.seq
        PROVE  now > firstAt'[e] + TTL
    <3>1. firstAt[e] # Unset
      BY <1>13, <2>5
    <3>2. n.seq \in Nat /\ kept[e].seq \in Nat
      BY <1>3 DEF SenderInv, NumbersOK, Number
    <3>3. ~(now <= firstAt[e] + TTL)
      BY <1>14, <1>15, <2>5, <3>1, <3>2
    <3>. QED BY <1>2, <2>2, <3>1, <3>3 DEF SenderInv, TableTypeOK
  <2>6. ASSUME NEW m \in Numbers, NEW n \in Numbers, m # n, m.event = n.event, m.seq = n.seq
        PROVE  m.at > firstAt'[m.event] + TTL \/ n.at > firstAt'[m.event] + TTL
    BY <2>2, <2>6 DEF SenderInv, NumbersOK, Number
  <2>7. \A m, n \in Numbers' :
          m # n /\ m.event = n.event /\ m.seq = n.seq =>
            m.at > firstAt'[m.event] + TTL \/ n.at > firstAt'[m.event] + TTL
    BY <1>10, <1>11, <2>5, <2>6
  <2>. QED BY <2>4, <2>7 DEF NumbersOK
<1>. QED BY <1>6, <1>8, <1>12, <1>16, <1>17 DEF SenderInv

-----------------------------------------------------------------------------
(* The theorem.                                                            *)

\* The invariant holds in every reachable state.
THEOREM SenderInvariance == SenderSpec => []SenderInv
<1>1. SenderInit => SenderInv
  <2>. SUFFICES ASSUME SenderInit PROVE SenderInv
    OBVIOUS
  <2>1. Numbers = {}
    BY DEF SenderInit, Numbers, Replying, IdleSender
  <2>2. SendingTypeOK /\ SentOnce /\ EntryOK /\ NumbersOK
    BY <2>1 DEF SenderInit, SendingTypeOK, SentOnce, EntryOK, NumbersOK, Replying, IdleSender
  <2>3. TableTypeOK
    BY DEF SenderInit, TableTypeOK, NoEntry, Unset
  <2>. QED BY <2>2, <2>3 DEF SenderInv
<1>2. SenderInv /\ [SenderNext]_senderVars => SenderInv'
  <2>. SUFFICES ASSUME SenderInv, [SenderNext]_senderVars PROVE SenderInv'
    OBVIOUS
  <2>1. ASSUME UNCHANGED <<msgSeqMap, token, sending, issued, delivered, firstAt, sends>>,
               now' = now \/ now' = now + 1
        PROVE  SenderInv'
    <3>1. SendingTypeOK' /\ SentOnce' /\ Numbers' = Numbers
      BY <2>1 DEF SenderInv, SendingTypeOK, SentOnce, Numbers, Replying
    <3>2. now' \in Nat /\ now <= now'
      BY <2>1 DEF SenderInv, TableTypeOK
    <3>. QED BY <2>1, <3>1, <3>2, NumbersShrink DEF SenderInv
  <2>2. CASE ClockTicks \/ (\E t \in Token : Revoke(t)) \/ UNCHANGED senderVars
    BY <2>1, <2>2 DEF ClockTicks, Revoke, senderVars
  <2>. QED BY <2>2, SendKeeps, TokenStepKeeps, PostKeeps DEF SenderNext
<1>. QED BY <1>1, <1>2, PTL DEF SenderSpec

\* nextMsgSeq: the server takes no two replies to one event under one number,
\* whoever sends them and however often they are tried, until the first reply
\* is older than msgSeqTTL.
THEOREM FreshNumbers == SenderSpec => []NumbersAreFresh
<1>1. SenderInv => NumbersAreFresh
  <2>. SUFFICES ASSUME SenderInv, NEW a \in delivered, NEW b \in delivered,
                       a # b, a.event = b.event, a.seq = b.seq
                PROVE  a.at > firstAt[a.event] + TTL \/ b.at > firstAt[a.event] + TTL
    BY DEF NumbersAreFresh
  <2>1. NumberOf(a) \in Numbers /\ NumberOf(b) \in Numbers
    BY DEF Numbers
  <2>2. a.send # b.send
    BY DEF SenderInv, SentOnce
  <2>3. NumberOf(a) # NumberOf(b)
    BY <2>2 DEF NumberOf
  <2>. QED BY <2>1, <2>3 DEF SenderInv, NumbersOK, NumberOf
<1>. QED BY <1>1, SenderInvariance, PTL

-----------------------------------------------------------------------------
(* The types of the sender: the numbers of an event are not more than the messages. *)

InTransit == [pc : PC, reply : Reply, token : Token]

SenderBounds ==
  /\ SenderTypeOK
  /\ issued # 0
  /\ \A e \in Event : msgSeqMap[e].seq <= sends

\* The changes a step makes to the record of a message.
LEMMA RecordGoes ==
  ASSUME NEW c \in InTransit, NEW p \in PC, NEW t \in Token
  PROVE  /\ [c EXCEPT !.pc = p] \in InTransit
         /\ [c EXCEPT !.pc = p, !.token = t] \in InTransit
         /\ [c EXCEPT !.pc = p, !.reply.again = TRUE] \in InTransit
<1>1. c.reply \in Reply /\ c.token \in Token
  BY DEF InTransit
<1>2. [c.reply EXCEPT !.again = TRUE] \in Reply
  BY <1>1 DEF Reply
<1>3. [c EXCEPT !.pc = p, !.reply.again = TRUE].reply = [c.reply EXCEPT !.again = TRUE]
  BY DEF InTransit
<1>. QED BY <1>1, <1>2, <1>3 DEF InTransit

\* A message under way goes on, or returns.
LEMMA RecordKept ==
  ASSUME SenderTypeOK, NEW s \in Sender, NEW c \in {IdleSender} \union InTransit,
         sending' = [sending EXCEPT ![s] = c]
  PROVE  sending' \in [Sender -> {IdleSender} \union InTransit]
BY DEF SenderTypeOK, InTransit, PC

LEMMA SendBounds ==
  ASSUME SenderBounds, NEW s \in Sender, NEW e \in Event, SendMessage(s, e)
  PROVE  SenderBounds'
<1>. DEFINE kept == [f \in Event |-> IF Expired(msgSeqMap[f]) THEN NoEntry ELSE msgSeqMap[f]]
            entry == [seq |-> kept[e].seq + 1,
                      createdAt |-> IF kept[e] = NoEntry THEN now ELSE kept[e].createdAt]
            reply == [event |-> e, seq |-> entry.seq, at |-> now, send |-> sends', again |-> FALSE]
            Entry == [seq : 0..MaxSend, createdAt : {Unset} \union 0..MaxNow]
<1>1. /\ sends < MaxSend /\ sends' = sends + 1
      /\ msgSeqMap' = [kept EXCEPT ![e] = entry]
      /\ firstAt' = [firstAt EXCEPT ![e] = IF @ = Unset THEN now ELSE @]
      /\ sending' = [sending EXCEPT ![s] = [pc |-> "token", token |-> NoToken, reply |-> reply]]
      /\ UNCHANGED <<now, token, tokenFresh, issued, valid, delivered>>
  BY DEF SendMessage
<1>2. now \in 0..MaxNow /\ sends \in 0..MaxSend /\ sends' \in 1..MaxSend
  BY <1>1 DEF SenderBounds, SenderTypeOK
<1>3. NoEntry \in Entry /\ NoEntry.seq = 0
  BY DEF NoEntry
<1>4. kept \in [Event -> Entry] /\ \A f \in Event : kept[f].seq <= sends
  BY <1>2, <1>3 DEF SenderBounds, SenderTypeOK
<1>. HIDE DEF kept
<1>5. entry \in Entry /\ entry.seq \in 1..MaxSend /\ entry.seq <= sends'
  BY <1>1, <1>2, <1>4
<1>6. reply \in Reply
  BY <1>2, <1>5 DEF Reply
<1>. HIDE DEF entry, reply
<1>7. msgSeqMap' \in [Event -> Entry] /\ \A f \in Event : msgSeqMap'[f].seq <= sends'
  BY <1>1, <1>2, <1>4, <1>5
<1>8. sending' \in [Sender -> {IdleSender} \union InTransit]
  <2>1. [pc |-> "token", token |-> NoToken, reply |-> reply] \in InTransit
    BY <1>6 DEF InTransit, PC, NoToken, Token
  <2>. QED BY <1>1, <2>1, RecordKept DEF SenderBounds
<1>9. firstAt' \in [Event -> {Unset} \union 0..MaxNow]
  BY <1>1, <1>2 DEF SenderBounds, SenderTypeOK
<1>. QED BY <1>1, <1>2, <1>7, <1>8, <1>9 DEF SenderBounds, SenderTypeOK, InTransit, PC

\* The steps of a message that is under way.
LEMMA StepBounds ==
  ASSUME SenderBounds, NEW s \in Sender,
         \/ GetAccessToken(s) \/ RefreshToken(s) \/ RefreshFails(s) \/ StoreToken(s)
         \/ ReadToken(s) \/ PostAccepted(s) \/ PostFails(s) \/ PostUnauthorized(s)
  PROVE  SenderBounds'
<1>1. SenderTypeOK /\ sending[s] \in {IdleSender} \union InTransit
  BY DEF SenderBounds, SenderTypeOK, InTransit, PC
<1>2. sending[s].pc # "idle"
  BY DEF GetAccessToken, RefreshToken, RefreshFails, StoreToken, ReadToken, PostAccepted, PostFails,
         PostUnauthorized
<1>3. sending[s] \in InTransit /\ sending[s].reply \in Reply /\ sending[s].token \in Token
  BY <1>1, <1>2 DEF IdleSender, InTransit
<1>4. token \in Token /\ NoToken \in Token /\ tokenFresh \in BOOLEAN
  BY <1>1 DEF SenderTypeOK, Token, NoToken
<1>5. ASSUME NEW c \in {IdleSender} \union InTransit, sending' = [sending EXCEPT ![s] = c],
             UNCHANGED <<now, msgSeqMap, firstAt, sends>>,
             token' \in Token, tokenFresh' \in BOOLEAN, issued' \in Token, issued' # 0,
             valid' \subseteq Token \ {NoToken}, delivered' \subseteq Reply
      PROVE  SenderBounds'
  BY <1>1, <1>5, RecordKept DEF SenderBounds, SenderTypeOK, InTransit, PC
<1>6. CASE GetAccessToken(s) \/ ReadToken(s) \/ PostFails(s)
  <2>0. /\ [sending[s] EXCEPT !.pc = "post", !.token = token] \in InTransit
        /\ [sending[s] EXCEPT !.pc = "ask"] \in InTransit
    BY <1>3, <1>4, RecordGoes DEF PC
  <2>1. PICK c \in {IdleSender, [sending[s] EXCEPT !.pc = "post", !.token = token],
                    [sending[s] EXCEPT !.pc = "ask"]} : sending' = [sending EXCEPT ![s] = c]
    BY <1>6 DEF GetAccessToken, ReadToken, PostFails, SenderGoes, SenderReturns
  <2>2. c \in {IdleSender} \union InTransit
    BY <2>0, <2>1, Zenon
  <2>. QED BY <1>5, <1>6, <2>1, <2>2
       DEF GetAccessToken, ReadToken, PostFails, SenderBounds, SenderTypeOK
<1>7. CASE RefreshToken(s)
  <2>. DEFINE p == IF sending[s].pc = "ask" THEN "store" ELSE "store401"
  <2>1. issued' \in Token /\ issued' # 0
    BY <1>7 DEF RefreshToken, SenderBounds, SenderTypeOK, Token
  <2>2. sending' = [sending EXCEPT ![s] = [sending[s] EXCEPT !.pc = p, !.token = issued']]
    BY <1>7 DEF RefreshToken
  <2>3. [sending[s] EXCEPT !.pc = p, !.token = issued'] \in InTransit
    BY <1>3, <2>1, RecordGoes DEF PC
  <2>4. valid' \subseteq Token \ {NoToken}
    BY <1>7, <2>1 DEF RefreshToken, SenderBounds, SenderTypeOK, NoToken
  <2>. QED BY <1>5, <1>7, <2>1, <2>2, <2>3, <2>4 DEF RefreshToken, SenderBounds, SenderTypeOK
<1>8. CASE RefreshFails(s) \/ PostUnauthorized(s)
  <2>0. /\ [sending[s] EXCEPT !.pc = "post", !.token = NoToken] \in InTransit
        /\ [sending[s] EXCEPT !.pc = "ask401", !.reply.again = TRUE] \in InTransit
    BY <1>3, <1>4, RecordGoes DEF PC
  <2>1. PICK c \in {IdleSender, [sending[s] EXCEPT !.pc = "post", !.token = NoToken],
                    [sending[s] EXCEPT !.pc = "ask401", !.reply.again = TRUE]} :
               sending' = [sending EXCEPT ![s] = c]
    BY <1>8 DEF RefreshFails, PostUnauthorized, SenderReturns
  <2>2. c \in {IdleSender} \union InTransit
    BY <2>0, <2>1, Zenon
  <2>. QED BY <1>5, <1>8, <2>1, <2>2 DEF RefreshFails, PostUnauthorized, SenderBounds, SenderTypeOK
<1>9. CASE StoreToken(s)
  <2>1. PICK c \in {[sending[s] EXCEPT !.pc = "read"], [sending[s] EXCEPT !.pc = "token"]} :
               sending' = [sending EXCEPT ![s] = c]
    BY <1>9 DEF StoreToken, SenderGoes
  <2>2. c \in InTransit
    BY <1>3, RecordGoes DEF PC
  <2>. QED BY <1>3, <1>5, <1>9, <2>1, <2>2 DEF StoreToken, SenderBounds, SenderTypeOK
<1>10. CASE PostAccepted(s)
  <2>1. delivered' \subseteq Reply /\ sending' = [sending EXCEPT ![s] = IdleSender]
    BY <1>3, <1>10 DEF PostAccepted, SenderReturns, SenderBounds, SenderTypeOK
  <2>. QED BY <1>5, <1>10, <2>1 DEF PostAccepted, SenderBounds, SenderTypeOK
<1>. QED BY <1>6, <1>7, <1>8, <1>9, <1>10

\* The state of the replies stays well formed (platform/qqbot/qqbot.go), for any TTL and
\* number of tokens: the numbers drawn for an event stay within the messages there are.
THEOREM SenderTypeCorrect == SenderSpec => []SenderTypeOK
<1>1. SenderInit => SenderBounds
  <2>. SUFFICES ASSUME SenderInit PROVE SenderBounds
    OBVIOUS
  <2>1. NoEntry \in [seq : 0..MaxSend, createdAt : {Unset} \union 0..MaxNow] /\ NoEntry.seq = 0
    BY DEF NoEntry
  <2>2. tokenFresh \in BOOLEAN
    BY Zenon DEF SenderInit
  <2>. QED BY <2>1, <2>2 DEF SenderInit, SenderBounds, SenderTypeOK, Token, NoToken
<1>2. SenderBounds /\ [SenderNext]_senderVars => SenderBounds'
  <2>. SUFFICES ASSUME SenderBounds, [SenderNext]_senderVars PROVE SenderBounds'
    OBVIOUS
  <2>1. CASE UNCHANGED senderVars
    BY <2>1 DEF senderVars, SenderBounds, SenderTypeOK
  <2>2. CASE ClockTicks
    <3>1. tokenFresh' \in BOOLEAN
      <4>1. tokenFresh \in BOOLEAN /\ (tokenFresh' = tokenFresh \/ tokenFresh' = FALSE)
        BY <2>2 DEF ClockTicks, SenderBounds, SenderTypeOK
      <4>. QED BY <4>1, Zenon
    <3>2. now' \in 0..MaxNow
      BY <2>2 DEF ClockTicks, SenderBounds, SenderTypeOK
    <3>. QED BY <2>2, <3>1, <3>2 DEF ClockTicks, SenderBounds, SenderTypeOK
  <2>3. ASSUME NEW t \in Token, Revoke(t) PROVE SenderBounds'
    BY <2>3 DEF Revoke, SenderBounds, SenderTypeOK
  <2>. QED BY <2>1, <2>2, <2>3, SendBounds, StepBounds DEF SenderNext
<1>3. SenderBounds => SenderTypeOK
  BY DEF SenderBounds
<1>. QED BY <1>1, <1>2, <1>3, PTL DEF SenderSpec

-----------------------------------------------------------------------------
(* platform/qqbot: the connection to the gateway.

   Some loop watches: triggerReconnect is ignored only while reconnectLoop
   runs, which ends by starting new loops, by giving up, or after Stop.

   And lastSeq loses nothing: the queue of a connection holds the events of
   one session without a gap, seen from those that were taken before, since
   the gateway counts on where lastSeq was when it resumes. *)

HIDE SenderAssumption
USE GatewayAssumption

\* Where a readLoop may be, with what in hand, and where reconnectLoop.
LoopState ==
  {l \in [pc : {"read", "handle", "gone"}, link : 0..MaxConn, event : GatewayEvent \union {NoEvent}] :
     /\ l.pc # "gone" => l.link # 0
     /\ l.pc # "handle" => l.event = NoEvent}

ReconPC == {"new", "no", "close", "dial", "auth", "reset", "failed"}
ReconState ==
  {s \in [pc : ReconPC, attempt : 0..MaxAttempts, link : 0..MaxConn] :
     s.pc = "auth" => s.link # 0}

ServerState ==
  {s \in [session : 0..MaxConn, seq : 0..MaxSeq, resumable : BOOLEAN, link : 0..MaxConn] :
     s.session # 0 => s.link # 0 /\ s.seq # 0}

GatewayTypes ==
  /\ wsConn \in 0..MaxConn
  /\ link \in [Link -> {"none", "open", "closed", "lost"}]
  /\ sessionID \in 0..MaxConn /\ lastSeq \in 0..MaxSeq /\ beats \in Nat
  /\ sessionID # 0 => lastSeq \in 1..MaxSeq
  /\ listener \in [Link -> LoopState]
  /\ recon \in ReconState
  /\ server \in ServerState
  /\ frames \in [Link -> Seq(Frame)]
  /\ reconnecting \in BOOLEAN /\ stopped \in BOOLEAN /\ gaveUp \in BOOLEAN

\* reconnectLoop runs exactly while reconnecting is set; it fails when the attempts
\* are over or after Stop; and a readLoop finds a connection unless it is gone.
ReconOK ==
  /\ reconnecting <=> recon.pc \notin {"new", "no"}
  /\ recon.pc = "failed" => stopped \/ gaveUp
  /\ wsConn = 0 => recon.pc \in {"new", "dial"} \/ stopped \/ gaveUp
  /\ recon.pc = "new" => beats = 0 /\ \A c \in Link : listener[c].pc = "gone"

\* The numbers that were taken: handled, or in the hand of a readLoop.
Taken ==
  {n \in Nat : n \in handled
                 \/ \E r \in Link : listener[r].event = [session |-> server.session, seq |-> n]}

Carries(frame, n) == frame.op = "event" /\ frame.event.seq = n

\* The events of a queue are of session s, and before each come all those before it
\* that are not in T ...
GapFree(q, s, T) ==
  \A i \in DOMAIN q : q[i].op = "event" =>
    /\ q[i].event.session = s
    /\ \A n \in 2..(q[i].event.seq - 1) : n \in T \/ \E j \in DOMAIN q : j < i /\ Carries(q[j], n)

\* ... and up to number m they are all there.
Covers(q, m, T) == \A n \in 2..m : n \in T \/ \E i \in DOMAIN q : Carries(q[i], n)

\* There is one connection at a time, and what we closed has no frames.
LinksOK ==
  /\ \A c \in Link : c # wsConn => link[c] \in {"none", "closed"}
  /\ \A c \in Link : link[c] \in {"none", "closed"} => frames[c] = <<>>
  /\ recon.pc = "new" => wsConn = 0
  /\ recon.pc = "dial" => wsConn = 0 \/ link[wsConn] = "closed"
  /\ wsConn # 0 => link[wsConn] # "none"

\* Before it resumes or identifies, a connection is not the gateway's yet.
AuthOK ==
  /\ \A c \in Link : link[c] = "none" => server.link # c /\ listener[c] = Gone
  /\ recon.pc = "auth" =>
       /\ recon.link = wsConn /\ wsConn # 0 /\ server.link # wsConn /\ listener[wsConn] = Gone
       /\ \A i \in DOMAIN frames[wsConn] : frames[wsConn][i].op # "event"

\* The gateway and we mean the same session, whose events no queue lacks.
QueuesOK ==
  /\ sessionID \in {0, server.session}
  /\ \A c \in Link : GapFree(frames[c], server.session, Taken)
  /\ server.link # 0 /\ link[server.link] = "open" => Covers(frames[server.link], server.seq, Taken)

GatewayInv ==
  /\ GatewayTypes /\ ReconOK /\ SomeoneWatches
  /\ LinksOK /\ AuthOK /\ QueuesOK /\ ResumeLosesNothing
-----------------------------------------------------------------------------
(* The frames of the gateway.                                              *)

\* The fields of these records, and what they become.
LEMMA LoopStates ==
  /\ \A l \in LoopState : /\ l.pc \in {"read", "handle", "gone"} /\ l.link \in 0..MaxConn
                          /\ l.pc # "gone" => l.link \in Link
                          /\ l.event \in GatewayEvent \union {NoEvent}
                          /\ l.pc # "handle" => l.event = NoEvent
  /\ \A l \in LoopState, event \in GatewayEvent :
       l.pc # "gone" => [l EXCEPT !.pc = "handle", !.event = event] \in LoopState
<1>1. ASSUME NEW l \in LoopState
      PROVE  /\ l.pc \in {"read", "handle", "gone"} /\ l.link \in 0..MaxConn
             /\ l.pc # "gone" => l.link \in Link
             /\ l.event \in GatewayEvent \union {NoEvent}
             /\ l.pc # "handle" => l.event = NoEvent
  BY DEF LoopState, Link
<1>2. ASSUME NEW l \in LoopState, NEW event \in GatewayEvent, l.pc # "gone"
      PROVE  [l EXCEPT !.pc = "handle", !.event = event] \in LoopState
  <2> DEFINE m == [l EXCEPT !.pc = "handle", !.event = event]
  <2>1. m \in [pc : {"read", "handle", "gone"}, link : 0..MaxConn,
               event : GatewayEvent \union {NoEvent}]
    BY DEF LoopState
  <2>2. m.pc = "handle" /\ m.link = l.link
    BY DEF LoopState
  <2>. QED BY <1>1, <1>2, <2>1, <2>2 DEF LoopState
<1>. QED BY <1>1, <1>2

LEMMA ReconStates ==
  ASSUME NEW s \in ReconState
  PROVE  /\ s.pc \in ReconPC
         /\ s.attempt \in 0..MaxAttempts /\ s.link \in 0..MaxConn
         /\ s.pc = "auth" => s.link \in Link
BY DEF ReconState, ReconPC, Link

LEMMA ReconSteps ==
  /\ 0 \in 0..MaxConn /\ Link \subseteq 0..MaxConn /\ 0 \notin Link
  /\ 1 \in 0..MaxAttempts /\ 0 \in 0..MaxAttempts
  /\ \A p \in ReconPC, n \in 0..MaxAttempts, c \in 0..MaxConn :
       (p = "auth" => c # 0) => [pc |-> p, attempt |-> n, link |-> c] \in ReconState
  /\ \A s \in ReconState, p \in ReconPC :
       p # "auth" => [s EXCEPT !.pc = p] \in ReconState
  /\ \A s \in ReconState, p \in ReconPC, c \in 0..MaxConn :
       (p = "auth" => c # 0) => [s EXCEPT !.pc = p, !.link = c] \in ReconState
  /\ \A s \in ReconState, p \in ReconPC, n \in 0..MaxAttempts, c \in 0..MaxConn :
       (p = "auth" => c # 0) => [s EXCEPT !.pc = p, !.attempt = n, !.link = c] \in ReconState
<1> DEFINE ReconRecord == [pc : ReconPC, attempt : 0..MaxAttempts, link : 0..MaxConn]
<1>0. ReconState = {s \in ReconRecord : s.pc = "auth" => s.link # 0}
  BY DEF ReconState, ReconPC
<1> HIDE DEF ReconRecord
<1>1. /\ 0 \in 0..MaxConn /\ Link \subseteq 0..MaxConn /\ 0 \notin Link
      /\ 1 \in 0..MaxAttempts /\ 0 \in 0..MaxAttempts
  BY DEF Link
<1>2. ASSUME NEW p \in ReconPC, NEW n \in 0..MaxAttempts, NEW c \in 0..MaxConn, p = "auth" => c # 0
      PROVE  [pc |-> p, attempt |-> n, link |-> c] \in ReconState
  BY <1>0, <1>2 DEF ReconRecord
<1>3. ASSUME NEW s \in ReconState, NEW p \in ReconPC, p # "auth"
      PROVE  [s EXCEPT !.pc = p] \in ReconState
  <2> DEFINE m == [s EXCEPT !.pc = p]
  <2>1. s \in ReconRecord
    BY <1>0
  <2>2. m \in ReconRecord /\ m.pc = p
    BY <2>1 DEF ReconRecord
  <2>. QED BY <1>0, <1>3, <2>2
<1>4. ASSUME NEW s \in ReconState, NEW p \in ReconPC, NEW c \in 0..MaxConn, p = "auth" => c # 0
      PROVE  [s EXCEPT !.pc = p, !.link = c] \in ReconState
  <2> DEFINE m == [s EXCEPT !.pc = p, !.link = c]
  <2>1. s \in ReconRecord
    BY <1>0
  <2>2. m \in ReconRecord /\ m.pc = p /\ m.link = c
    BY <2>1 DEF ReconRecord
  <2>. QED BY <1>0, <1>4, <2>2
<1>5. ASSUME NEW s \in ReconState, NEW p \in ReconPC, NEW n \in 0..MaxAttempts,
             NEW c \in 0..MaxConn, p = "auth" => c # 0
      PROVE  [s EXCEPT !.pc = p, !.attempt = n, !.link = c] \in ReconState
  <2> DEFINE m == [s EXCEPT !.pc = p, !.attempt = n, !.link = c]
  <2>1. s \in ReconRecord
    BY <1>0
  <2>2. m \in ReconRecord /\ m.pc = p /\ m.link = c
    BY <2>1 DEF ReconRecord
  <2>. QED BY <1>0, <1>5, <2>2
<1>. QED BY <1>1, <1>2, <1>3, <1>4, <1>5

LEMMA ServerStates ==
  ASSUME NEW s \in ServerState
  PROVE  /\ s.session \in 0..MaxConn /\ s.seq \in 0..MaxSeq
         /\ s.resumable \in BOOLEAN /\ s.link \in 0..MaxConn
         /\ s.session # 0 => s.session \in Link /\ s.link \in Link /\ s.seq \in 1..MaxSeq
         /\ s.link # 0 => s.link \in Link
BY DEF ServerState, Link

LEMMA ServerSteps ==
  /\ \A c \in Link : [session |-> c, seq |-> 1, resumable |-> TRUE, link |-> c] \in ServerState
  /\ \A s \in ServerState :
       /\ [s EXCEPT !.resumable = FALSE] \in ServerState
       /\ \A c \in Link : [s EXCEPT !.link = c] \in ServerState
       /\ s.seq < MaxSeq => [s EXCEPT !.seq = s.seq + 1] \in ServerState
<1>1. 1 \in 0..MaxSeq /\ \A c \in Link : c \in 0..MaxConn /\ c # 0
  BY DEF Link
<1>2. ASSUME NEW c \in Link
      PROVE  [session |-> c, seq |-> 1, resumable |-> TRUE, link |-> c] \in ServerState
  BY <1>1 DEF ServerState
<1>3. ASSUME NEW s \in ServerState PROVE [s EXCEPT !.resumable = FALSE] \in ServerState
  BY DEF ServerState
<1>4. ASSUME NEW s \in ServerState, NEW c \in Link PROVE [s EXCEPT !.link = c] \in ServerState
  BY <1>1 DEF ServerState
<1>5. ASSUME NEW s \in ServerState, s.seq < MaxSeq
      PROVE [s EXCEPT !.seq = s.seq + 1] \in ServerState
  <2>1. s.seq + 1 \in 0..MaxSeq /\ s.seq + 1 # 0
    BY <1>5, ServerStates
  <2>. QED BY <2>1 DEF ServerState
<1>. QED BY <1>2, <1>3, <1>4, <1>5

LEMMA NoticeFrames ==
  /\ [op |-> "ack"] \in Frame
  /\ \A op \in Notice : [op |-> op] \in Frame
  /\ \A event \in GatewayEvent : [op |-> "event", event |-> event] \in Frame
BY DEF Frame

LEMMA FrameFields ==
  ASSUME NEW frame \in Frame
  PROVE  /\ frame.op \in {"event", "ack"} \union Notice
         /\ frame.op = "event" => frame.event \in GatewayEvent
BY DEF Frame, Notice

\* A heartbeat leaves the queues, or the answer comes to wsConn.
LEMMA HeartbeatFrames ==
  ASSUME GatewayTypes, NEW queues \in [Link -> Seq(Frame)], NEW q \in Heartbeat(queues)
  PROVE  /\ q \in [Link -> Seq(Frame)]
         /\ \/ q = queues
            \/ /\ wsConn \in Link /\ link[wsConn] = "open"
               /\ q = [queues EXCEPT ![wsConn] = Append(queues[wsConn], [op |-> "ack"])]
<1>1. CASE q = queues
  BY <1>1
<1>2. CASE /\ wsConn # 0 /\ link[wsConn] = "open"
           /\ q = [queues EXCEPT ![wsConn] = Append(queues[wsConn], [op |-> "ack"])]
  <2>1. wsConn \in Link
    BY <1>2 DEF GatewayTypes, Link
  <2>2. Append(queues[wsConn], [op |-> "ack"]) \in Seq(Frame)
    BY <2>1, NoticeFrames, AppendProperties
  <2>. QED BY <1>2, <2>1, <2>2
<1>. QED BY <1>1, <1>2 DEF Heartbeat

\* What a reconnect is sent again are events of the session.
LEMMA AfterTypes ==
  ASSUME GatewayTypes, server.session # 0, NEW n \in 1..MaxSeq
  PROVE  /\ After(n) \in Seq(Frame)
         /\ DOMAIN After(n) = 1..(server.seq - n)
         /\ \A i \in DOMAIN After(n) :
              /\ i \in Nat \ {0} /\ After(n)[i].op = "event"
              /\ After(n)[i].event = [session |-> server.session, seq |-> n + i]
<1>1. server.session \in Link /\ server.seq \in 0..MaxSeq
  BY DEF GatewayTypes, ServerState, Link
<1>2. DOMAIN After(n) = 1..(server.seq - n)
  BY DEF After
<1>3. ASSUME NEW i \in 1..(server.seq - n)
      PROVE  /\ i \in Nat \ {0} /\ After(n)[i].op = "event" /\ After(n)[i] \in Frame
             /\ After(n)[i].event = [session |-> server.session, seq |-> n + i]
  <2>1. After(n)[i] = [op |-> "event", event |-> [session |-> server.session, seq |-> n + i]]
    BY DEF After
  <2>2. [session |-> server.session, seq |-> n + i] \in GatewayEvent
    BY <1>1 DEF GatewayEvent
  <2>. QED BY <2>1, <2>2, NoticeFrames
<1>4. After(n) \in Seq(Frame)
  <2>1. CASE server.seq - n \in Nat
    <3>1. After(n) \in [1..(server.seq - n) -> Frame]
      BY <1>3 DEF After
    <3>. QED BY <2>1, <3>1, FunctionIsSeq
  <2>2. CASE server.seq - n \notin Nat
    <3>1. After(n) \in [1..0 -> Frame]
      BY <1>1, <1>2, <2>2 DEF After
    <3>. QED BY <3>1, FunctionIsSeq
  <2>. QED BY <2>1, <2>2
<1>. QED BY <1>2, <1>3, <1>4

\* Closing empties the queue of a connection, if there is one.
LEMMA CloseTypes ==
  ASSUME GatewayTypes, NEW c, CloseConn(c)
  PROVE  link' \in [Link -> {"none", "open", "closed", "lost"}] /\ frames' \in [Link -> Seq(Frame)]
BY EmptySeq DEF CloseConn, GatewayTypes

LEMMA TriggerTypes ==
  ASSUME GatewayTypes, TriggerReconnect
  PROVE  /\ reconnecting' \in BOOLEAN
         /\ recon' \in ReconState
<1>1. CASE reconnecting
  BY <1>1 DEF TriggerReconnect, GatewayTypes
<1>2. CASE ~reconnecting
  <2>1. reconnecting' \in BOOLEAN /\ recon' = [pc |-> "close", attempt |-> 1, link |-> 0]
    BY <1>2 DEF TriggerReconnect
  <2>. QED BY <2>1, ReconSteps DEF ReconPC
<1>. QED BY <1>1, <1>2

LEMMA GoneTypes ==
  /\ Gone.pc = "gone" /\ Gone.event = NoEvent
  /\ GatewayTypes => /\ Gone \in LoopState
                     /\ ReadLoop \in LoopState
                     /\ ReadLoop.pc \in {"read", "gone"} /\ ReadLoop.event = NoEvent
BY DEF Gone, ReadLoop, GatewayTypes, LoopState

\* A readLoop takes a frame of a connection.
LEMMA ReadsFrame ==
  ASSUME GatewayTypes, NEW r \in Link, ReadFrame(r)
  PROVE  LET c == listener[r].link
             frame == Head(frames[c])
             rest == [frames EXCEPT ![c] = Tail(frames[c])] IN
         /\ c \in Link /\ frames[c] \in Seq(Frame) /\ frames[c] # <<>>
         /\ frame \in Frame /\ rest \in [Link -> Seq(Frame)]
         /\ frame.op \in {"event", "ack", "beat", "reconnect", "invalid", "resumable"}
         /\ frame.op = "event" => frame.event \in GatewayEvent
<1> DEFINE c == listener[r].link
           frame == Head(frames[c])
<1>1. c \in Link /\ frames[c] \in Seq(Frame) /\ frames[c] # <<>>
  BY LoopStates DEF ReadFrame, GatewayTypes
<1>2. frame \in Frame /\ [frames EXCEPT ![c] = Tail(frames[c])] \in [Link -> Seq(Frame)]
  BY <1>1, TailItems DEF GatewayTypes
<1>. QED BY <1>1, <1>2, FrameFields DEF Notice

LEMMA LoopTypes ==
  ASSUME GatewayTypes, NEW r \in Link, ReadError(r) \/ ReadFrame(r) \/ Handled(r)
  PROVE  GatewayTypes'
<1>1. CASE ReadError(r)
  <2>1. reconnecting' \in BOOLEAN
        /\ recon' \in ReconState
    BY <1>1, TriggerTypes DEF ReadError, GatewayTypes
  <2>2. listener' \in [Link -> LoopState]
    BY <1>1, GoneTypes DEF ReadError, GatewayTypes
  <2>. QED BY <1>1, <2>1, <2>2 DEF ReadError, GatewayTypes
<1>2. CASE ReadFrame(r)
  <2> DEFINE c == listener[r].link
             frame == Head(frames[c])
             rest == [frames EXCEPT ![c] = Tail(frames[c])]
  <2>2. frame \in Frame /\ rest \in [Link -> Seq(Frame)]
    BY <1>2, ReadsFrame
  <2>3. CASE frame.op = "event"
    <3>1. frame.event \in GatewayEvent /\ frame.event.seq \in 0..MaxSeq
      BY <2>2, <2>3, FrameFields DEF GatewayEvent
    <3>2. listener' = [listener EXCEPT ![r] = [listener[r] EXCEPT !.pc = "handle",
                                                                  !.event = frame.event]]
          /\ lastSeq' = frame.event.seq /\ frames' = rest
      BY <1>2, <2>3 DEF ReadFrame
    <3>3. listener' \in [Link -> LoopState]
      BY <1>2, <3>1, <3>2, LoopStates DEF ReadFrame, GatewayTypes
    <3>4. frame.event.seq \in 1..MaxSeq
      BY <3>1 DEF GatewayEvent
    <3>. QED BY <1>2, <2>2, <2>3, <3>1, <3>2, <3>3, <3>4 DEF ReadFrame, GatewayTypes
  <2>4. CASE frame.op = "beat"
    <3>1. frames' \in [Link -> Seq(Frame)]
      BY <1>2, <2>2, <2>4, HeartbeatFrames DEF ReadFrame
    <3>2. listener' \in [Link -> LoopState]
      BY <1>2, <2>4, GoneTypes DEF ReadFrame, GatewayTypes
    <3>. QED BY <1>2, <2>4, <3>1, <3>2 DEF ReadFrame, GatewayTypes
  <2>5. CASE frame.op = "ack"
    <3>2. listener' \in [Link -> LoopState]
      BY <1>2, <2>5, GoneTypes DEF ReadFrame, GatewayTypes
    <3>. QED BY <1>2, <2>2, <2>5, <3>2 DEF ReadFrame, GatewayTypes
  <2>6. CASE frame.op \in {"reconnect", "invalid", "resumable"}
    <3>1. reconnecting' \in BOOLEAN
          /\ recon' \in ReconState
      BY <1>2, <2>6, TriggerTypes DEF ReadFrame
    <3>2. listener' \in [Link -> LoopState]
      BY <1>2, <2>6, GoneTypes DEF ReadFrame, GatewayTypes
    <3>3. sessionID' \in {0, sessionID} /\ frames' = rest /\ lastSeq' = lastSeq
      BY <1>2, <2>6 DEF ReadFrame
    <3>. QED BY <1>2, <2>2, <3>1, <3>2, <3>3 DEF ReadFrame, GatewayTypes
  <2>. QED BY <1>2, <2>3, <2>4, <2>5, <2>6, ReadsFrame
<1>3. CASE Handled(r)
  BY <1>3, GoneTypes DEF Handled, GatewayTypes
<1>. QED BY <1>1, <1>2, <1>3

LEMMA ReconTypes ==
  ASSUME GatewayTypes,
         CloseOld \/ AttemptFails \/ Identify \/ Resume \/ ResumeFails \/ ResetReconnecting
           \/ \E c \in Link : Dial(c)
  PROVE  GatewayTypes'
<1>1. CASE CloseOld
  <2>1. recon' = [recon EXCEPT !.pc = IF stopped THEN "failed" ELSE "dial", !.attempt = 1,
                               !.link = 0]
    BY <1>1 DEF CloseOld, NextAttempt
  <2>2. recon' \in ReconState
    BY <2>1, ReconSteps DEF GatewayTypes, ReconPC
  <2>. QED BY <1>1, <2>2, CloseTypes DEF CloseOld, GatewayTypes
<1>2. CASE AttemptFails
  <2>1. recon' \in ReconState
    <3>1. CASE recon.attempt < MaxAttempts
      <4>1. recon.attempt + 1 \in 0..MaxAttempts
        BY <3>1, ReconStates DEF GatewayTypes
      <4>2. recon' = [recon EXCEPT !.pc = IF stopped THEN "failed" ELSE "dial",
                                   !.attempt = recon.attempt + 1, !.link = 0]
        BY <1>2, <3>1 DEF AttemptFails, NextAttempt
      <4>. QED BY <4>1, <4>2, ReconSteps DEF GatewayTypes, ReconPC
    <3>2. CASE ~(recon.attempt < MaxAttempts)
      <4>1. recon' = [recon EXCEPT !.pc = "failed", !.link = 0]
        BY <1>2, <3>2 DEF AttemptFails
      <4>. QED BY <4>1, ReconSteps DEF GatewayTypes, ReconPC
    <3>. QED BY <3>1, <3>2
  <2>2. gaveUp' \in BOOLEAN
    BY <1>2 DEF AttemptFails, GatewayTypes
  <2>. QED BY <1>2, <2>1, <2>2, CloseTypes DEF AttemptFails, GatewayTypes
<1>3. CASE Identify
  <2>1. recon.link \in Link /\ recon' \in ReconState
    BY <1>3, ReconStates, ReconSteps DEF Identify, StartLoops, GatewayTypes, ReconPC
  <2>2. listener' \in [Link -> LoopState]
    BY <1>3, GoneTypes DEF Identify, StartLoops, GatewayTypes
  <2>3. server' \in ServerState
    BY <1>3, <2>1, ServerSteps DEF Identify, WaitForReady
  <2>. QED BY <1>3, <2>1, <2>2, <2>3 DEF Identify, WaitForReady, GatewayTypes, Link
<1>4. CASE Resume
  <2> DEFINE c == recon.link
  <2>1. c \in Link
    BY <1>4, ReconStates DEF Resume, GatewayTypes
  <2>2. /\ recon' \in ReconState /\ listener' \in [Link -> LoopState]
        /\ server' \in ServerState
    <3>1. recon' = [recon EXCEPT !.pc = "reset"] /\ listener' = [listener EXCEPT ![c] = ReadLoop]
          /\ server' \in {server, [server EXCEPT !.link = c]}
      BY <1>4 DEF Resume, StartLoops
    <3>2. recon' \in ReconState
      BY <3>1, ReconSteps DEF GatewayTypes, ReconPC
    <3>3. server' \in ServerState
      BY <2>1, <3>1, ServerSteps DEF GatewayTypes
    <3>. QED BY <2>1, <3>1, <3>2, <3>3, GoneTypes DEF GatewayTypes
  <2>3. frames' \in [Link -> Seq(Frame)]
    <3>1. CASE frames' = [frames EXCEPT ![c] = Append(frames[c], [op |-> "invalid"])]
      BY <2>1, <3>1, NoticeFrames, AppendProperties DEF GatewayTypes, Notice
    <3>2. CASE /\ server.session = sessionID
               /\ frames' = [frames EXCEPT ![c] = frames[c] \o After(lastSeq)]
      <4>1. After(lastSeq) \in Seq(Frame)
        BY <1>4, <3>2, AfterTypes DEF Resume, GatewayTypes
      <4>2. frames[c] \o After(lastSeq) \in Seq(Frame)
        BY <2>1, <4>1, ConcatProperties DEF GatewayTypes
      <4>. QED BY <2>1, <3>2, <4>2 DEF GatewayTypes
    <3>. QED BY <1>4, <3>1, <3>2 DEF Resume
  <2>. QED BY <1>4, <2>1, <2>2, <2>3 DEF Resume, GatewayTypes
<1>5. CASE ResumeFails
  BY <1>5 DEF ResumeFails, GatewayTypes
<1>7. CASE ResetReconnecting
  <2>1. recon' \in ReconState /\ beats' \in Nat /\ reconnecting' \in BOOLEAN
    <3>1. recon' = [pc |-> "no", attempt |-> 0, link |-> 0] /\ reconnecting' \in BOOLEAN
      BY <1>7 DEF ResetReconnecting
    <3>2. recon' \in ReconState
      BY <3>1, ReconSteps DEF ReconPC
    <3>3. beats' \in Nat
      BY <1>7 DEF ResetReconnecting, GatewayTypes
    <3>. QED BY <3>1, <3>2, <3>3
  <2>. QED BY <1>7, <2>1 DEF ResetReconnecting, GatewayTypes
<1>6. CASE \E c \in Link : Dial(c)
  <2>. PICK c \in Link : Dial(c)
    BY <1>6
  <2>1. recon' \in ReconState /\ c \in 0..MaxConn
    BY ReconSteps DEF Dial, GatewayTypes, ReconPC
  <2>. QED BY <2>1 DEF Dial, GatewayTypes
<1>. QED BY <1>1, <1>2, <1>3, <1>4, <1>5, <1>6, <1>7

LEMMA OutsideTypes ==
  ASSUME GatewayTypes,
         \/ Start \/ Stop \/ LoopEnds \/ TickUnanswered \/ Tick \/ SendEvent
         \/ \E c \in Link : Break(c)
         \/ \E op \in Notice : SendNotice(op)
  PROVE  GatewayTypes'
<1>1. CASE Start
  <2>1. 1 \in Link /\ [pc |-> "read", link |-> 1, event |-> NoEvent] \in LoopState
    BY DEF Link, LoopState
  <2>2. recon' \in ReconState
    BY <1>1, ReconSteps DEF Start, GatewayTypes, ReconPC
  <2>3. server' \in ServerState
    BY <1>1, <2>1, ServerSteps DEF Start, WaitForReady
  <2>. QED BY <1>1, <2>1, <2>2, <2>3 DEF Start, WaitForReady, GatewayTypes, Link
<1>2. CASE Stop
  BY <1>2, CloseTypes DEF Stop, GatewayTypes
<1>3. CASE LoopEnds
  BY <1>3 DEF LoopEnds, GatewayTypes
<1>4. CASE TickUnanswered
  BY <1>4, TriggerTypes DEF TickUnanswered, GatewayTypes
<1>5. CASE Tick
  <2>1. frames' \in [Link -> Seq(Frame)]
    BY <1>5, HeartbeatFrames DEF Tick, GatewayTypes
  <2>. QED BY <1>5, <2>1 DEF Tick, GatewayTypes
<1>6. CASE SendEvent
  <2> DEFINE event == [session |-> server.session, seq |-> server.seq + 1]
             c == server.link
  <2>1. event \in GatewayEvent
    <3>1. server.session \in Link /\ server.seq + 1 \in 2..MaxSeq
      <4>1. server.session # 0 /\ server.seq < MaxSeq /\ server \in ServerState
        BY <1>6 DEF SendEvent, GatewayTypes
      <4>2. server.session \in Link /\ server.seq \in 1..MaxSeq
        BY <4>1, ServerStates
      <4>. QED BY <4>1, <4>2
    <3>. QED BY <3>1 DEF GatewayEvent
  <2>2. server' \in ServerState /\ c \in Link
    BY <1>6, ServerStates, ServerSteps DEF SendEvent, GatewayTypes
  <2>3. frames' \in [Link -> Seq(Frame)]
    <3>1. Append(frames[c], [op |-> "event", event |-> event]) \in Seq(Frame)
      BY <2>1, <2>2, NoticeFrames, AppendProperties DEF GatewayTypes
    <3>. QED BY <1>6, <2>2, <3>1 DEF SendEvent, GatewayTypes
  <2>. QED BY <1>6, <2>2, <2>3 DEF SendEvent, GatewayTypes
<1>7. CASE \E c \in Link : Break(c)
  <2> PICK c \in Link : Break(c)
    BY <1>7
  <2> PICK n \in 0..Len(frames[c]) : frames' = [frames EXCEPT ![c] = SubSeq(frames[c], 1, n)]
    BY DEF Break
  <2>1. SubSeq(frames[c], 1, n) \in Seq(Frame)
    BY PrefixItems DEF GatewayTypes
  <2>. QED BY <2>1 DEF Break, GatewayTypes
<1>8. CASE \E op \in Notice : SendNotice(op)
  <2> PICK op \in Notice : SendNotice(op)
    BY <1>8
  <2> DEFINE c == server.link
  <2>1. server' \in ServerState /\ c \in Link
    BY ServerStates, ServerSteps DEF SendNotice, GatewayTypes
  <2>2. Append(frames[c], [op |-> op]) \in Seq(Frame)
    BY <2>1, NoticeFrames, AppendProperties DEF GatewayTypes
  <2>. QED BY <2>1, <2>2 DEF SendNotice, GatewayTypes
<1>. QED BY <1>1, <1>2, <1>3, <1>4, <1>5, <1>6, <1>7, <1>8

\* A trigger leaves a reconnectLoop that runs.
LEMMA TriggerWatches ==
  ASSUME GatewayTypes, ReconOK, TriggerReconnect, UNCHANGED <<wsConn, stopped, gaveUp>>,
         recon.pc # "new"
  PROVE  ReconOK' /\ SomeoneWatches'
<1>1. CASE reconnecting
  BY <1>1 DEF TriggerReconnect, ReconOK, SomeoneWatches
<1>2. CASE ~reconnecting
  <2>1. recon'.pc = "close" /\ recon.pc = "no"
    BY <1>2 DEF TriggerReconnect, ReconOK
  <2>2. reconnecting' \in BOOLEAN /\ reconnecting'
    BY <1>2, Zenon DEF TriggerReconnect
  <2>3. wsConn' = 0 => stopped' \/ gaveUp'
    BY <2>1 DEF ReconOK
  <2>. QED BY <2>1, <2>2, <2>3 DEF ReconOK, SomeoneWatches
<1>. QED BY <1>1, <1>2

LEMMA WatchKept ==
  ASSUME GatewayTypes, ReconOK, SomeoneWatches, GatewayNext
  PROVE  ReconOK' /\ SomeoneWatches'
<1>1. CASE Start
  <2>1. recon'.pc = "no" /\ beats' = 1 /\ wsConn' = 1 /\ reconnecting' = reconnecting
        /\ recon.pc = "new"
    BY <1>1 DEF Start, GatewayTypes, ReconState
  <2>. QED BY <2>1 DEF ReconOK, SomeoneWatches
<1>2. CASE Stop
  BY <1>2 DEF Stop, ReconOK, SomeoneWatches
<1>3. ASSUME NEW r \in Link, ReadError(r) PROVE ReconOK' /\ SomeoneWatches'
  <2>1. CASE stopped
    BY <1>3, <2>1 DEF ReadError, ReconOK, SomeoneWatches
  <2>2. CASE ~stopped
    <3>1. TriggerReconnect /\ UNCHANGED <<wsConn, stopped, gaveUp>>
      BY <1>3, <2>2 DEF ReadError
    <3>2. recon.pc # "new"
      BY <1>3 DEF ReadError, ReconOK
    <3>. QED BY <3>1, <3>2, TriggerWatches
  <2>. QED BY <2>1, <2>2
<1>4. ASSUME NEW r \in Link, ReadFrame(r) PROVE ReconOK' /\ SomeoneWatches'
  <2> DEFINE frame == Head(frames[listener[r].link])
  <2>1. CASE frame.op \in {"reconnect", "invalid", "resumable"}
    <3>1. TriggerReconnect /\ wsConn' = wsConn /\ stopped' = stopped /\ gaveUp' = gaveUp
      BY <1>4, <2>1 DEF ReadFrame
    <3>2. recon.pc # "new"
      BY <1>4 DEF ReadFrame, ReconOK
    <3>. QED BY <3>1, <3>2, TriggerWatches
  <2>2. CASE frame.op \notin {"reconnect", "invalid", "resumable"}
    <3>0. frame.op \in {"event", "ack", "beat"}
      BY <1>4, <2>2, ReadsFrame
    <3>1. UNCHANGED <<reconnecting, recon, wsConn, stopped, gaveUp, beats>>
      BY <1>4, <3>0 DEF ReadFrame
    <3>2. \/ listener' = [listener EXCEPT ![r] = ReadLoop]
          \/ listener' = [listener EXCEPT ![r] = [listener[r] EXCEPT !.pc = "handle",
                                                                    !.event = frame.event]]
      BY <1>4, <3>0 DEF ReadFrame
    <3>3. listener'[r].pc \in {"read", "handle"} \/ wsConn = 0 \/ stopped
      <4>1. listener \in [Link -> LoopState]
        BY DEF GatewayTypes
      <4>2. [listener[r] EXCEPT !.pc = "handle", !.event = frame.event].pc = "handle"
        BY <4>1 DEF LoopState
      <4>3. CASE listener' = [listener EXCEPT ![r] = ReadLoop]
        <5>1. listener'[r] = ReadLoop
          BY <4>1, <4>3
        <5>. QED BY <5>1 DEF ReadLoop
      <4>4. CASE listener' = [listener EXCEPT ![r] = [listener[r] EXCEPT !.pc = "handle",
                                                                        !.event = frame.event]]
        <5>1. listener'[r] = [listener[r] EXCEPT !.pc = "handle", !.event = frame.event]
          BY <4>1, <4>4
        <5>. QED BY <4>2, <5>1
      <4>. QED BY <3>2, <4>3, <4>4
    <3>4. recon.pc # "new"
      BY <1>4 DEF ReadFrame, ReconOK
    <3>. QED BY <3>1, <3>3, <3>4 DEF ReconOK, SomeoneWatches
  <2>. QED BY <2>1, <2>2
<1>5. ASSUME NEW r \in Link, Handled(r) PROVE ReconOK' /\ SomeoneWatches'
  <2>1. listener'[r].pc = "read" \/ wsConn = 0 \/ stopped
    BY <1>5 DEF Handled, ReadLoop, GatewayTypes
  <2>. QED BY <1>5, <2>1 DEF Handled, ReconOK, SomeoneWatches
<1>6. CASE LoopEnds
  BY <1>6 DEF LoopEnds, ReconOK, SomeoneWatches
<1>7. CASE TickUnanswered
  <2>1. TriggerReconnect /\ UNCHANGED <<wsConn, stopped, gaveUp>> /\ recon.pc # "new"
    BY <1>7 DEF TickUnanswered, ReconOK
  <2>. QED BY <2>1, TriggerWatches
<1>8. CASE Tick
  BY <1>8 DEF Tick, ReconOK, SomeoneWatches
<1>9. CASE CloseOld
  BY <1>9 DEF CloseOld, NextAttempt, ReconOK, SomeoneWatches, GatewayTypes, ReconState
<1>10. CASE AttemptFails
  <2>1. CASE recon.attempt < MaxAttempts
    <3>1. recon'.pc = IF stopped THEN "failed" ELSE "dial"
      BY <1>10, <2>1 DEF AttemptFails, NextAttempt, GatewayTypes, ReconState
    <3>2. recon.pc \in {"dial", "auth"}
          /\ UNCHANGED <<wsConn, reconnecting, stopped, gaveUp, beats, listener>>
      BY <1>10, <2>1 DEF AttemptFails
    <3>. QED BY <3>1, <3>2 DEF ReconOK, SomeoneWatches
  <2>2. CASE ~(recon.attempt < MaxAttempts)
    <3>1. recon'.pc = "failed"
      BY <1>10, <2>2 DEF AttemptFails, GatewayTypes, ReconState
    <3>2. recon.pc \in {"dial", "auth"} /\ UNCHANGED <<wsConn, reconnecting, stopped>>
      BY <1>10 DEF AttemptFails
    <3>3. gaveUp' \in BOOLEAN /\ gaveUp'
      BY <1>10, <2>2, Zenon DEF AttemptFails
    <3>. QED BY <3>1, <3>2, <3>3 DEF ReconOK, SomeoneWatches
  <2>. QED BY <2>1, <2>2
<1>11. CASE Identify \/ Resume
  <2>1. recon.pc = "auth" /\ recon' = [recon EXCEPT !.pc = "reset"]
        /\ UNCHANGED <<wsConn, reconnecting, stopped, gaveUp>>
    BY <1>11 DEF Identify, Resume, StartLoops
  <2>2. recon'.pc = "reset"
    BY <2>1 DEF GatewayTypes, ReconState
  <2>. QED BY <2>1, <2>2 DEF ReconOK, SomeoneWatches
<1>12. CASE ResumeFails
  BY <1>12 DEF ResumeFails, ReconOK, SomeoneWatches
<1>13. CASE ResetReconnecting
  <2>1. recon.pc = "reset" => beats' > 0
    BY <1>13 DEF ResetReconnecting, GatewayTypes
  <2>2. recon'.pc = "no" /\ ~reconnecting' /\ recon.pc \in {"reset", "failed"}
    BY <1>13 DEF ResetReconnecting
  <2>. QED BY <1>13, <2>1, <2>2 DEF ResetReconnecting, ReconOK, SomeoneWatches
<1>14. ASSUME NEW c \in Link, Dial(c) PROVE ReconOK' /\ SomeoneWatches'
  <2>1. recon'.pc = "auth" /\ wsConn' # 0
    BY <1>14 DEF Dial, GatewayTypes, ReconState, Link
  <2>. QED BY <1>14, <2>1 DEF Dial, ReconOK, SomeoneWatches
<1>15. CASE \/ \E c \in Link : Break(c)
            \/ SendEvent
            \/ \E op \in Notice : SendNotice(op)
  <2>1. UNCHANGED <<recon, reconnecting, wsConn, stopped, gaveUp, beats, listener>>
    BY <1>15 DEF Break, SendEvent, SendNotice
  <2>. QED BY <2>1 DEF ReconOK, SomeoneWatches
<1>. QED BY <1>1, <1>2, <1>3, <1>4, <1>5, <1>6, <1>7, <1>8, <1>9, <1>10, <1>11, <1>12, <1>13,
            <1>14, <1>15 DEF GatewayNext

WatchInv == GatewayTypes /\ ReconOK /\ SomeoneWatches

LEMMA TypesKept ==
  ASSUME GatewayTypes, [GatewayNext]_gatewayVars
  PROVE  GatewayTypes'
<1>1. CASE GatewayNext
  BY <1>1, LoopTypes, ReconTypes, OutsideTypes DEF GatewayNext
<1>2. CASE UNCHANGED gatewayVars
  BY <1>2 DEF gatewayVars, GatewayTypes
<1>. QED BY <1>1, <1>2

LEMMA TypesStart == ASSUME GatewayInit PROVE GatewayTypes
<1>1. /\ [c \in Link |-> Gone] \in [Link -> LoopState]
      /\ [pc |-> "new", attempt |-> 0, link |-> 0] \in ReconState
      /\ [session |-> 0, seq |-> 0, resumable |-> FALSE, link |-> 0] \in ServerState
      /\ [c \in Link |-> <<>>] \in [Link -> Seq(Frame)]
  BY EmptySeq DEF Gone, LoopState, ReconState, ReconPC, ServerState
<1>2. reconnecting \in BOOLEAN /\ stopped \in BOOLEAN /\ gaveUp \in BOOLEAN
  BY Zenon DEF GatewayInit
<1>. QED BY <1>1, <1>2 DEF GatewayInit, GatewayTypes

LEMMA WatchInvariance == GatewaySpec => []WatchInv
<1>1. GatewayInit => WatchInv
  <2> SUFFICES ASSUME GatewayInit PROVE WatchInv
    OBVIOUS
  <2>1. reconnecting \in BOOLEAN /\ ~reconnecting
    BY Zenon DEF GatewayInit
  <2>. QED BY <2>1, TypesStart DEF GatewayInit, WatchInv, ReconOK, SomeoneWatches, Gone
<1>2. WatchInv /\ [GatewayNext]_gatewayVars => WatchInv'
  <2> SUFFICES ASSUME WatchInv, [GatewayNext]_gatewayVars PROVE WatchInv'
    OBVIOUS
  <2>1. CASE GatewayNext
    BY <2>1, TypesKept, WatchKept DEF WatchInv
  <2>2. CASE UNCHANGED gatewayVars
    BY <2>2, TypesKept DEF gatewayVars, WatchInv, ReconOK, SomeoneWatches
  <2>. QED BY <2>1, <2>2
<1>. QED BY <1>1, <1>2, PTL DEF GatewaySpec

\* SomeoneWatches for any number of connections, attempts and events: whatever was
\* lost, a loop is left that reconnects, until Stop or until all attempts failed
\* (triggerReconnect, reconnectLoop, readLoop and heartbeatLoop).
THEOREM SomeoneAlwaysWatches == GatewaySpec => []SomeoneWatches
<1>1. WatchInv => SomeoneWatches
  BY DEF WatchInv
<1>. QED BY <1>1, WatchInvariance, PTL

-----------------------------------------------------------------------------
(* A queue, as numbers are taken and frames come and go.                   *)

LEMMA QueueSame ==
  ASSUME NEW q \in Seq(Frame), NEW s, NEW T, NEW U, T \subseteq U
  PROVE  /\ GapFree(q, s, T) => GapFree(q, s, U)
         /\ \A m : Covers(q, m, T) => Covers(q, m, U)
BY DEF GapFree, Covers

\* The first frame is taken: if it is an event, its number is.
LEMMA QueueTail ==
  ASSUME NEW q \in Seq(Frame), q # <<>>, NEW s, NEW T, NEW U, T \subseteq U,
         Head(q).op = "event" => Head(q).event.seq \in U
  PROVE  /\ Tail(q) \in Seq(Frame)
         /\ GapFree(q, s, T) => GapFree(Tail(q), s, U)
         /\ \A m : Covers(q, m, T) => Covers(Tail(q), m, U)
<1>1. ASSUME NEW n, NEW j \in DOMAIN q, Carries(q[j], n), n \notin U
      PROVE  \E i \in DOMAIN Tail(q) : i + 1 = j /\ Carries(Tail(q)[i], n)
  <2>1. j # 1
    BY <1>1, TailItems DEF Carries
  <2>2. DOMAIN q = 1..Len(q) /\ Len(q) \in Nat
    BY LenProperties
  <2>3. j - 1 \in DOMAIN Tail(q) /\ Tail(q)[j - 1] = q[j]
    BY <2>1, <2>2, HeadTailProperties, LenProperties
  <2>. QED BY <1>1, <2>2, <2>3
<1>2. ASSUME GapFree(q, s, T) PROVE GapFree(Tail(q), s, U)
  <2> SUFFICES ASSUME NEW i \in DOMAIN Tail(q), Tail(q)[i].op = "event"
               PROVE  /\ Tail(q)[i].event.session = s
                      /\ \A n \in 2..(Tail(q)[i].event.seq - 1) :
                           n \in U \/ \E j \in DOMAIN Tail(q) : j < i /\ Carries(Tail(q)[j], n)
    BY DEF GapFree
  <2>1. i + 1 \in DOMAIN q /\ Tail(q)[i] = q[i + 1] /\ i \in Nat
    BY TailItems
  <2>2. ASSUME NEW n \in 2..(Tail(q)[i].event.seq - 1), n \notin U
        PROVE  \E j \in DOMAIN Tail(q) : j < i /\ Carries(Tail(q)[j], n)
    <3> PICK k \in DOMAIN q : k < i + 1 /\ Carries(q[k], n)
      BY <1>2, <2>1, <2>2 DEF GapFree
    <3> PICK j \in DOMAIN Tail(q) : j + 1 = k /\ Carries(Tail(q)[j], n)
      BY <1>1, <2>2
    <3>1. j \in Nat
      BY TailItems
    <3>2. j < i
      BY <2>1, <3>1
    <3>. QED BY <3>2
  <2>. QED BY <1>2, <2>1, <2>2 DEF GapFree
<1>3. ASSUME NEW m, Covers(q, m, T) PROVE Covers(Tail(q), m, U)
  BY <1>1, <1>3 DEF Covers
<1>. QED BY <1>2, <1>3, TailItems

\* A frame is added: an event comes after all those before it.
LEMMA QueueAppend ==
  ASSUME NEW q \in Seq(Frame), NEW f \in Frame, NEW s, NEW T
  PROVE  /\ Append(q, f) \in Seq(Frame)
         /\ GapFree(q, s, T) /\ f.op # "event" => GapFree(Append(q, f), s, T)
         /\ GapFree(q, s, T) /\ f.event.session = s /\ Covers(q, f.event.seq - 1, T)
              => GapFree(Append(q, f), s, T)
         /\ \A m : Covers(q, m, T) => Covers(Append(q, f), m, T)
         /\ \A m \in Nat : Covers(q, m, T) /\ Carries(f, m + 1) => Covers(Append(q, f), m + 1, T)
<1> DEFINE p == Append(q, f)
<1>1. ASSUME NEW n, NEW i \in DOMAIN q, Carries(q[i], n)
      PROVE  i \in DOMAIN p /\ Carries(p[i], n)
  BY <1>1, AppendItems
<1>2. ASSUME NEW i \in DOMAIN q, GapFree(q, s, T), p[i].op = "event"
      PROVE  /\ p[i].event.session = s
             /\ \A n \in 2..(p[i].event.seq - 1) :
                  n \in T \/ \E j \in DOMAIN p : j < i /\ Carries(p[j], n)
  <2>1. p[i] = q[i]
    BY AppendItems
  <2>. QED BY <1>1, <1>2, <2>1 DEF GapFree
<1>3. ASSUME GapFree(q, s, T), f.op # "event" PROVE GapFree(p, s, T)
  BY <1>2, <1>3, AppendItems DEF GapFree
<1>4. ASSUME GapFree(q, s, T), f.event.session = s, Covers(q, f.event.seq - 1, T)
      PROVE  GapFree(p, s, T)
  <2>1. ASSUME NEW i \in DOMAIN p, i \notin DOMAIN q
        PROVE  /\ p[i].event.session = s
               /\ \A n \in 2..(p[i].event.seq - 1) :
                    n \in T \/ \E j \in DOMAIN p : j < i /\ Carries(p[j], n)
    <3>1. p[i] = f /\ \A j \in DOMAIN q : j < i
      BY <2>1, AppendItems
    <3>. QED BY <1>1, <1>4, <3>1 DEF Covers
  <2>. QED BY <1>2, <1>4, <2>1 DEF GapFree
<1>5. ASSUME NEW m, Covers(q, m, T) PROVE Covers(p, m, T)
  BY <1>1, <1>5 DEF Covers
<1>6. ASSUME NEW m \in Nat, Covers(q, m, T), Carries(f, m + 1) PROVE Covers(p, m + 1, T)
  <2>1. \E j \in DOMAIN p : Carries(p[j], m + 1)
    BY <1>6, AppendItems
  <2>2. ASSUME NEW n \in 2..(m + 1) PROVE n \in 2..m \/ n = m + 1
    OBVIOUS
  <2>. QED BY <1>5, <1>6, <2>1, <2>2 DEF Covers
<1>. QED BY <1>3, <1>4, <1>5, <1>6, AppendItems

\* The connection breaks.
LEMMA QueuePrefix ==
  ASSUME NEW q \in Seq(Frame), NEW n \in 0..Len(q), NEW s, NEW T, GapFree(q, s, T)
  PROVE  GapFree(SubSeq(q, 1, n), s, T)
<1> DEFINE p == SubSeq(q, 1, n)
<1>1. DOMAIN p = 1..n /\ \A i \in 1..n : i \in DOMAIN q /\ p[i] = q[i]
  BY PrefixItems
<1>2. n \in Nat /\ DOMAIN q = 1..Len(q) /\ Len(q) \in Nat
  BY LenProperties
<1> SUFFICES ASSUME NEW i \in 1..n, p[i].op = "event"
             PROVE  /\ p[i].event.session = s
                    /\ \A k \in 2..(p[i].event.seq - 1) :
                         k \in T \/ \E j \in DOMAIN p : j < i /\ Carries(p[j], k)
  BY <1>1 DEF GapFree
<1>3. ASSUME NEW k \in 2..(p[i].event.seq - 1), k \notin T
      PROVE  \E j \in DOMAIN p : j < i /\ Carries(p[j], k)
  <2> PICK j \in DOMAIN q : j < i /\ Carries(q[j], k)
    BY <1>1, <1>3 DEF GapFree
  <2>1. j \in 1..n
    BY <1>2
  <2>. QED BY <1>1, <2>1
<1>. QED BY <1>1, <1>3 DEF GapFree

\* A resume: what was taken goes to lastSeq, and the rest is sent again.
LEMMA QueueResumed ==
  ASSUME GatewayTypes, server.session # 0, NEW q \in Seq(Frame), NEW T, NEW n \in 1..MaxSeq,
         \A i \in DOMAIN q : q[i].op # "event", \A k \in 2..n : k \in T
  PROVE  /\ GapFree(q \o After(n), server.session, T)
         /\ Covers(q \o After(n), server.seq, T)
<1> DEFINE p == q \o After(n)
<1>0. Len(q) \in Nat /\ server.seq \in Nat /\ n \in Nat
  BY LenProperties, ServerStates DEF GatewayTypes
<1>1. After(n) \in Seq(Frame)
  BY AfterTypes
<1>2. ASSUME NEW i \in DOMAIN p, p[i].op = "event"
      PROVE  \E j \in 1..(server.seq - n) :
               i = Len(q) + j /\ p[i].event = [session |-> server.session, seq |-> n + j]
  <2>1. p[i] # q[i] \/ i \notin DOMAIN q
    BY <1>2
  <2>2. PICK j \in DOMAIN After(n) : i = Len(q) + j /\ p[i] = After(n)[j]
    BY <1>1, <2>1, ConcatItems
  <2>3. j \in 1..(server.seq - n) /\ After(n)[j].event = [session |-> server.session, seq |-> n + j]
    BY AfterTypes
  <2>. QED BY <2>2, <2>3
<1>3. ASSUME NEW k \in Nat, k > n, k <= server.seq
      PROVE  Len(q) + (k - n) \in DOMAIN p /\ Carries(p[Len(q) + (k - n)], k)
  <2>1. k - n \in 1..(server.seq - n)
    BY <1>0, <1>3
  <2>2. /\ k - n \in DOMAIN After(n) /\ After(n)[k - n].op = "event"
        /\ After(n)[k - n].event = [session |-> server.session, seq |-> n + (k - n)]
    BY <2>1, AfterTypes
  <2>3. n + (k - n) = k
    BY <1>0
  <2>. QED BY <1>1, <2>2, <2>3, ConcatItems DEF Carries
<1>4. ASSUME NEW i \in DOMAIN p, p[i].op = "event"
      PROVE  /\ p[i].event.session = server.session
             /\ \A k \in 2..(p[i].event.seq - 1) :
                  k \in T \/ \E j \in DOMAIN p : j < i /\ Carries(p[j], k)
  <2> PICK j \in 1..(server.seq - n) :
             i = Len(q) + j /\ p[i].event = [session |-> server.session, seq |-> n + j]
    BY <1>2, <1>4
  <2>1. ASSUME NEW k \in 2..(p[i].event.seq - 1), k \notin T
        PROVE  \E l \in DOMAIN p : l < i /\ Carries(p[l], k)
    <3>1. k > n /\ k < n + j /\ k <= server.seq /\ k \in Nat
      BY <1>0, <2>1
    <3>2. Len(q) + (k - n) < i
      BY <1>0, <3>1
    <3>. QED BY <1>3, <3>1, <3>2
  <2>. QED BY <2>1
<1>5. ASSUME NEW k \in 2..server.seq, k \notin T PROVE \E j \in DOMAIN p : Carries(p[j], k)
  <2>1. k > n /\ k <= server.seq /\ k \in Nat
    BY <1>0, <1>5
  <2>. QED BY <1>3, <2>1
<1>. QED BY <1>4, <1>5 DEF GapFree, Covers

LEMMA QueueEmpty ==
  ASSUME NEW q, NEW s, NEW T, \A i \in DOMAIN q : q[i].op # "event"
  PROVE  GapFree(q, s, T) /\ Covers(q, 1, T)
BY DEF GapFree, Covers

LEMMA NoEvents ==
  ASSUME NEW q \in Seq(Frame), \A i \in DOMAIN q : q[i].op # "event"
  PROVE  /\ q # <<>> => \A i \in DOMAIN Tail(q) : Tail(q)[i].op # "event"
         /\ \A f \in Frame : f.op # "event" =>
              \A i \in DOMAIN Append(q, f) : Append(q, f)[i].op # "event"
         /\ \A n \in 0..Len(q) : \A i \in DOMAIN SubSeq(q, 1, n) : SubSeq(q, 1, n)[i].op # "event"
<1>1. ASSUME q # <<>>, NEW i \in DOMAIN Tail(q) PROVE Tail(q)[i].op # "event"
  BY <1>1, TailItems
<1>2. ASSUME NEW f \in Frame, f.op # "event", NEW i \in DOMAIN Append(q, f)
      PROVE  Append(q, f)[i].op # "event"
  BY <1>2, AppendItems
<1>3. ASSUME NEW n \in 0..Len(q), NEW i \in DOMAIN SubSeq(q, 1, n)
      PROVE  SubSeq(q, 1, n)[i].op # "event"
  BY PrefixItems
<1>. QED BY <1>1, <1>2, <1>3

-----------------------------------------------------------------------------
(* The connections, step by step.                                          *)

\* Steps that neither open nor close one.
LEMMA SameLinks ==
  ASSUME GatewayTypes, LinksOK, AuthOK, UNCHANGED <<wsConn, link, server>>,
         \A c \in Link : link[c] \in {"none", "closed"} => frames'[c] = frames[c],
         \A c \in Link : listener[c] = Gone => listener'[c] = Gone,
         recon' = recon \/ recon'.pc \notin {"new", "dial", "auth"},
         recon.pc = "auth" => \A i \in DOMAIN frames'[wsConn] : frames'[wsConn][i].op # "event"
  PROVE  LinksOK' /\ AuthOK'
<1>1. LinksOK'
  BY DEF LinksOK
<1>2. AuthOK'
  <2>1. \A c \in Link : link[c] = "none" => server.link # c /\ listener'[c] = Gone
    BY DEF AuthOK
  <2>2. ASSUME recon'.pc = "auth"
        PROVE  /\ recon'.link = wsConn /\ wsConn # 0 /\ server.link # wsConn
               /\ listener'[wsConn] = Gone
               /\ \A i \in DOMAIN frames'[wsConn] : frames'[wsConn][i].op # "event"
    <3>1. wsConn \in Link \/ wsConn = 0
      BY DEF GatewayTypes, Link
    <3>. QED BY <2>2, <3>1 DEF AuthOK
  <2>. QED BY <2>1, <2>2 DEF AuthOK
<1>. QED BY <1>1, <1>2

LEMMA TriggerLinks ==
  ASSUME TriggerReconnect
  PROVE  recon' = recon \/ recon'.pc \notin {"new", "dial", "auth"}
BY DEF TriggerReconnect

LEMMA ReadKeepsLinks ==
  ASSUME GatewayTypes, LinksOK, AuthOK, NEW r \in Link,
         ReadError(r) \/ ReadFrame(r) \/ Handled(r)
  PROVE  LinksOK' /\ AuthOK'
<1>1. CASE ReadError(r)
  <2>1. listener[r] # Gone /\ listener' = [listener EXCEPT ![r] = Gone]
        /\ UNCHANGED <<wsConn, link, server, frames>>
    BY <1>1, GoneTypes DEF ReadError
  <2>2. \A c \in Link : listener[c] = Gone => listener'[c] = Gone
    BY <2>1 DEF GatewayTypes
  <2>3. recon' = recon \/ recon'.pc \notin {"new", "dial", "auth"}
    BY <1>1, TriggerLinks DEF ReadError
  <2>4. recon.pc = "auth" => \A i \in DOMAIN frames'[wsConn] : frames'[wsConn][i].op # "event"
    BY <2>1 DEF AuthOK
  <2>. QED BY <2>1, <2>2, <2>3, <2>4, SameLinks
<1>2. CASE ReadFrame(r)
  <2> DEFINE c == listener[r].link
             frame == Head(frames[c])
             rest == [frames EXCEPT ![c] = Tail(frames[c])]
  <2>1. c \in Link /\ frames[c] \in Seq(Frame) /\ frames[c] # <<>> /\ rest \in [Link -> Seq(Frame)]
        /\ frame.op \in {"event", "ack", "beat", "reconnect", "invalid", "resumable"}
    BY <1>2, ReadsFrame
  <2>2. frames' \in {rest} \union Heartbeat(rest) /\ UNCHANGED <<wsConn, link, server>>
    BY <1>2, <2>1 DEF ReadFrame
  <2>3. listener[r] # Gone /\ link[c] \in {"open", "lost"}
    BY <1>2, GoneTypes DEF ReadFrame
  <2>4. \E l : listener' = [listener EXCEPT ![r] = l]
    BY <1>2, <2>1 DEF ReadFrame
  <2>5. \A d \in Link : listener[d] = Gone => listener'[d] = Gone
    BY <2>3, <2>4 DEF GatewayTypes
  <2>6. recon' = recon \/ recon'.pc \notin {"new", "dial", "auth"}
    BY <1>2, <2>1, TriggerLinks DEF ReadFrame
  <2>7. \/ frames' = rest
        \/ /\ wsConn \in Link /\ link[wsConn] = "open"
           /\ frames' = [rest EXCEPT ![wsConn] = Append(rest[wsConn], [op |-> "ack"])]
    BY <2>1, <2>2, HeartbeatFrames
  <2>8. \A d \in Link : link[d] \in {"none", "closed"} => frames'[d] = frames[d]
    BY <2>1, <2>3, <2>7 DEF GatewayTypes
  <2>9. ASSUME recon.pc = "auth"
        PROVE  \A i \in DOMAIN frames'[wsConn] : frames'[wsConn][i].op # "event"
    <3>1. wsConn \in Link /\ \A i \in DOMAIN frames[wsConn] : frames[wsConn][i].op # "event"
      BY <2>9 DEF AuthOK, GatewayTypes, Link
    <3>2. rest[wsConn] \in Seq(Frame) /\ \A i \in DOMAIN rest[wsConn] : rest[wsConn][i].op # "event"
      BY <2>1, <3>1, NoEvents DEF GatewayTypes
    <3>3. CASE frames' = rest
      BY <3>2, <3>3
    <3>4. CASE frames' = [rest EXCEPT ![wsConn] = Append(rest[wsConn], [op |-> "ack"])]
      <4>1. frames'[wsConn] = Append(rest[wsConn], [op |-> "ack"])
        BY <2>1, <3>1, <3>4
      <4>. QED BY <3>2, <4>1, NoEvents, NoticeFrames
    <3>. QED BY <2>7, <3>3, <3>4
  <2>. QED BY <2>2, <2>5, <2>6, <2>8, <2>9, SameLinks
<1>3. CASE Handled(r)
  <2>1. listener[r] # Gone /\ (\A c \in Link : c # r => listener'[c] = listener[c])
        /\ UNCHANGED <<wsConn, link, server, frames, recon>>
    BY <1>3, GoneTypes DEF Handled, GatewayTypes
  <2>2. recon.pc = "auth" => \A i \in DOMAIN frames'[wsConn] : frames'[wsConn][i].op # "event"
    BY <2>1 DEF AuthOK
  <2>. QED BY <2>1, <2>2, SameLinks
<1>. QED BY <1>1, <1>2, <1>3

LEMMA BeatKeepsLinks ==
  ASSUME GatewayTypes, LinksOK, AuthOK,
         LoopEnds \/ TickUnanswered \/ Tick \/ ResumeFails \/ ResetReconnecting
  PROVE  LinksOK' /\ AuthOK'
<1>1. CASE Tick
  <2>1. frames' \in Heartbeat(frames) /\ UNCHANGED <<wsConn, link, server, listener, recon>>
    BY <1>1 DEF Tick
  <2>2. \/ frames' = frames
        \/ /\ wsConn \in Link /\ link[wsConn] = "open"
           /\ frames' = [frames EXCEPT ![wsConn] = Append(frames[wsConn], [op |-> "ack"])]
    BY <2>1, HeartbeatFrames DEF GatewayTypes
  <2>3. \A d \in Link : link[d] \in {"none", "closed"} => frames'[d] = frames[d]
    BY <2>2 DEF GatewayTypes
  <2>4. ASSUME recon.pc = "auth"
        PROVE  \A i \in DOMAIN frames'[wsConn] : frames'[wsConn][i].op # "event"
    <3>1. wsConn \in Link /\ frames[wsConn] \in Seq(Frame)
          /\ \A i \in DOMAIN frames[wsConn] : frames[wsConn][i].op # "event"
      BY <2>4 DEF AuthOK, GatewayTypes, Link
    <3>2. CASE frames' = [frames EXCEPT ![wsConn] = Append(frames[wsConn], [op |-> "ack"])]
      <4>1. frames'[wsConn] = Append(frames[wsConn], [op |-> "ack"])
        BY <3>1, <3>2 DEF GatewayTypes
      <4>. QED BY <3>1, <4>1, NoEvents, NoticeFrames
    <3>. QED BY <2>2, <3>1, <3>2
  <2>. QED BY <2>1, <2>3, <2>4, SameLinks
<1>2. CASE LoopEnds \/ TickUnanswered \/ ResumeFails \/ ResetReconnecting
  <2>1. UNCHANGED <<wsConn, link, server, listener, frames>>
        /\ (recon' = recon \/ recon'.pc \notin {"new", "dial", "auth"})
    BY <1>2, TriggerLinks DEF LoopEnds, TickUnanswered, ResumeFails, ResetReconnecting
  <2>2. recon.pc = "auth" => \A i \in DOMAIN frames'[wsConn] : frames'[wsConn][i].op # "event"
    BY <2>1 DEF AuthOK
  <2>. QED BY <2>1, <2>2, SameLinks
<1>. QED BY <1>1, <1>2

\* Stop and reconnectLoop close a connection, which leaves none that is open.
LEMMA CloseKeepsLinks ==
  ASSUME GatewayTypes, LinksOK, AuthOK, Stop \/ CloseOld \/ AttemptFails
  PROVE  LinksOK' /\ AuthOK'
<1>1. ASSUME NEW c, CloseConn(c)
      PROVE  /\ \A d \in Link : d # wsConn => link'[d] \in {"none", "closed"}
             /\ \A d \in Link : link'[d] \in {"none", "closed"} => frames'[d] = <<>>
             /\ \A d \in Link : link'[d] = "none" => link[d] = "none"
             /\ \A d \in Link : d = c \/ link[d] = "closed" => link'[d] = "closed"
             /\ \A d \in Link : frames'[d] = <<>> \/ frames'[d] = frames[d]
  BY <1>1 DEF CloseConn, LinksOK, GatewayTypes
<1>2. CASE Stop
  <2>1. CloseConn(wsConn) /\ UNCHANGED <<wsConn, recon, server, listener>>
    BY <1>2 DEF Stop
  <2>2. LinksOK'
    BY <1>1, <2>1 DEF LinksOK, GatewayTypes, Link
  <2>3. AuthOK'
    <3>1. \A d \in Link : \A i \in DOMAIN frames'[d] : frames'[d] = frames[d]
      BY <1>1, <2>1
    <3>2. \A c \in Link : link'[c] = "none" => server.link # c /\ listener[c] = Gone
      BY <1>1, <2>1 DEF AuthOK
    <3>. QED BY <2>1, <3>1, <3>2 DEF AuthOK, GatewayTypes, Link
  <2>. QED BY <2>2, <2>3
<1>3. CASE CloseOld
  <2>1. CloseConn(wsConn) /\ wsConn' = 0 /\ UNCHANGED <<server, listener>>
    BY <1>3 DEF CloseOld
  <2>2. recon'.pc \in {"dial", "failed"}
    BY <1>3 DEF CloseOld, NextAttempt, GatewayTypes, ReconState
  <2>3. LinksOK'
    BY <1>1, <2>1, <2>2 DEF LinksOK, GatewayTypes
  <2>. QED BY <1>1, <2>1, <2>2, <2>3 DEF AuthOK
<1>4. CASE AttemptFails
  <2>1. CloseConn(recon.link) /\ UNCHANGED <<wsConn, server, listener>>
        /\ recon.pc \in {"dial", "auth"}
    BY <1>4 DEF AttemptFails
  <2>2. recon'.pc \in {"dial", "failed"}
    BY <1>4 DEF AttemptFails, NextAttempt, GatewayTypes, ReconState
  <2>3. wsConn = 0 \/ link'[wsConn] = "closed"
    <3>1. wsConn = 0 \/ wsConn \in Link
      BY DEF GatewayTypes, Link
    <3>. QED BY <1>1, <2>1, <3>1 DEF LinksOK, AuthOK
  <2>4. LinksOK'
    BY <1>1, <2>1, <2>2, <2>3 DEF LinksOK
  <2>. QED BY <1>1, <2>1, <2>2, <2>4 DEF AuthOK
<1>. QED BY <1>2, <1>3, <1>4

\* Start, Dial and what follows open one, when the others are closed.
LEMMA OpenKeepsLinks ==
  ASSUME GatewayTypes, GatewayTypes', LinksOK, AuthOK,
         Start \/ (\E c \in Link : Dial(c)) \/ Identify \/ Resume
  PROVE  LinksOK' /\ AuthOK'
<1>1. ASSUME NEW c \in Link, wsConn = 0 \/ link[wsConn] = "closed",
             wsConn' = c, link' = [link EXCEPT ![c] = "open"], frames' = frames,
             recon'.pc \in {"no", "auth"}
      PROVE  LinksOK'
  <2>1. c # 0 /\ link'[c] = "open" /\ \A d \in Link : d # c => link'[d] = link[d]
    BY <1>1 DEF GatewayTypes, Link
  <2>2. \A d \in Link : link[d] \in {"none", "closed"}
    BY <1>1 DEF LinksOK, Link
  <2>. QED BY <1>1, <2>1, <2>2 DEF LinksOK
<1>2. CASE Start
  <2>1. 1 \in Link /\ wsConn = 0 /\ recon'.pc = "no"
    BY <1>2 DEF Start, LinksOK, Link, GatewayTypes, ReconState
  <2>2. LinksOK'
    BY <1>1, <1>2, <2>1 DEF Start
  <2>3. server'.link = 1 /\ link'[1] = "open"
        /\ \A c \in Link : c # 1 => link'[c] = link[c] /\ listener'[c] = listener[c]
    BY <1>2, <2>1 DEF Start, WaitForReady, GatewayTypes
  <2>. QED BY <2>1, <2>2, <2>3 DEF AuthOK
<1>3. ASSUME NEW c \in Link, Dial(c) PROVE LinksOK' /\ AuthOK'
  <2>1. recon'.pc = "auth" /\ recon'.link = c
    BY <1>3 DEF Dial, GatewayTypes, ReconState
  <2>2. LinksOK'
    BY <1>1, <1>3, <2>1 DEF Dial, LinksOK
  <2>3. link[c] = "none" /\ wsConn' = c /\ link' = [link EXCEPT ![c] = "open"]
        /\ UNCHANGED <<server, listener, frames>>
    BY <1>3 DEF Dial
  <2>4. c # 0 /\ frames'[c] = <<>>
    BY <2>3 DEF LinksOK, Link
  <2>5. \A d \in Link : link'[d] = "none" => link[d] = "none"
    BY <2>3 DEF GatewayTypes
  <2>. QED BY <2>1, <2>2, <2>3, <2>4, <2>5 DEF AuthOK
<1>4. CASE Identify \/ Resume
  <2> DEFINE c == recon.link
  <2>1. recon.pc = "auth" /\ link[c] = "open" /\ UNCHANGED <<wsConn, link>>
        /\ recon' = [recon EXCEPT !.pc = "reset"]
    BY <1>4 DEF Identify, Resume, StartLoops
  <2>2. c \in Link /\ c = wsConn /\ recon'.pc = "reset"
    BY <2>1, ReconStates DEF AuthOK, GatewayTypes, ReconState
  <2>3. \A d \in Link : d # c => frames'[d] = frames[d] /\ listener'[d] = listener[d]
    BY <1>4, <2>2 DEF Identify, Resume, StartLoops, GatewayTypes
  <2>4. server'.link \in {c, server.link}
    BY <1>4 DEF Identify, Resume, WaitForReady, GatewayTypes, ServerState
  <2>5. LinksOK'
    BY <2>1, <2>2, <2>3 DEF LinksOK
  <2>6. AuthOK'
    BY <2>1, <2>2, <2>3, <2>4 DEF AuthOK
  <2>. QED BY <2>5, <2>6
<1>. QED BY <1>2, <1>3, <1>4

LEMMA GatewayKeepsLinks ==
  ASSUME GatewayTypes, LinksOK, AuthOK,
         \/ SendEvent \/ \E c \in Link : Break(c)
         \/ \E op \in Notice : SendNotice(op)
  PROVE  LinksOK' /\ AuthOK'
<1>1. CASE SendEvent \/ \E op \in Notice : SendNotice(op)
  <2> DEFINE c == server.link
  <2>1. /\ UNCHANGED <<wsConn, link, recon, listener>>
        /\ server'.link = server.link
    BY <1>1 DEF SendEvent, SendNotice, GatewayTypes, ServerState
  <2>2. \/ frames' = frames
        \/ link[c] = "open" /\ \E f : frames' = [frames EXCEPT ![c] = Append(frames[c], f)]
    BY <1>1 DEF SendEvent, SendNotice
  <2>3. \A d \in Link : d # c \/ link[d] # "open" => frames'[d] = frames[d]
    BY <2>2 DEF GatewayTypes
  <2>4. LinksOK'
    BY <2>1, <2>3 DEF LinksOK
  <2>5. recon.pc = "auth" => wsConn \in Link /\ frames'[wsConn] = frames[wsConn]
    BY <2>3 DEF AuthOK, GatewayTypes, Link
  <2>6. AuthOK'
    BY <2>1, <2>5 DEF AuthOK
  <2>. QED BY <2>4, <2>6
<1>2. ASSUME NEW c \in Link, Break(c) PROVE LinksOK' /\ AuthOK'
  <2> PICK n \in 0..Len(frames[c]) : frames' = [frames EXCEPT ![c] = SubSeq(frames[c], 1, n)]
    BY <1>2 DEF Break
  <2>1. /\ UNCHANGED <<wsConn, server, listener, recon>>
        /\ link[c] = "open" /\ link' = [link EXCEPT ![c] = "lost"]
    BY <1>2 DEF Break
  <2>2. c = wsConn /\ link'[c] = "lost"
        /\ \A d \in Link : d # c => link'[d] = link[d] /\ frames'[d] = frames[d]
    BY <2>1 DEF LinksOK, GatewayTypes
  <2>3. LinksOK'
    BY <2>1, <2>2 DEF LinksOK
  <2>4. ASSUME recon.pc = "auth"
        PROVE  \A i \in DOMAIN frames'[c] : frames'[c][i].op # "event"
    <3>1. frames[c] \in Seq(Frame) /\ (\A i \in DOMAIN frames[c] : frames[c][i].op # "event")
          /\ frames'[c] = SubSeq(frames[c], 1, n)
      BY <2>2, <2>4 DEF AuthOK, GatewayTypes
    <3>. QED BY <3>1, NoEvents
  <2>5. AuthOK'
    BY <2>1, <2>2, <2>4 DEF AuthOK
  <2>. QED BY <2>3, <2>5
<1>. QED BY <1>1, <1>2

-----------------------------------------------------------------------------
(* The events, step by step.                                               *)

\* Steps of one session, where what was taken stays so.
LEMMA QueuesKeptBy ==
  ASSUME GatewayTypes, QueuesOK, ResumeLosesNothing,
         server'.session = server.session, sessionID' \in {0, sessionID}, Taken \subseteq Taken',
         \A n \in 2..lastSeq' : n \in 2..lastSeq \/ n \in Taken',
         \A c \in Link : GapFree(frames'[c], server.session, Taken'),
         server'.link # 0 /\ link'[server'.link] = "open"
           => Covers(frames'[server'.link], server'.seq, Taken')
  PROVE  QueuesOK' /\ ResumeLosesNothing'
<1>1. QueuesOK'
  BY DEF QueuesOK
<1>2. ASSUME sessionID' # 0, sessionID' = server'.session, NEW n \in 2..lastSeq'
      PROVE  \/ n \in handled'
             \/ \E r \in Link : listener'[r].event = [session |-> sessionID', seq |-> n]
  <2>1. sessionID = server.session /\ sessionID' = sessionID
    BY <1>2
  <2>2. n \in 2..lastSeq => n \in Taken
    BY <1>2, <2>1 DEF ResumeLosesNothing, Taken
  <2>3. n \in Taken'
    BY <2>2
  <2>. QED BY <1>2, <2>3 DEF Taken
<1>3. ResumeLosesNothing'
  BY <1>2 DEF ResumeLosesNothing
<1>. QED BY <1>1, <1>3

\* A number stays taken when its event leaves a readLoop for handled.
LEMMA TakenKept ==
  ASSUME server'.session = server.session, handled \subseteq handled',
         \A r \in Link, n \in Nat :
           listener[r].event = [session |-> server.session, seq |-> n] =>
             listener'[r].event = listener[r].event \/ n \in handled'
  PROVE  Taken \subseteq Taken'
BY DEF Taken

\* A queue that changed loses nothing.
LEMMA QueueChanges ==
  ASSUME GatewayTypes, QueuesOK, Taken \subseteq Taken', NEW c \in Link,
         \/ frames'[c] = frames[c]
         \/ frames'[c] = <<>> /\ link'[c] # "open"
         \/ \E f \in Frame : f.op # "event" /\ frames'[c] = Append(frames[c], f)
  PROVE  /\ GapFree(frames'[c], server.session, Taken')
         /\ link'[c] = "open" => \A m : Covers(frames[c], m, Taken) => Covers(frames'[c], m, Taken')
<1>1. frames[c] \in Seq(Frame) /\ GapFree(frames[c], server.session, Taken)
  BY DEF GatewayTypes, QueuesOK
<1>2. CASE frames'[c] = frames[c]
  BY <1>1, <1>2, QueueSame
<1>3. CASE frames'[c] = <<>> /\ link'[c] # "open"
  BY <1>3 DEF GapFree
<1>4. ASSUME NEW f \in Frame, f.op # "event", frames'[c] = Append(frames[c], f)
      PROVE  /\ GapFree(frames'[c], server.session, Taken')
             /\ \A m : Covers(frames[c], m, Taken) => Covers(frames'[c], m, Taken')
  <2>1. /\ GapFree(frames[c], server.session, Taken')
        /\ \A m : Covers(frames[c], m, Taken) => Covers(frames[c], m, Taken')
    BY <1>1, QueueSame
  <2>. QED BY <1>1, <1>4, <2>1, QueueAppend
<1>. QED BY <1>2, <1>3, <1>4

\* The steps that are not about events.
LEMMA QuietStep ==
  ASSUME GatewayTypes, QueuesOK, ResumeLosesNothing,
         UNCHANGED <<lastSeq, handled>>, sessionID' \in {0, sessionID},
         server'.session = server.session, server'.seq = server.seq, server'.link = server.link,
         \A r \in Link : listener'[r].event = listener[r].event,
         \A c \in Link : link'[c] = "open" => link[c] = "open" \/ server.link # c,
         \A c \in Link :
           \/ frames'[c] = frames[c]
           \/ frames'[c] = <<>> /\ link'[c] # "open"
           \/ \E f \in Frame : f.op # "event" /\ frames'[c] = Append(frames[c], f)
  PROVE  QueuesOK' /\ ResumeLosesNothing'
<1>1. Taken \subseteq Taken'
  BY TakenKept
<1>2. \A c \in Link : GapFree(frames'[c], server.session, Taken')
  BY <1>1, QueueChanges
<1>3. ASSUME server'.link # 0, link'[server'.link] = "open"
      PROVE  Covers(frames'[server'.link], server'.seq, Taken')
  <2>1. server.link \in Link
    BY <1>3, ServerStates DEF GatewayTypes
  <2>2. Covers(frames[server.link], server.seq, Taken)
    BY <1>3, <2>1 DEF QueuesOK
  <2>. QED BY <1>1, <1>3, <2>1, <2>2, QueueChanges
<1>. QED BY <1>1, <1>2, <1>3, QueuesKeptBy

LEMMA FrameKeepsEvents ==
  ASSUME GatewayTypes, LinksOK, QueuesOK, ResumeLosesNothing, NEW r \in Link, ReadFrame(r)
  PROVE  QueuesOK' /\ ResumeLosesNothing'
<1> DEFINE c == listener[r].link
           frame == Head(frames[c])
           rest == [frames EXCEPT ![c] = Tail(frames[c])]
<1>1. c \in Link /\ frames[c] \in Seq(Frame) /\ frames[c] # <<>> /\ rest \in [Link -> Seq(Frame)]
      /\ frame \in Frame
      /\ frame.op \in {"event", "ack", "beat", "reconnect", "invalid", "resumable"}
      /\ (frame.op = "event" => frame.event \in GatewayEvent)
  BY ReadsFrame
<1>2. UNCHANGED <<wsConn, link, server, handled>> /\ listener[r].event = NoEvent
      /\ sessionID' \in {0, sessionID}
  BY <1>1, LoopStates DEF ReadFrame, GatewayTypes
<1>3. \A n \in Nat : NoEvent # [session |-> server.session, seq |-> n] \/ server.session = 0
  BY DEF NoEvent
<1>4. ASSUME frame.op = "event"
      PROVE  /\ frame.event = [session |-> server.session, seq |-> frame.event.seq]
             /\ \A n \in 2..(frame.event.seq - 1) : n \in Taken
  <2>1. 1 \in DOMAIN frames[c] /\ frames[c][1] = frame /\ \A j \in DOMAIN frames[c] : j >= 1
    BY <1>1, TailItems, LenProperties
  <2>2. GapFree(frames[c], server.session, Taken)
    BY <1>1 DEF QueuesOK
  <2>3. frame.event.session = server.session
        /\ \A n \in 2..(frame.event.seq - 1) :
             n \in Taken \/ \E j \in DOMAIN frames[c] : j < 1 /\ Carries(frames[c][j], n)
    BY <1>4, <2>1, <2>2 DEF GapFree
  <2>4. frame.event = [session |-> server.session, seq |-> frame.event.seq]
    BY <1>1, <1>4, <2>3 DEF GatewayEvent
  <2>5. \A j \in DOMAIN frames[c] : ~(j < 1)
    BY <1>1, LenProperties
  <2>. QED BY <2>3, <2>4, <2>5
<1>5. \E l : /\ listener' = [listener EXCEPT ![r] = l]
             /\ l.event = IF frame.op = "event" THEN frame.event ELSE NoEvent
  <2>1. CASE frame.op = "event"
    <3> DEFINE l == [listener[r] EXCEPT !.pc = "handle", !.event = frame.event]
    <3>1. listener' = [listener EXCEPT ![r] = l]
      BY <2>1 DEF ReadFrame
    <3>2. l.event = frame.event
      BY DEF GatewayTypes, LoopState
    <3>. QED BY <2>1, <3>1, <3>2
  <2>2. CASE frame.op # "event"
    <3>1. listener' = [listener EXCEPT ![r] = ReadLoop] \/ listener' = [listener EXCEPT ![r] = Gone]
      BY <1>1, <2>2 DEF ReadFrame
    <3>. QED BY <2>2, <3>1, GoneTypes
  <2>. QED BY <2>1, <2>2
<1>6. /\ listener'[r].event = IF frame.op = "event" THEN frame.event ELSE NoEvent
      /\ \A d \in Link : d # r => listener'[d] = listener[d]
  BY <1>5 DEF GatewayTypes
<1>7. Taken \subseteq Taken'
  <2> SUFFICES ASSUME NEW n \in Nat, n \in Taken PROVE n \in Taken'
    BY DEF Taken
  <2>1. CASE n \in handled
    BY <1>2, <2>1 DEF Taken
  <2>2. ASSUME NEW d \in Link, listener[d].event = [session |-> server.session, seq |-> n], d # r
        PROVE  n \in Taken'
    BY <1>2, <1>6, <2>2 DEF Taken
  <2>3. CASE /\ listener[r].event = [session |-> server.session, seq |-> n]
             /\ frame.op # "event"
    BY <1>2, <1>6, <2>3 DEF Taken
  <2>4. CASE /\ listener[r].event = [session |-> server.session, seq |-> n]
             /\ frame.op = "event"
    <3>1. server.session \in Link
      BY <1>1, <1>4, <2>4 DEF GatewayEvent
    <3>. QED BY <1>2, <1>3, <2>4, <3>1 DEF Link
  <2>. QED BY <2>1, <2>2, <2>3, <2>4 DEF Taken
<1>8. frame.op = "event" => frame.event.seq \in Taken'
  BY <1>1, <1>2, <1>4, <1>6 DEF Taken, GatewayEvent
<1>9. /\ Tail(frames[c]) \in Seq(Frame)
      /\ GapFree(Tail(frames[c]), server.session, Taken')
      /\ \A m : Covers(frames[c], m, Taken) => Covers(Tail(frames[c]), m, Taken')
  BY <1>1, <1>7, <1>8, QueueTail DEF QueuesOK
<1>10. \A d \in Link :
         /\ GapFree(rest[d], server.session, Taken')
         /\ \A m : Covers(frames[d], m, Taken) => Covers(rest[d], m, Taken')
  <2>1. \A d \in Link : d # c => rest[d] = frames[d] /\ frames[d] \in Seq(Frame)
    BY <1>1 DEF GatewayTypes
  <2>2. rest[c] = Tail(frames[c])
    BY <1>1 DEF GatewayTypes
  <2>3. ASSUME NEW d \in Link, d # c
        PROVE  /\ GapFree(rest[d], server.session, Taken')
               /\ \A m : Covers(frames[d], m, Taken) => Covers(rest[d], m, Taken')
    BY <1>7, <2>1, <2>3, QueueSame DEF QueuesOK
  <2>. QED BY <1>9, <2>2, <2>3
<1>11. ASSUME NEW d \in Link
       PROVE  /\ GapFree(frames'[d], server.session, Taken')
              /\ \A m : Covers(frames[d], m, Taken) => Covers(frames'[d], m, Taken')
  <2>1. frames' \in {rest} \union Heartbeat(rest)
    BY <1>1 DEF ReadFrame
  <2>2. \/ frames' = rest
        \/ wsConn \in Link /\ frames' = [rest EXCEPT ![wsConn] = Append(rest[wsConn], [op |-> "ack"])]
    BY <1>1, <2>1, HeartbeatFrames
  <2>3. frames'[d] = rest[d] \/ frames'[d] = Append(rest[d], [op |-> "ack"])
    BY <1>1, <2>2
  <2>4. CASE frames'[d] = Append(rest[d], [op |-> "ack"])
    <3>1. [op |-> "ack"] \in Frame /\ [op |-> "ack"].op # "event" /\ rest[d] \in Seq(Frame)
      BY <1>1, NoticeFrames
    <3>2. /\ GapFree(rest[d], server.session, Taken')
          /\ \A m : Covers(frames[d], m, Taken) => Covers(rest[d], m, Taken')
      BY <1>10
    <3>. QED BY <2>4, <3>1, <3>2, QueueAppend
  <2>. QED BY <1>10, <2>3, <2>4
<1>12. \A n \in 2..lastSeq' : n \in 2..lastSeq \/ n \in Taken'
  <2>1. CASE frame.op = "event"
    <3>1. lastSeq' = frame.event.seq /\ frame.event.seq \in Nat
      <4>1. frame.event.seq \in Nat
        BY <1>1, <2>1 DEF GatewayEvent
      <4>. QED BY <2>1, <4>1 DEF ReadFrame
    <3>2. \A n \in 2..frame.event.seq : n \in 2..(frame.event.seq - 1) \/ n = frame.event.seq
      BY <3>1
    <3>. QED BY <1>4, <1>7, <1>8, <2>1, <3>1, <3>2
  <2>2. CASE frame.op # "event"
    BY <1>1, <2>2 DEF ReadFrame
  <2>. QED BY <2>1, <2>2
<1>13. server'.link # 0 /\ link'[server'.link] = "open"
         => Covers(frames'[server'.link], server'.seq, Taken')
  BY <1>2, <1>11, ServerStates DEF QueuesOK, GatewayTypes
<1>. QED BY <1>2, <1>7, <1>11, <1>12, <1>13, QueuesKeptBy

LEMMA LoopKeepsEvents ==
  ASSUME GatewayTypes, LinksOK, QueuesOK, ResumeLosesNothing, NEW r \in Link,
         ReadError(r) \/ ReadFrame(r) \/ Handled(r)
  PROVE  QueuesOK' /\ ResumeLosesNothing'
<1>1. CASE ReadError(r)
  <2>1. \A d \in Link : listener'[d].event = listener[d].event
    BY <1>1, LoopStates, GoneTypes DEF ReadError, GatewayTypes
  <2>. QED BY <1>1, <2>1, QuietStep DEF ReadError
<1>2. CASE Handled(r)
  <2> DEFINE event == listener[r].event
  <2>1. UNCHANGED <<sessionID, lastSeq, link, server, frames>>
        /\ listener' = [listener EXCEPT ![r] = ReadLoop]
        /\ handled' = IF event.session = server.session THEN handled \union {event.seq} ELSE handled
    BY <1>2 DEF Handled
  <2>2. ASSUME NEW d \in Link, NEW n \in Nat,
               listener[d].event = [session |-> server.session, seq |-> n]
        PROVE  listener'[d].event = listener[d].event \/ n \in handled'
    <3>1. CASE d = r
      BY <2>1, <2>2, <3>1
    <3>2. CASE d # r
      BY <2>1, <3>2 DEF GatewayTypes
    <3>. QED BY <3>1, <3>2
  <2>3. Taken \subseteq Taken'
    BY <2>1, <2>2, TakenKept
  <2>4. \A c \in Link : /\ GapFree(frames'[c], server.session, Taken')
                        /\ link'[c] = "open" =>
                             \A m : Covers(frames[c], m, Taken) => Covers(frames'[c], m, Taken')
    BY <2>1, <2>3, QueueChanges
  <2>5. server'.link # 0 /\ link'[server'.link] = "open"
          => Covers(frames'[server'.link], server'.seq, Taken')
    BY <2>1, <2>4, ServerStates DEF QueuesOK, GatewayTypes
  <2>. QED BY <2>1, <2>3, <2>4, <2>5, QueuesKeptBy
<1>. QED BY <1>1, <1>2, FrameKeepsEvents

LEMMA BeatKeepsEvents ==
  ASSUME GatewayTypes, QueuesOK, ResumeLosesNothing,
         LoopEnds \/ TickUnanswered \/ Tick \/ ResumeFails \/ ResetReconnecting
  PROVE  QueuesOK' /\ ResumeLosesNothing'
<1>1. UNCHANGED <<lastSeq, handled, server, listener, link>> /\ sessionID' \in {0, sessionID}
  BY DEF LoopEnds, TickUnanswered, Tick, ResumeFails, ResetReconnecting
<1>2. ASSUME NEW c \in Link
      PROVE  \/ frames'[c] = frames[c]
             \/ \E f \in Frame : f.op # "event" /\ frames'[c] = Append(frames[c], f)
  <2>1. CASE Tick
    <3>1. frames' \in Heartbeat(frames) /\ frames \in [Link -> Seq(Frame)]
      BY <2>1 DEF Tick, GatewayTypes
    <3>2. frames'[c] = frames[c] \/ frames'[c] = Append(frames[c], [op |-> "ack"])
      <4>1. \/ frames' = frames
            \/ frames' = [frames EXCEPT ![wsConn] = Append(frames[wsConn], [op |-> "ack"])]
        BY <3>1, HeartbeatFrames
      <4>. QED BY <3>1, <4>1
    <3>3. [op |-> "ack"] \in Frame /\ [op |-> "ack"].op # "event"
      BY NoticeFrames
    <3>. QED BY <3>2, <3>3
  <2>2. CASE ~Tick
    BY <2>2 DEF LoopEnds, TickUnanswered, ResumeFails, ResetReconnecting
  <2>. QED BY <2>1, <2>2
<1>. QED BY <1>1, <1>2, QuietStep

LEMMA CloseKeepsEvents ==
  ASSUME GatewayTypes, QueuesOK, ResumeLosesNothing, Stop \/ CloseOld \/ AttemptFails
  PROVE  QueuesOK' /\ ResumeLosesNothing'
<1>1. UNCHANGED <<sessionID, lastSeq, handled, server, listener>> /\ \E c : CloseConn(c)
  BY DEF Stop, CloseOld, AttemptFails
<1>2. \A d \in Link : /\ link'[d] = "open" => link[d] = "open"
                      /\ \/ frames'[d] = frames[d]
                         \/ frames'[d] = <<>> /\ link'[d] # "open"
  <2> PICK c : CloseConn(c)
    BY <1>1
  <2>1. link' = [d \in Link |-> IF d = c THEN "closed" ELSE link[d]]
        /\ frames' = [d \in Link |-> IF d = c THEN <<>> ELSE frames[d]]
    BY DEF CloseConn
  <2>. QED BY <2>1
<1>. QED BY <1>1, <1>2, QuietStep

LEMMA OpenKeepsEvents ==
  ASSUME GatewayInv, Start \/ (\E c \in Link : Dial(c)) \/ Identify \/ Resume
  PROVE  QueuesOK' /\ ResumeLosesNothing'
<1>. USE DEF GatewayInv
<1>1. ASSUME NEW c \in Link, WaitForReady(c),
             \A d \in Link : \A i \in DOMAIN frames'[d] : frames'[d][i].op # "event"
      PROVE  QueuesOK' /\ ResumeLosesNothing'
  <2>1. sessionID' = c /\ lastSeq' = 1 /\ server'.session = c /\ server'.seq = 1 /\ server'.link = c
    BY <1>1 DEF WaitForReady
  <2>. QED BY <1>1, <2>1, QueueEmpty DEF QueuesOK, ResumeLosesNothing
<1>2. CASE Start
  <2>1. wsConn = 0 /\ frames' = frames /\ WaitForReady(1) /\ 1 \in Link
    BY <1>2 DEF Start, LinksOK, Link
  <2>2. \A d \in Link : frames[d] = <<>>
    BY <2>1 DEF LinksOK, Link
  <2>. QED BY <1>1, <2>1, <2>2
<1>3. ASSUME NEW c \in Link, Dial(c) PROVE QueuesOK' /\ ResumeLosesNothing'
  <2>1. UNCHANGED <<sessionID, lastSeq, handled, server, listener, frames>>
        /\ link[c] = "none" /\ link' = [link EXCEPT ![c] = "open"]
    BY <1>3 DEF Dial
  <2>2. server.link # c /\ \A d \in Link : d # c => link'[d] = link[d]
    BY <2>1 DEF AuthOK, GatewayTypes
  <2>. QED BY <2>1, <2>2, QuietStep
<1>4. ASSUME Identify \/ Resume
      PROVE  /\ recon.link = wsConn /\ wsConn \in Link
             /\ \A i \in DOMAIN frames[wsConn] : frames[wsConn][i].op # "event"
             /\ \A d \in Link : d # wsConn => link[d] # "open" /\ frames[d] = <<>>
             /\ listener[wsConn] = Gone /\ listener' = [listener EXCEPT ![wsConn] = ReadLoop]
  <2>1. recon.pc = "auth" /\ listener' = [listener EXCEPT ![recon.link] = ReadLoop]
    BY <1>4 DEF Identify, Resume, StartLoops
  <2>2. recon.link = wsConn /\ wsConn \in Link
    BY <2>1, ReconStates DEF AuthOK, GatewayTypes
  <2>. QED BY <2>1, <2>2 DEF AuthOK, LinksOK
<1>5. CASE Identify
  <2>1. WaitForReady(wsConn) /\ frames' = frames
    BY <1>4, <1>5 DEF Identify
  <2>2. \A d \in Link : \A i \in DOMAIN frames'[d] : frames'[d][i].op # "event"
    BY <1>4, <1>5, <2>1
  <2>. QED BY <1>1, <1>4, <1>5, <2>1, <2>2
<1>6. CASE Resume
  <2>1. \A d \in Link : listener'[d].event = listener[d].event
    BY <1>4, <1>6, GoneTypes DEF GatewayTypes
  <2>2. /\ UNCHANGED <<sessionID, lastSeq, handled, link>> /\ sessionID # 0
        /\ \/ /\ server.session = sessionID
              /\ server' = [server EXCEPT !.link = wsConn]
              /\ frames' = [frames EXCEPT ![wsConn] = frames[wsConn] \o After(lastSeq)]
           \/ /\ server' = server
              /\ frames' = [frames EXCEPT ![wsConn] = Append(frames[wsConn], [op |-> "invalid"])]
    BY <1>4, <1>6 DEF Resume
  <2>3. CASE /\ server' = server
             /\ frames' = [frames EXCEPT ![wsConn] = Append(frames[wsConn], [op |-> "invalid"])]
    <3>1. [op |-> "invalid"] \in Frame /\ [op |-> "invalid"].op # "event"
      BY NoticeFrames DEF Notice
    <3>2. ASSUME NEW d \in Link
          PROVE  \/ frames'[d] = frames[d]
                 \/ \E f \in Frame : f.op # "event" /\ frames'[d] = Append(frames[d], f)
      BY <1>4, <1>6, <2>3, <3>1 DEF GatewayTypes
    <3>. QED BY <2>1, <2>2, <2>3, <3>2, QuietStep
  <2>4. CASE /\ server.session = sessionID
             /\ server' = [server EXCEPT !.link = wsConn]
             /\ frames' = [frames EXCEPT ![wsConn] = frames[wsConn] \o After(lastSeq)]
    <3>1. server'.session = server.session /\ server'.seq = server.seq /\ server'.link = wsConn
      BY <2>4 DEF GatewayTypes, ServerState
    <3>2. Taken \subseteq Taken'
      BY <2>1, <2>2, <3>1, TakenKept
    <3>3. lastSeq \in 1..MaxSeq /\ \A k \in 2..lastSeq : k \in Taken'
      <4>1. \A k \in 2..lastSeq : k \in Taken
        BY <2>2, <2>4 DEF ResumeLosesNothing, Taken, GatewayTypes
      <4>. QED BY <2>2, <3>2, <4>1 DEF GatewayTypes
    <3>4. /\ GapFree(frames'[wsConn], server.session, Taken')
          /\ Covers(frames'[wsConn], server.seq, Taken')
      <4>1. frames'[wsConn] = frames[wsConn] \o After(lastSeq) /\ frames[wsConn] \in Seq(Frame)
        BY <1>4, <1>6, <2>4 DEF GatewayTypes
      <4>2. server.session # 0 /\ \A i \in DOMAIN frames[wsConn] : frames[wsConn][i].op # "event"
        BY <1>4, <1>6, <2>2, <2>4
      <4>3. /\ GapFree(frames[wsConn] \o After(lastSeq), server.session, Taken')
            /\ Covers(frames[wsConn] \o After(lastSeq), server.seq, Taken')
        BY <3>3, <4>1, <4>2, QueueResumed
      <4>. QED BY <4>1, <4>3
    <3>5. ASSUME NEW d \in Link, d # wsConn
          PROVE  GapFree(frames'[d], server.session, Taken')
      <4>1. frames'[d] = <<>>
        BY <1>4, <1>6, <2>4, <3>5 DEF GatewayTypes
      <4>. QED BY <4>1 DEF GapFree
    <3>6. \A d \in Link : GapFree(frames'[d], server.session, Taken')
      BY <3>4, <3>5
    <3>. QED BY <2>2, <3>1, <3>2, <3>4, <3>6, QueuesKeptBy
  <2>. QED BY <2>2, <2>3, <2>4
<1>. QED BY <1>2, <1>3, <1>5, <1>6

LEMMA GatewayKeepsEvents ==
  ASSUME GatewayTypes, QueuesOK, ResumeLosesNothing,
         \/ SendEvent \/ \E c \in Link : Break(c)
         \/ \E op \in Notice : SendNotice(op)
  PROVE  QueuesOK' /\ ResumeLosesNothing'
<1>1. ASSUME NEW op \in Notice, SendNotice(op) PROVE QueuesOK' /\ ResumeLosesNothing'
  <2>1. /\ UNCHANGED <<sessionID, lastSeq, handled, listener, link>>
        /\ frames' = [frames EXCEPT ![server.link] = Append(frames[server.link], [op |-> op])]
        /\ server' \in {server, [server EXCEPT !.resumable = FALSE]}
    BY <1>1 DEF SendNotice
  <2>2. server'.session = server.session /\ server'.seq = server.seq /\ server'.link = server.link
    BY <2>1 DEF GatewayTypes, ServerState
  <2>3. [op |-> op] \in Frame /\ [op |-> op].op # "event"
    BY NoticeFrames DEF Notice
  <2>4. \A c \in Link : \/ frames'[c] = frames[c]
                        \/ \E f \in Frame : f.op # "event" /\ frames'[c] = Append(frames[c], f)
    BY <2>1, <2>3 DEF GatewayTypes
  <2>. QED BY <2>1, <2>2, <2>4, QuietStep
<1>2. ASSUME NEW c \in Link, Break(c) PROVE QueuesOK' /\ ResumeLosesNothing'
  <2> PICK n \in 0..Len(frames[c]) : frames' = [frames EXCEPT ![c] = SubSeq(frames[c], 1, n)]
    BY <1>2 DEF Break
  <2>1. /\ UNCHANGED <<sessionID, lastSeq, handled, listener, server>>
        /\ link[c] = "open" /\ link' = [link EXCEPT ![c] = "lost"]
    BY <1>2 DEF Break
  <2>2. Taken \subseteq Taken' /\ Taken' \subseteq Taken
    BY <2>1 DEF Taken
  <2>3. ASSUME NEW d \in Link PROVE GapFree(frames'[d], server.session, Taken')
    <3>1. frames[d] \in Seq(Frame) /\ GapFree(frames[d], server.session, Taken')
      BY <2>2, QueueSame DEF GatewayTypes, QueuesOK
    <3>2. CASE d = c
      <4>1. frames'[d] = SubSeq(frames[d], 1, n)
        BY <3>2 DEF GatewayTypes
      <4>. QED BY <3>1, <3>2, <4>1, QueuePrefix
    <3>3. CASE d # c
      BY <3>1, <3>3 DEF GatewayTypes
    <3>. QED BY <3>2, <3>3
  <2>4. ASSUME server.link # 0, link'[server.link] = "open"
        PROVE  Covers(frames'[server.link], server.seq, Taken')
    <3>1. server.link \in Link
      BY <2>4, ServerStates DEF GatewayTypes
    <3>2. server.link # c /\ link[server.link] = "open"
      BY <2>1, <2>4, <3>1 DEF GatewayTypes
    <3>3. frames'[server.link] = frames[server.link] /\ frames[server.link] \in Seq(Frame)
      BY <3>1, <3>2 DEF GatewayTypes
    <3>. QED BY <2>2, <2>4, <3>2, <3>3, QueueSame DEF QueuesOK
  <2>. QED BY <2>1, <2>2, <2>3, <2>4, QueuesKeptBy
<1>3. CASE SendEvent
  <2> DEFINE event == [session |-> server.session, seq |-> server.seq + 1]
             f == [op |-> "event", event |-> event]
             c == server.link
  <2>1. /\ UNCHANGED <<sessionID, lastSeq, handled, listener, link>>
        /\ server.session # 0 /\ server.seq < MaxSeq
        /\ server' = [server EXCEPT !.seq = server.seq + 1]
        /\ frames' = IF link[c] = "open" THEN [frames EXCEPT ![c] = Append(frames[c], f)] ELSE frames
    BY <1>3 DEF SendEvent
  <2>2. /\ server'.session = server.session /\ server'.seq = server.seq + 1 /\ server'.link = c
        /\ server.session \in Link /\ c \in Link /\ server.seq \in 1..MaxSeq
    <3>1. server.session \in Link /\ c \in Link /\ server.seq \in 1..MaxSeq
      BY <2>1, ServerStates DEF GatewayTypes
    <3>. QED BY <2>1, <3>1 DEF GatewayTypes, ServerState
  <2>3. Taken \subseteq Taken'
    BY <2>1, <2>2, TakenKept
  <2>4. \A d \in Link : frames[d] \in Seq(Frame) /\ GapFree(frames[d], server.session, Taken')
                        /\ \A m : Covers(frames[d], m, Taken) => Covers(frames[d], m, Taken')
    BY <2>3, QueueSame DEF GatewayTypes, QueuesOK
  <2>5. CASE link[c] # "open"
    BY <2>1, <2>2, <2>3, <2>4, <2>5, QueuesKeptBy
  <2>6. CASE link[c] = "open"
    <3>1. event \in GatewayEvent
      BY <2>1, <2>2 DEF GatewayEvent
    <3>2. f \in Frame /\ f.op = "event" /\ f.event = event
      BY <3>1, NoticeFrames
    <3>3. Covers(frames[c], server.seq, Taken')
      <4>1. c # 0 /\ Covers(frames[c], server.seq, Taken)
        BY <2>2, <2>6 DEF QueuesOK, Link
      <4>. QED BY <2>2, <2>4, <4>1
    <3>4. f.event.session = server.session /\ f.event.seq - 1 = server.seq
          /\ Carries(f, server.seq + 1) /\ server.seq \in Nat
      BY <2>2, <3>2 DEF Carries
    <3>5. GapFree(Append(frames[c], f), server.session, Taken')
          /\ Covers(Append(frames[c], f), server.seq + 1, Taken')
      BY <2>2, <2>4, <3>2, <3>3, <3>4, QueueAppend
    <3>6. frames'[c] = Append(frames[c], f) /\ \A d \in Link : d # c => frames'[d] = frames[d]
      BY <2>1, <2>2, <2>6 DEF GatewayTypes
    <3>7. \A d \in Link : GapFree(frames'[d], server.session, Taken')
      BY <2>4, <3>5, <3>6
    <3>. QED BY <2>1, <2>2, <2>3, <3>5, <3>6, <3>7, QueuesKeptBy
  <2>. QED BY <2>5, <2>6
<1>. QED BY <1>1, <1>2, <1>3

LEMMA GatewayInvariance == GatewaySpec => []GatewayInv
<1>1. GatewayInit => GatewayInv
  <2> SUFFICES ASSUME GatewayInit PROVE GatewayInv
    OBVIOUS
  <2>1. reconnecting \in BOOLEAN /\ ~reconnecting
    BY Zenon DEF GatewayInit
  <2>2. ReconOK /\ SomeoneWatches
    BY <2>1 DEF GatewayInit, ReconOK, SomeoneWatches, Gone
  <2>3. LinksOK /\ AuthOK
    BY DEF GatewayInit, LinksOK, AuthOK, Link
  <2>4. QueuesOK /\ ResumeLosesNothing
    BY DEF GatewayInit, QueuesOK, ResumeLosesNothing, GapFree
  <2>. QED BY <2>2, <2>3, <2>4, TypesStart DEF GatewayInv
<1>2. GatewayInv /\ [GatewayNext]_gatewayVars => GatewayInv'
  <2> SUFFICES ASSUME GatewayInv, [GatewayNext]_gatewayVars PROVE GatewayInv'
    OBVIOUS
  <2>1. CASE GatewayNext
    <3>1. GatewayTypes' /\ ReconOK' /\ SomeoneWatches'
      BY <2>1, TypesKept, WatchKept DEF GatewayInv
    <3>2. LinksOK' /\ AuthOK'
      BY <2>1, <3>1, ReadKeepsLinks, BeatKeepsLinks, CloseKeepsLinks, OpenKeepsLinks,
         GatewayKeepsLinks DEF GatewayNext, GatewayInv
    <3>3. QueuesOK' /\ ResumeLosesNothing'
      BY <2>1, LoopKeepsEvents, BeatKeepsEvents, CloseKeepsEvents, OpenKeepsEvents,
         GatewayKeepsEvents DEF GatewayNext, GatewayInv
    <3>. QED BY <3>1, <3>2, <3>3 DEF GatewayInv
  <2>2. CASE UNCHANGED gatewayVars
    <3>1. GatewayTypes' /\ ReconOK' /\ SomeoneWatches'
      BY <2>2, TypesKept DEF gatewayVars, GatewayInv, ReconOK, SomeoneWatches
    <3>2. LinksOK' /\ AuthOK'
      BY <2>2 DEF gatewayVars, GatewayInv, LinksOK, AuthOK
    <3>3. Taken' = Taken
      BY <2>2 DEF gatewayVars, Taken
    <3>4. QueuesOK' /\ ResumeLosesNothing'
      BY <2>2, <3>3 DEF gatewayVars, GatewayInv, QueuesOK, ResumeLosesNothing
    <3>. QED BY <3>1, <3>2, <3>4 DEF GatewayInv
  <2>. QED BY <2>1, <2>2
<1>. QED BY <1>1, <1>2, PTL DEF GatewaySpec

\* ResumeLosesNothing for any number of connections, attempts and events: what lastSeq
\* counts was taken, so that the events a resume asks for again are all that were not
\* (readLoop stores lastSeq, sendResume reads it).
THEOREM NoEventIsLost == GatewaySpec => []ResumeLosesNothing
<1>1. GatewayInv => ResumeLosesNothing
  BY DEF GatewayInv
<1>. QED BY <1>1, GatewayInvariance, PTL

-----------------------------------------------------------------------------
(* The types of the gateway: its loops can be counted.                     *)

\* The heartbeatLoops that run, and the one that is about to begin, have each had a
\* connection of their own, and the connections are opened in their order.
Starting == recon.pc \in {"auth", "reset"}
BeatsOK ==
  /\ beats <= MaxConn /\ (Starting => beats < MaxConn)
  /\ \A c \in Link : link[c] = "none" => beats < c /\ (Starting => beats + 1 < c)

\* A readLoop that handles has an event in hand, and what is handled was sent.
HandOK == \A r \in Link : listener[r].pc = "handle" => listener[r].event \in GatewayEvent

CountsOK ==
  /\ heartbeatOK \in BOOLEAN
  /\ handled \subseteq 2..MaxSeq
  /\ notices \in 0..MaxNotice

\* A loop ends, reconnectLoop goes back, connections are closed or break.
LEMMA FewerLoops ==
  ASSUME GatewayTypes, BeatsOK, beats' \in Nat, beats' <= beats, Starting' => Starting,
         \A c \in Link : link'[c] = "none" => link[c] = "none"
  PROVE  BeatsOK'
<1>1. beats \in Nat /\ MaxConn \in Nat /\ \A c \in Link : c \in Nat
  BY DEF GatewayTypes, Link
<1>. QED BY <1>1 DEF BeatsOK

LEMMA BeatsKept ==
  ASSUME GatewayTypes, ReconOK, BeatsOK, [GatewayNext]_gatewayVars
  PROVE  BeatsOK'
<1>1. beats \in Nat /\ beats <= beats
      /\ reconnecting \in BOOLEAN /\ (~reconnecting => recon.pc \in {"new", "no"})
  BY DEF GatewayTypes, ReconOK
<1>2. ASSUME TriggerReconnect PROVE Starting' => Starting
  BY <1>2 DEF TriggerReconnect, Starting
<1>3. ASSUME NEW c, CloseConn(c) PROVE \A d \in Link : link'[d] = "none" => link[d] = "none"
  BY <1>3 DEF CloseConn
<1>4. CASE Start
  <2>1. beats' = 1 /\ ~Starting' /\ \A c \in Link : link'[c] = "none" => c # 1
    BY <1>4 DEF Start, Starting, GatewayTypes, ReconState
  <2>. QED BY <2>1 DEF BeatsOK, Link
<1>5. CASE Stop \/ AttemptFails \/ CloseOld
  <2>1. beats' = beats /\ \A d \in Link : link'[d] = "none" => link[d] = "none"
    BY <1>3, <1>5 DEF Stop, AttemptFails, CloseOld
  <2>2. Starting' => Starting
    <3>1. recon \in [pc : ReconPC, attempt : 0..MaxAttempts, link : 0..MaxConn]
      BY DEF GatewayTypes, ReconState
    <3>2. recon' = recon \/ recon'.pc \in {"failed", "dial"}
      BY <1>5, <3>1 DEF Stop, AttemptFails, CloseOld, NextAttempt
    <3>. QED BY <3>2 DEF Starting
  <2>. QED BY <1>1, <2>1, <2>2, FewerLoops
<1>6. ASSUME NEW r \in Link, ReadError(r) \/ ReadFrame(r) \/ Handled(r)
      PROVE  BeatsOK'
  <2>1. beats' = beats /\ link' = link
    BY <1>6 DEF ReadError, ReadFrame, Handled
  <2>2. recon' = recon \/ TriggerReconnect
    <3>1. CASE ReadError(r) \/ Handled(r)
      BY <3>1, Zenon DEF ReadError, Handled
    <3>2. CASE ReadFrame(r)
      <4>. DEFINE frame == Head(frames[listener[r].link])
      <4>1. frame.op \in {"event", "ack", "beat", "reconnect", "invalid", "resumable"}
        BY <3>2, ReadsFrame
      <4>2. CASE frame.op \in {"event", "ack", "beat"}
        BY <3>2, <4>2 DEF ReadFrame
      <4>3. CASE frame.op \in {"reconnect", "invalid", "resumable"}
        BY <3>2, <4>3 DEF ReadFrame
      <4>. QED BY <4>1, <4>2, <4>3
    <3>. QED BY <1>6, <3>1, <3>2
  <2>. QED BY <1>1, <1>2, <2>1, <2>2, FewerLoops DEF Starting
<1>7. CASE LoopEnds \/ TickUnanswered \/ Tick
  <2>1. link' = link /\ (recon' = recon \/ TriggerReconnect)
    BY <1>7, Zenon DEF LoopEnds, TickUnanswered, Tick
  <2>2. beats' \in Nat /\ beats' <= beats
    BY <1>1, <1>7 DEF LoopEnds, TickUnanswered, Tick
  <2>. QED BY <1>2, <2>1, <2>2, FewerLoops DEF Starting
<1>8. CASE Identify \/ Resume
  <2>1. link' = link /\ beats' = beats /\ recon.pc = "auth"
    BY <1>8 DEF Identify, Resume
  <2>. QED BY <1>1, <2>1, FewerLoops DEF Starting
<1>9. CASE ResetReconnecting
  <2>1. /\ link' = link /\ ~Starting' /\ beats' = IF recon.pc = "reset" THEN beats + 1 ELSE beats
    BY <1>9 DEF ResetReconnecting, Starting
  <2>2. MaxConn \in Nat /\ \A c \in Link : c \in Nat
    BY DEF Link
  <2>. QED BY <1>1, <2>1, <2>2 DEF BeatsOK, Starting
<1>10. ASSUME NEW c \in Link, Dial(c) PROVE BeatsOK'
  <2>1. /\ link[c] = "none" /\ \A d \in 1..(c - 1) : link[d] # "none"
        /\ recon.pc = "dial" /\ recon'.pc = "auth" /\ beats' = beats
        /\ link' = [link EXCEPT ![c] = "open"]
    BY <1>10 DEF Dial, GatewayTypes, ReconState
  <2>2. beats < c /\ c \in 1..MaxConn /\ MaxConn \in Nat
    BY <2>1 DEF BeatsOK, Link
  <2>3. ASSUME NEW d \in Link, link'[d] = "none" PROVE d > c
    <3>1. d # c /\ link[d] = "none"
      BY <2>1, <2>3 DEF GatewayTypes
    <3>2. ~(d \in 1..(c - 1))
      BY <2>1, <3>1
    <3>. QED BY <2>2, <3>1, <3>2 DEF Link
  <2>. QED BY <1>1, <2>1, <2>2, <2>3 DEF BeatsOK, Link
<1>11. ASSUME \/ SendEvent \/ ResumeFails \/ UNCHANGED gatewayVars
              \/ \E c \in Link : Break(c)
              \/ \E op \in Notice : SendNotice(op)
       PROVE  BeatsOK'
  <2>1. UNCHANGED <<beats, recon>> /\ \A c \in Link : link'[c] = "none" => link[c] = "none"
    BY <1>11 DEF Break, SendEvent, ResumeFails, SendNotice, GatewayTypes, gatewayVars
  <2>. QED BY <1>1, <2>1, FewerLoops DEF Starting
<1>. QED BY <1>4, <1>5, <1>6, <1>7, <1>8, <1>9, <1>10, <1>11, Zenon DEF GatewayNext

LEMMA HandKept ==
  ASSUME GatewayTypes, HandOK, [GatewayNext]_gatewayVars
  PROVE  HandOK'
<1>1. CASE listener' = listener
  BY <1>1 DEF HandOK
<1>2. ASSUME NEW r \in Link, NEW l, listener' = [listener EXCEPT ![r] = l],
             l.pc = "handle" => l.event \in GatewayEvent
      PROVE  HandOK'
  BY <1>2 DEF HandOK, GatewayTypes
<1>3. Gone.pc # "handle" /\ ReadLoop.pc # "handle"
  BY GoneTypes
<1>4. CASE Start
  <2>1. 1 \in Link /\ [pc |-> "read", link |-> 1, event |-> NoEvent].pc # "handle"
    BY DEF Link
  <2>2. listener' = [listener EXCEPT ![1] = [pc |-> "read", link |-> 1, event |-> NoEvent]]
    BY <1>4 DEF Start
  <2>. QED BY <1>2, <2>1, <2>2
<1>5. ASSUME NEW r \in Link, ReadError(r) \/ Handled(r) PROVE HandOK'
  BY <1>2, <1>3, <1>5 DEF ReadError, Handled
<1>6. ASSUME NEW r \in Link, ReadFrame(r) PROVE HandOK'
  <2>. DEFINE c == listener[r].link
              frame == Head(frames[c])
  <2>1. frame.op = "event" => frame.event \in GatewayEvent
    BY <1>6, ReadsFrame
  <2>2. CASE frame.op = "event"
    <3>1. listener' = [listener EXCEPT ![r] = [listener[r] EXCEPT !.pc = "handle",
                                                                  !.event = frame.event]]
      BY <1>6, <2>2 DEF ReadFrame
    <3>2. listener[r] \in LoopState
      BY DEF GatewayTypes
    <3>3. [listener[r] EXCEPT !.pc = "handle", !.event = frame.event].event = frame.event
      BY <3>2 DEF LoopState
    <3>. QED BY <1>2, <2>1, <2>2, <3>1, <3>3
  <2>3. CASE frame.op # "event"
    <3>1. frame.op \in {"ack", "beat", "reconnect", "invalid", "resumable"}
      BY <1>6, <2>3, ReadsFrame
    <3>2. \E l \in {Gone, ReadLoop} : listener' = [listener EXCEPT ![r] = l]
      BY <1>6, <3>1 DEF ReadFrame
    <3>. QED BY <1>2, <1>3, <3>2
  <2>. QED BY <2>2, <2>3
<1>7. CASE Identify \/ Resume
  <2>1. recon.link \in Link /\ listener' = [listener EXCEPT ![recon.link] = ReadLoop]
    BY <1>7, ReconStates DEF Identify, Resume, StartLoops, GatewayTypes
  <2>. QED BY <1>2, <1>3, <2>1
<1>8. ASSUME \/ Stop \/ LoopEnds \/ TickUnanswered \/ Tick \/ CloseOld \/ AttemptFails
             \/ ResumeFails \/ ResetReconnecting \/ SendEvent \/ UNCHANGED gatewayVars
             \/ \E c \in Link : Dial(c) \/ Break(c)
             \/ \E op \in Notice : SendNotice(op)
      PROVE  listener' = listener
  BY <1>8 DEF Stop, LoopEnds, TickUnanswered, Tick, CloseOld, AttemptFails, ResumeFails,
     ResetReconnecting, SendEvent, Dial, Break, SendNotice, gatewayVars
<1>. QED BY <1>1, <1>4, <1>5, <1>6, <1>7, <1>8, Zenon DEF GatewayNext

LEMMA CountsKept ==
  ASSUME GatewayTypes, HandOK, CountsOK, [GatewayNext]_gatewayVars
  PROVE  CountsOK'
<1>1. heartbeatOK' \in BOOLEAN
  <2>1. ASSUME NEW r \in Link, ReadFrame(r) PROVE heartbeatOK' = heartbeatOK \/ heartbeatOK' = TRUE
    <3>. DEFINE frame == Head(frames[listener[r].link])
    <3>1. frame.op \in {"event", "ack", "beat", "reconnect", "invalid", "resumable"}
      BY <2>1, ReadsFrame
    <3>2. CASE frame.op = "ack"
      BY <2>1, <3>2 DEF ReadFrame
    <3>3. CASE frame.op # "ack"
      BY <2>1, <3>1, <3>3 DEF ReadFrame
    <3>. QED BY <3>2, <3>3
  <2>2. ASSUME [GatewayNext]_gatewayVars, ~\E r \in Link : ReadFrame(r)
        PROVE  heartbeatOK' = heartbeatOK \/ heartbeatOK' = TRUE \/ heartbeatOK' = FALSE
    BY <2>2, Zenon DEF GatewayNext, gatewayVars, Start, Stop, ReadError, Handled, LoopEnds,
       TickUnanswered, Tick, CloseOld, AttemptFails, Identify, Resume, ResumeFails,
       ResetReconnecting, Dial, Break, SendEvent, SendNotice
  <2>3. heartbeatOK \in BOOLEAN
    BY DEF CountsOK
  <2>. QED BY <2>1, <2>2, <2>3, Zenon
<1>2. handled' \subseteq 2..MaxSeq
  <2>1. ASSUME NEW r \in Link, Handled(r) PROVE handled' \subseteq 2..MaxSeq
    <3>1. listener[r].event \in GatewayEvent
      BY <2>1 DEF Handled, HandOK
    <3>2. listener[r].event.seq \in 2..MaxSeq
      BY <3>1 DEF GatewayEvent
    <3>. QED BY <2>1, <3>2 DEF Handled, CountsOK
  <2>2. ASSUME [GatewayNext]_gatewayVars, ~\E r \in Link : Handled(r) PROVE handled' \in {handled, {}}
    BY <2>2, Zenon DEF GatewayNext, gatewayVars, Start, Stop, ReadError, ReadFrame, LoopEnds,
       TickUnanswered, Tick, CloseOld, AttemptFails, Identify, Resume, ResumeFails,
       ResetReconnecting, Dial, Break, SendEvent, SendNotice, WaitForReady
  <2>. QED BY <2>1, <2>2 DEF CountsOK
<1>3. notices' \in 0..MaxNotice
  <2>1. notices' = notices \/ (notices < MaxNotice /\ notices' = notices + 1)
    BY Zenon DEF GatewayNext, gatewayVars, Start, Stop, ReadError, ReadFrame, Handled, LoopEnds,
       TickUnanswered, Tick, CloseOld, AttemptFails, Identify, Resume, ResumeFails,
       ResetReconnecting, Dial, Break, SendEvent, SendNotice
  <2>. QED BY <2>1 DEF CountsOK
<1>. QED BY <1>1, <1>2, <1>3 DEF CountsOK

\* The connection to the gateway stays well formed (platform/qqbot): for any number of
\* connections, there are never more heartbeatLoops than connections were opened,
\* though a loop is not tied to its connection and may outlive it.
THEOREM GatewayTypeCorrect == GatewaySpec => []GatewayTypeOK
<1>1. GatewayInit => BeatsOK /\ HandOK /\ CountsOK
  <2>. SUFFICES ASSUME GatewayInit PROVE BeatsOK /\ HandOK /\ CountsOK
    OBVIOUS
  <2>1. BeatsOK
    BY DEF GatewayInit, BeatsOK, Starting, Link
  <2>2. HandOK
    BY DEF GatewayInit, HandOK, Gone
  <2>3. heartbeatOK \in BOOLEAN
    BY Zenon DEF GatewayInit
  <2>. QED BY <2>1, <2>2, <2>3 DEF GatewayInit, CountsOK
<1>2. WatchInv /\ BeatsOK /\ HandOK /\ CountsOK /\ [GatewayNext]_gatewayVars
        => BeatsOK' /\ HandOK' /\ CountsOK'
  BY BeatsKept, HandKept, CountsKept DEF WatchInv
<1>3. WatchInv /\ BeatsOK /\ CountsOK => GatewayTypeOK
  <2>. SUFFICES ASSUME WatchInv, BeatsOK, CountsOK PROVE GatewayTypeOK
    OBVIOUS
  <2>1. GatewayTypes
    BY DEF WatchInv
  <2>2. beats \in 0..MaxConn
    BY <2>1 DEF BeatsOK, GatewayTypes
  <2>3. \A c \in Link : \A i \in DOMAIN frames[c] : frames[c][i] \in Frame
    <3>. SUFFICES ASSUME NEW c \in Link, NEW i \in DOMAIN frames[c] PROVE frames[c][i] \in Frame
      OBVIOUS
    <3>1. frames[c] \in Seq(Frame)
      BY <2>1 DEF GatewayTypes
    <3>. QED BY <3>1, ElementOfSeq, LenProperties
  <2>4. /\ listener \in [Link -> [pc : {"read", "handle", "gone"}, link : 0..MaxConn,
                                  event : GatewayEvent \union {NoEvent}]]
        /\ recon \in [pc : {"new", "no", "close", "dial", "auth", "reset", "failed"},
                      attempt : 0..MaxAttempts, link : 0..MaxConn]
        /\ server \in [session : 0..MaxConn, seq : 0..MaxSeq, resumable : BOOLEAN,
                       link : 0..MaxConn]
    BY <2>1 DEF GatewayTypes, LoopState, ReconState, ReconPC, ServerState
  <2>. QED BY <2>1, <2>2, <2>3, <2>4, Zenon DEF GatewayTypes, CountsOK, GatewayTypeOK
<1>. QED BY <1>1, <1>2, <1>3, WatchInvariance, PTL DEF GatewaySpec
=============================================================================
