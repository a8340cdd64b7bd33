---------------------------- MODULE QQBotSender ----------------------------
(***************************************************************************)
(* How platform/qqbot/qqbot.go sends: the goroutines that answer number    *)
(* their replies to an event from a table that forgets an event after a    *)
(* while, share one access token, and try a message again when the server  *)
(* refuses the token. Answers of the server may be lost.                   *)
(***************************************************************************)
EXTENDS Integers

CONSTANTS
  Sender,   \* goroutines that send
  Event,    \* messages of users, by their id
  TTL,      \* msgSeqTTL
  MaxNow,   \* bound on the time
  MaxSend,  \* bound on the messages sent
  MaxIssue  \* bound on the tokens issued

ASSUME SenderAssumption ==
  TTL \in Nat /\ MaxNow \in Nat /\ MaxSend \in Nat /\ MaxIssue \in Nat \ {0}

VARIABLES
  now,
  msgSeqMap,  \* the last number and the time of creation of each event's entry
  token,      \* Platform.token, in the order of issue; 0 is none
  tokenFresh, \* whether tokenExpiry is further away than tokenRefreshMargin
  sending,    \* the calls of sendMessage
  issued,     \* tokens the server has given out
  valid,      \* tokens the server takes
  delivered,  \* the messages the server took
  firstAt,    \* when the first reply to each event was numbered
  sends       \* messages so far

senderVars == <<now, msgSeqMap, token, tokenFresh, sending, issued, valid, delivered,
                firstAt, sends>>

NoToken == 0
Unset == -1
NoEntry == [seq |-> 0, createdAt |-> Unset]
Token == 0..MaxIssue
Reply == [event : Event, seq : 1..MaxSend, at : 0..MaxNow, send : 1..MaxSend, again : BOOLEAN]
IdleSender == [pc |-> "idle"]

SenderTypeOK ==
  /\ now \in 0..MaxNow
  /\ msgSeqMap \in [Event -> [seq : 0..MaxSend, createdAt : {Unset} \union 0..MaxNow]]
  /\ token \in Token
  /\ tokenFresh \in BOOLEAN
  /\ sending \in [Sender ->
       {IdleSender} \union [pc : {"token", "ask", "store", "read", "post", "ask401", "store401"},
                      reply : Reply, token : Token]]
  /\ issued \in Token
  /\ valid \subseteq Token \ {NoToken}
  /\ delivered \subseteq Reply
  /\ firstAt \in [Event -> {Unset} \union 0..MaxNow]
  /\ sends \in 0..MaxSend

\* Start has fetched a token, or the platform would not run.
SenderInit ==
  /\ now = 0
  /\ msgSeqMap = [e \in Event |-> NoEntry]
  /\ token = 1
  /\ tokenFresh \in BOOLEAN
  /\ sending = [s \in Sender |-> IdleSender]
  /\ issued = 1
  /\ valid = {1}
  /\ delivered = {}
  /\ firstAt = [e \in Event |-> Unset]
  /\ sends = 0

SenderGoes(s, pc) == sending' = [sending EXCEPT ![s].pc = pc]
SenderReturns(s) == sending' = [sending EXCEPT ![s] = IdleSender]

-----------------------------------------------------------------------------
\* Mutant of Expired: an entry goes when it has reached its age, not when it has passed it.
ExpiredEarly(entry) == entry.createdAt # Unset /\ now - entry.createdAt >= TTL

\* What nextMsgSeq evicts, whatever the event it is called for.
Expired(entry) == entry.createdAt # Unset /\ now - entry.createdAt > TTL

\* sendMessage as an answer to e, with the number nextMsgSeq draws under msgSeqMu.
SendMessage(s, e) ==
  LET kept == [f \in Event |-> IF Expired(msgSeqMap[f]) THEN NoEntry ELSE msgSeqMap[f]]
      entry == [seq |-> kept[e].seq + 1,
                createdAt |-> IF kept[e] = NoEntry THEN now ELSE kept[e].createdAt]
  IN
  /\ sending[s] = IdleSender
  /\ sends < MaxSend
  /\ sends' = sends + 1
  /\ msgSeqMap' = [kept EXCEPT ![e] = entry]
  /\ firstAt' = [firstAt EXCEPT ![e] = IF @ = Unset THEN now ELSE @]
  /\ sending' = [sending EXCEPT ![s] =
       [pc |-> "token", token |-> NoToken,
        reply |-> [event |-> e, seq |-> entry.seq, at |-> now, send |-> sends', again |-> FALSE]]]
  /\ UNCHANGED <<now, token, tokenFresh, issued, valid, delivered>>

\* getAccessToken reads the shared token, and asks for one when it is near its end.
GetAccessToken(s) ==
  /\ sending[s].pc = "token"
  /\ IF token # NoToken /\ tokenFresh
     THEN sending' = [sending EXCEPT ![s].pc = "post", ![s].token = token]
     ELSE SenderGoes(s, "ask")
  /\ UNCHANGED <<now, msgSeqMap, token, tokenFresh, issued, valid, delivered, firstAt,
                 sends>>

\* refreshToken, of getAccessToken or after a refusal: the server issues a token ...
RefreshToken(s) ==
  /\ sending[s].pc \in {"ask", "ask401"}
  /\ issued < MaxIssue
  /\ issued' = issued + 1
  /\ valid' = valid \union {issued'}
  /\ sending' = [sending EXCEPT ![s].pc = IF @ = "ask" THEN "store" ELSE "store401",
                               ![s].token = issued']
  /\ UNCHANGED <<now, msgSeqMap, token, tokenFresh, delivered, firstAt, sends>>

\* ... or none: the message fails, but for a second refresh after a refusal,
\* whose error nobody looks at: the request goes out without a token.
RefreshFails(s) ==
  /\ sending[s].pc \in {"ask", "ask401"}
  /\ IF sending[s].pc = "ask" /\ sending[s].reply.again
     THEN sending' = [sending EXCEPT ![s].pc = "post", ![s].token = NoToken]
     ELSE SenderReturns(s)
  /\ UNCHANGED <<now, msgSeqMap, token, tokenFresh, issued, valid, delivered, firstAt,
                 sends>>

\* ... which is stored, perhaps over a later one, and may be near its end at
\* once. After a refusal getAccessToken begins again.
StoreToken(s) ==
  /\ sending[s].pc \in {"store", "store401"}
  /\ token' = sending[s].token
  /\ tokenFresh' \in BOOLEAN
  /\ SenderGoes(s, IF sending[s].pc = "store" THEN "read" ELSE "token")
  /\ UNCHANGED <<now, msgSeqMap, issued, valid, delivered, firstAt, sends>>

\* getAccessToken returns the shared token, whoever stored it last.
ReadToken(s) ==
  /\ sending[s].pc = "read"
  /\ sending' = [sending EXCEPT ![s].pc = "post", ![s].token = token]
  /\ UNCHANGED <<now, msgSeqMap, token, tokenFresh, issued, valid, delivered, firstAt,
                 sends>>

\* The server takes the message; its answer may be lost, and the caller told of an error.
PostAccepted(s) ==
  /\ sending[s].pc = "post"
  /\ sending[s].token \in valid
  /\ delivered' = delivered \union {sending[s].reply}
  /\ SenderReturns(s)
  /\ UNCHANGED <<now, msgSeqMap, token, tokenFresh, issued, valid, firstAt, sends>>

\* The request is lost, or refused for another reason than the token.
PostFails(s) ==
  /\ sending[s].pc = "post"
  /\ SenderReturns(s)
  /\ UNCHANGED <<now, msgSeqMap, token, tokenFresh, issued, valid, delivered, firstAt,
                 sends>>

\* 401: a new token, and one more try with the same number.
PostUnauthorized(s) ==
  /\ sending[s].pc = "post"
  /\ sending[s].token \notin valid
  /\ IF sending[s].reply.again THEN SenderReturns(s)
     ELSE sending' = [sending EXCEPT ![s].pc = "ask401", ![s].reply.again = TRUE]
  /\ UNCHANGED <<now, msgSeqMap, token, tokenFresh, issued, valid, delivered, firstAt,
                 sends>>

-----------------------------------------------------------------------------
\* Time passes, and the token comes near its end.
ClockTicks ==
  /\ now < MaxNow
  /\ now' = now + 1
  /\ tokenFresh' \in {tokenFresh, FALSE}
  /\ UNCHANGED <<msgSeqMap, token, sending, issued, valid, delivered, firstAt, sends>>

\* The server no longer takes a token.
Revoke(t) ==
  /\ t \in valid
  /\ valid' = valid \ {t}
  /\ UNCHANGED <<now, msgSeqMap, token, tokenFresh, sending, issued, delivered, firstAt,
                 sends>>

SenderNext ==
  \/ \E s \in Sender :
       \/ \E e \in Event : SendMessage(s, e)
       \/ GetAccessToken(s) \/ RefreshToken(s) \/ RefreshFails(s) \/ StoreToken(s)
       \/ ReadToken(s) \/ PostAccepted(s) \/ PostFails(s) \/ PostUnauthorized(s)
  \/ ClockTicks
  \/ \E t \in Token : Revoke(t)

SenderSpec == SenderInit /\ [][SenderNext]_senderVars

-----------------------------------------------------------------------------
\* The server takes no two replies to one event under the same number, whoever
\* sends them, however often they are tried and whatever other event is
\* answered, until the first reply is older than msgSeqTTL: then the numbers
\* begin again, in the middle of a long answer too.
NumbersAreFresh ==
  \A a, b \in delivered :
    a # b /\ a.event = b.event /\ a.seq = b.seq
      => a.at > firstAt[a.event] + TTL \/ b.at > firstAt[a.event] + TTL
=============================================================================
