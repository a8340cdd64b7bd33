-------------------------------- MODULE Relay --------------------------------
(***************************************************************************)
(* The relay between the bots of one group chat: RelayManager with its     *)
(* table of bindings (core/relay.go), /bind (cmdBind), the bind and send   *)
(* requests of the API, and HandleRelay of the engine of the target.       *)
(*                                                                         *)
(* A binding is an object with a set of bots; the table holds a pointer to *)
(* it. AddToBind and RemoveFromBind change the object under the lock of    *)
(* the manager; Send, cmdBind and cmdBindStatus take the pointer under the *)
(* lock and read the object without it. HandleRelay takes no lock of the   *)
(* session of its relay key: two relays may run in one conversation, and   *)
(* what one of them stores may come between the check and the store of the *)
(* other.                                                                  *)
(***************************************************************************)
EXTENDS Naturals, FiniteSets

CONSTANTS
  Bot,         \* projects
  Request,     \* requests at one time; one that has ended may be another later
  MaxBinding,  \* bound on the binding objects
  MaxRelayConv, \* bound on the conversations
  NoBot

ASSUME RelayAssumption == MaxBinding \in Nat /\ MaxRelayConv \in Nat

VARIABLES
  engines,        \* projects that have an engine
  binding,        \* the binding of the chat, 0 for none
  bots,           \* Bots of each object
  made,           \* the objects that were made
  writing,        \* a map write is going on in this object (under the lock)
  binder,         \* cmdBind: where it is, the projects it adds and what it read
  relay,          \* each request
  agentSessionID, \* of the session of each target's relay key, 0 for ""
  lastAnswer,     \* conversation of the last answer of each target, 0 for none
  overwritten,    \* history: targets whose session was set from a check that was
                  \* stale by then, and no result has named a conversation since
  convs,          \* conversations so far
  fatal           \* "no", or what ended the process

relayVars == <<engines, binding, bots, made, writing, binder, relay, agentSessionID,
               lastAnswer, overwritten, convs, fatal>>

Object == 1..MaxBinding
RelayConv == 0..MaxRelayConv
IdleRelay == [pc |-> "idle", to |-> NoBot, object |-> 0, conv |-> 0]

RelayTypeOK ==
  /\ engines \subseteq Bot
  /\ binding \in 0..MaxBinding
  /\ bots \in [Object -> SUBSET Bot]
  /\ made \in 0..MaxBinding /\ writing \in 0..MaxBinding
  /\ binder \in [pc : {"idle", "self", "other", "get"}, self : Bot \union {NoBot},
                 other : Bot \union {NoBot}]
  /\ relay \in [Request -> [pc : {"idle", "found", "start", "started", "store", "run", "text"},
                            to : Bot \union {NoBot}, object : 0..MaxBinding, conv : RelayConv]]
  /\ agentSessionID \in [Bot -> RelayConv] /\ lastAnswer \in [Bot -> RelayConv]
  /\ overwritten \subseteq Bot
  /\ convs \in RelayConv
  /\ fatal \in {"no", "race", "nil"}

\* main.go registers the engines of all projects; a request may name a project
\* that has none.
RelayInit ==
  /\ engines \in {Bot} \union {Bot \ {b} : b \in Bot}
  /\ binding = 0 /\ bots = [o \in Object |-> {}] /\ made = 0 /\ writing = 0
  /\ binder = [pc |-> "idle", self |-> NoBot, other |-> NoBot]
  /\ relay = [r \in Request |-> IdleRelay]
  /\ agentSessionID = [b \in Bot |-> 0] /\ lastAnswer = [b \in Bot |-> 0]
  /\ overwritten = {}
  /\ convs = 0
  /\ fatal = "no"

-----------------------------------------------------------------------------
(* The table of bindings.                                                  *)

\* What the chat is bound to.
BoundBots == IF binding = 0 THEN {} ELSE bots[binding]

\* A request ends, with an answer or with an error.
Finish(r) == relay' = [relay EXCEPT ![r] = IdleRelay]

\* A read of a map without the lock, while it is written, may end the process.
Unlocked(o) == fatal' \in IF writing = o /\ o # 0 THEN {"no", "race"} ELSE {"no"}

Running == fatal = "no"
LockFree == writing = 0

\* Bind (POST /relay/bind): a new object for at least two bots.
Bind(set) ==
  /\ Running /\ LockFree
  /\ made < MaxBinding /\ Cardinality(set) >= 2
  /\ made' = made + 1
  /\ bots' = [bots EXCEPT ![made'] = set]
  /\ binding' = made'
  /\ UNCHANGED <<engines, writing, binder, relay, agentSessionID, lastAnswer,
                 overwritten, convs, fatal>>

\* Unbind (/bind remove): the object lives on for those who hold it.
Unbind ==
  /\ Running /\ LockFree
  /\ binding' = 0
  /\ UNCHANGED <<engines, bots, made, writing, binder, relay, agentSessionID, lastAnswer,
                 overwritten, convs, fatal>>

\* RemoveFromBind (/bind -project); the last bot takes the binding with it.
RemoveFromBind(b) ==
  /\ Running /\ LockFree
  /\ b \in BoundBots
  /\ bots' = [bots EXCEPT ![binding] = @ \ {b}]
  /\ binding' = IF BoundBots = {b} THEN 0 ELSE binding
  /\ UNCHANGED <<engines, made, writing, binder, relay, agentSessionID, lastAnswer,
                 overwritten, convs, fatal>>

\* AddToBind by cmdBind: the object, made when there is none, and the map write,
\* which the lock does not hide from those who read without it.
BeginAdd ==
  /\ Running /\ LockFree
  /\ binder.pc \in {"self", "other"}
  /\ IF binding = 0
       THEN /\ made < MaxBinding
            /\ made' = made + 1
            /\ binding' = made'
       ELSE UNCHANGED <<made, binding>>
  /\ writing' = binding'
  /\ UNCHANGED <<engines, bots, binder, relay, agentSessionID, lastAnswer,
                 overwritten, convs, fatal>>

EndAdd ==
  /\ Running /\ writing # 0
  /\ bots' = [bots EXCEPT ![writing] =
       @ \union {IF binder.pc = "self" THEN binder.self ELSE binder.other}]
  /\ writing' = 0
  /\ binder' = [binder EXCEPT !.pc = IF @ = "self" THEN "other" ELSE "get"]
  /\ UNCHANGED <<engines, binding, made, relay, agentSessionID, lastAnswer,
                 overwritten, convs, fatal>>

-----------------------------------------------------------------------------
(* /bind.                                                                  *)

\* cmdBind with a project: not the own one, and one that has an engine.
CmdBind(self, other) ==
  /\ Running
  /\ binder.pc = "idle"
  /\ self \in engines /\ self # other /\ other \in engines
  /\ binder' = [pc |-> "self", self |-> self, other |-> other]
  /\ UNCHANGED <<engines, binding, bots, made, writing, relay, agentSessionID, lastAnswer,
                 overwritten, convs, fatal>>

\* GetBinding and the list of bots for the reply: nothing says that the binding
\* is still there.
CmdBindReplies ==
  /\ Running /\ LockFree
  /\ binder.pc = "get"
  /\ binder' = [pc |-> "idle", self |-> NoBot, other |-> NoBot]
  /\ fatal' = IF binding = 0 THEN "nil" ELSE "no"
  /\ UNCHANGED <<engines, binding, bots, made, writing, relay, agentSessionID, lastAnswer,
                 overwritten, convs>>

-----------------------------------------------------------------------------
(* Send and HandleRelay.                                                   *)

\* Send looks the binding and the engines up; without a binding it fails ...
RelaySend(r, to) ==
  /\ Running /\ LockFree
  /\ relay[r].pc = "idle"
  /\ binding # 0
  /\ relay' = [relay EXCEPT ![r] = [IdleRelay EXCEPT !.pc = "found", !.to = to, !.object = binding]]
  /\ UNCHANGED <<engines, binding, bots, made, writing, binder, agentSessionID, lastAnswer,
                 overwritten, convs, fatal>>

\* ... and reads the object after the lock; then it posts to the group.
CheckBound(r) ==
  LET o == relay[r].object
      to == relay[r].to IN
  /\ Running
  /\ relay[r].pc = "found"
  /\ Unlocked(o)
  /\ IF to \in bots[o] /\ to \in engines
       THEN relay' = [relay EXCEPT ![r].pc = "start", ![r].object = 0]
       ELSE Finish(r)
  /\ UNCHANGED <<engines, binding, bots, made, writing, binder, agentSessionID, lastAnswer,
                 overwritten, convs>>

\* cmdBindStatus reads the object without the lock too.
CmdBindStatus ==
  /\ Running /\ writing # 0
  /\ Unlocked(binding)
  /\ UNCHANGED <<engines, binding, bots, made, writing, binder, relay, agentSessionID,
                 lastAnswer, overwritten, convs>>

\* HandleRelay: the session of the relay key, whoever else uses it; the agent is
\* started in its conversation or in a new one.
StartRelay(r) ==
  LET resume == agentSessionID[relay[r].to] IN
  /\ Running
  /\ relay[r].pc = "start"
  /\ \/ /\ resume # 0
        /\ relay' = [relay EXCEPT ![r].pc = "started", ![r].conv = resume]
        /\ UNCHANGED convs
     \/ /\ resume = 0 /\ convs < MaxRelayConv
        /\ convs' = convs + 1
        /\ relay' = [relay EXCEPT ![r].pc = "started", ![r].conv = convs']
  /\ UNCHANGED <<engines, binding, bots, made, writing, binder, agentSessionID, lastAnswer,
                 overwritten, fatal>>

\* StartSession of the agent fails.
StartFails(r) ==
  /\ Running
  /\ relay[r].pc = "start"
  /\ Finish(r)
  /\ UNCHANGED <<engines, binding, bots, made, writing, binder, agentSessionID, lastAnswer,
                 overwritten, convs, fatal>>

\* A look at AgentSessionID without a lock: it is set when it was found empty.
LookAtSession(r, pc, then) ==
  /\ Running
  /\ relay[r].pc = pc
  /\ relay' = [relay EXCEPT ![r].pc = IF agentSessionID[relay[r].to] = 0 THEN then ELSE "run"]
  /\ UNCHANGED <<engines, binding, bots, made, writing, binder, agentSessionID, lastAnswer,
                 overwritten, convs, fatal>>

\* The store that follows, whatever came in between.
StoreInSession(to, id) ==
  /\ agentSessionID' = [agentSessionID EXCEPT ![to] = id]
  /\ overwritten' = IF agentSessionID[to] # 0 THEN overwritten \union {to} ELSE overwritten

\* What the agent of r calls its conversation: that it was started in, or one that a
\* resumed agent has opened anew.
Named(r) == {relay[r].conv} \union (IF convs < MaxRelayConv THEN {convs + 1} ELSE {})
Opens(conv) == convs' = IF conv > convs THEN conv ELSE convs

\* HandleRelay stores CurrentSessionID(), which may be empty at that time.
LooksAfterStart(r) == LookAtSession(r, "started", "store")
StoresCurrent(r) ==
  /\ Running
  /\ relay[r].pc = "store"
  /\ \E id \in {0, relay[r].conv} : StoreInSession(relay[r].to, id)
  /\ relay' = [relay EXCEPT ![r].pc = "run"]
  /\ UNCHANGED <<engines, binding, bots, made, writing, binder, lastAnswer, convs, fatal>>

\* Text with the name of the conversation, kept when none is known.
RelayText(r) == LookAtSession(r, "run", "text")
StoresText(r) ==
  /\ Running
  /\ relay[r].pc = "text"
  /\ \E conv \in Named(r) :
       /\ Opens(conv)
       /\ StoreInSession(relay[r].to, conv)
       /\ relay' = [relay EXCEPT ![r].pc = "run", ![r].conv = conv]
  /\ UNCHANGED <<engines, binding, bots, made, writing, binder, lastAnswer, fatal>>

\* Mutant of RelayResult: the conversation of the result is not kept.
RelayResultForgets(r) ==
  LET to == relay[r].to IN
  /\ Running
  /\ relay[r].pc = "run"
  /\ \E conv \in Named(r) :
       /\ Opens(conv)
       /\ lastAnswer' = [lastAnswer EXCEPT ![to] = conv]
  /\ overwritten' = overwritten \ {to}
  /\ Finish(r)
  /\ UNCHANGED <<engines, binding, bots, made, writing, binder, agentSessionID, fatal>>

\* A result: the conversation it names is where the next relay goes on; a result may
\* name none.
RelayResult(r) ==
  LET to == relay[r].to IN
  /\ Running
  /\ relay[r].pc = "run"
  /\ \/ /\ \E conv \in Named(r) :
             /\ Opens(conv)
             /\ agentSessionID' = [agentSessionID EXCEPT ![to] = conv]
             /\ lastAnswer' = [lastAnswer EXCEPT ![to] = conv]
        /\ overwritten' = overwritten \ {to}
     \/ UNCHANGED <<agentSessionID, lastAnswer, overwritten, convs>>
  /\ Finish(r)
  /\ UNCHANGED <<engines, binding, bots, made, writing, binder, fatal>>

\* Send fails, an error event, the channel closed, or any event after the 120 seconds
\* of the relay. They end the process of the agent but do not wake the loop: a relay whose
\* agent leaves its channel open after that takes no step any more.
RelayEnds(r) ==
  /\ Running
  /\ relay[r].pc = "run"
  /\ Finish(r)
  /\ UNCHANGED <<engines, binding, bots, made, writing, binder, agentSessionID, lastAnswer,
                 overwritten, convs, fatal>>

RelayNext ==
  \/ \E set \in SUBSET Bot : Bind(set)
  \/ Unbind
  \/ \E b \in Bot : RemoveFromBind(b)
  \/ BeginAdd \/ EndAdd
  \/ \E self, other \in Bot : CmdBind(self, other)
  \/ CmdBindReplies \/ CmdBindStatus
  \/ \E r \in Request, to \in Bot : RelaySend(r, to)
  \/ \E r \in Request :
       \/ CheckBound(r) \/ StartRelay(r) \/ StartFails(r)
       \/ LooksAfterStart(r) \/ StoresCurrent(r) \/ RelayText(r) \/ StoresText(r)
       \/ RelayResult(r) \/ RelayEnds(r)

RelaySpec == RelayInit /\ [][RelayNext]_relayVars

-----------------------------------------------------------------------------
(* What the relay promises.                                                *)

\* A relay goes on in the conversation that the last answer of its target named,
\* through relays that overlap, fail or expire, unless a relay that had found the
\* session without a conversation stored its own, or "", after that answer
\* (HandleRelay shares one session without a lock).
ResumesLastAnswer ==
  [][\A r \in Request :
       /\ relay[r].pc = "start" /\ relay'[r].pc = "started"
       /\ lastAnswer[relay[r].to] # 0 /\ relay[r].to \notin overwritten
       => relay'[r].conv = lastAnswer[relay[r].to]]_relayVars
=============================================================================
