------------------------------- MODULE Engine -------------------------------
(***************************************************************************)
(* The interactive core of core/engine.go: how the messages of one chat    *)
(* become turns of an agent session, how permission requests of the agent  *)
(* are put to the user and answered, and how commands, cron jobs, crashes  *)
(* of the agent and the shutdown of the engine interfere with a turn.      *)
(*                                                                         *)
(* Goroutines of the program are the actors:                               *)
(*   - a Handler runs handleMessage for one message of a platform;         *)
(*   - a Turn runs processInteractiveMessage, started by a handler, by     *)
(*     /compress or by the cron scheduler;                                 *)
(*   - an Agent is one AgentSession with its process and event channel;    *)
(*   - the engine itself is stopped once.                                  *)
(* A step is what a goroutine does between two points where another one    *)
(* can interfere: a critical section of interactiveMu or of state.mu, a    *)
(* call to the agent, a wait on a channel. What is logged, formatted or    *)
(* sent to the platform is left out.                                       *)
(***************************************************************************)
EXTENDS Naturals, Sequences, FiniteSets

CONSTANTS
  Key,          \* session keys, one per chat and user
  Session,      \* core.Session objects
  Handler,      \* platform goroutines inside handleMessage
  Turn,         \* goroutines inside processInteractiveMessage
  State,        \* interactiveState objects
  Agent,        \* AgentSession objects; also names the conversation it opens
  Request,      \* permission requests
  Input,        \* the kinds of input a run uses, a subset of InputKind
  MaxArrivals,  \* bound on the inputs that arrive
  MaxBuffer,    \* capacity of an agent's event channel
  Nil           \* Go's nil, "" and "no value"

\* "answer" stands for allow and deny, "mode" for /mode and /provider switch,
\* "text" for a message that is neither a command nor an answer.
InputKind == {"text", "answer", "allow all", "new", "switch", "model", "mode",
              "stop", "quiet", "compress", "cron", "shutdown"}

\* Commands whose handler calls cleanupInteractiveState first of all.
CleanupCommand == {"new", "switch", "model", "mode"}

ASSUME InputAssumption == Input \subseteq InputKind
ASSUME BoundAssumption == MaxArrivals \in Nat /\ MaxBuffer \in Nat \ {0}
ASSUME NilAssumption ==
  Nil \notin Key \union Session \union Turn \union State \union Agent \union Request

VARIABLES
  active,       \* SessionManager.activeSession
  made,         \* the Sessions created so far
  busy,         \* Session.busy
  convOf,       \* Session.AgentSessionID
  interactiveMu,\* the turn that holds e.interactiveMu across StartSession
  stateOf,      \* e.interactiveStates
  allocated,    \* the interactiveStates created so far
  agentOf,      \* interactiveState.agentSession
  pending,      \* interactiveState.pending
  approveAll,   \* interactiveState.approveAll
  quiet,        \* interactiveState.quiet
  resolved,     \* requests whose pendingPermission.Resolved is closed
  asker,        \* the agent a request comes from
  answers,      \* how many decisions the agent got for a request
  autoApproved, \* requests decided by approveAll
  consent,      \* agents for which a user answered "allow all"
  proc,         \* "unborn", "alive", "exited" (Alive() false), "closed" (channel)
  conv,         \* the conversation the agent process works on
  work,         \* "idle", "prompted" or "talking": progress on the last prompt
  asking,       \* the request the agent process waits for
  chan,         \* AgentSession.Events()
  closes,       \* calls of AgentSession.Close()
  handler,      \* control state of each handler
  turn,         \* control state of each turn
  engine,       \* "up", "cancelled" (e.ctx is done) or "stopped"
  arrivals      \* inputs that arrived so far

sessionVars == <<active, made, busy, convOf>>
stateVars   == <<stateOf, allocated, agentOf, pending, approveAll, quiet>>
requestVars == <<resolved, asker, answers, autoApproved, consent>>
agentVars   == <<proc, conv, work, asking, chan, closes>>
vars == <<sessionVars, interactiveMu, stateVars, requestVars, agentVars,
          handler, turn, engine, arrivals>>

IdleHandler == [pc |-> "idle", cmd |-> Nil, key |-> Nil, st |-> Nil, req |-> Nil,
                keep |-> FALSE]
IdleTurn == [pc |-> "idle", key |-> Nil, sess |-> Nil, st |-> Nil, req |-> Nil,
             retried |-> FALSE]

HandlerPC == {"idle", "pending", "respond", "clear", "trylock",
              "resolve", "cleanup", "finish", "quiet"}
TurnPC == {"idle", "start", "create", "starting", "send", "loop", "prompt",
           "wait", "unlock"}

Event == [type : {"text", "permission", "result", "error"}, req : Request \union {Nil}]

HandlerRecord ==
  [pc : HandlerPC, cmd : InputKind \union {Nil}, key : Key \union {Nil},
   st : State \union {Nil}, req : Request \union {Nil}, keep : BOOLEAN]

TurnRecord ==
  [pc : TurnPC, key : Key \union {Nil}, sess : Session \union {Nil},
   st : State \union {Nil}, req : Request \union {Nil}, retried : BOOLEAN]

SessionTypeOK ==
  /\ active \in [Key -> Session \union {Nil}]
  /\ made \in SUBSET Session
  /\ busy \in [Session -> BOOLEAN]
  /\ convOf \in [Session -> Agent \union {Nil}]

StateTypeOK ==
  /\ stateOf \in [Key -> State \union {Nil}]
  /\ allocated \in SUBSET State
  /\ agentOf \in [State -> Agent \union {Nil}]
  /\ pending \in [State -> Request \union {Nil}]
  /\ approveAll \in [State -> BOOLEAN]
  /\ quiet \in [State -> BOOLEAN]

RequestTypeOK ==
  /\ resolved \in SUBSET Request
  /\ asker \in [Request -> Agent \union {Nil}]
  /\ answers \in [Request -> Nat]
  /\ autoApproved \in SUBSET Request
  /\ consent \in SUBSET Agent

AgentTypeOK ==
  /\ proc \in [Agent -> {"unborn", "alive", "exited", "closed"}]
  /\ conv \in [Agent -> Agent \union {Nil}]
  /\ work \in [Agent -> {"idle", "prompted", "talking"}]
  /\ asking \in [Agent -> Request \union {Nil}]
  /\ chan \in [Agent -> Seq(Event)]
  /\ \A a \in Agent : Len(chan[a]) <= MaxBuffer
  /\ closes \in [Agent -> Nat]

ControlTypeOK ==
  /\ interactiveMu \in Turn \union {Nil}
  /\ handler \in [Handler -> HandlerRecord]
  /\ turn \in [Turn -> TurnRecord]
  /\ engine \in {"up", "cancelled", "stopped"}
  /\ arrivals \in 0..MaxArrivals

\* Every variable has its type, and an event channel keeps to its capacity.
TypeOK == SessionTypeOK /\ StateTypeOK /\ RequestTypeOK /\ AgentTypeOK /\ ControlTypeOK

Init ==
  /\ active = [k \in Key |-> Nil]
  /\ made = {}
  /\ busy = [s \in Session |-> FALSE]
  /\ convOf = [s \in Session |-> Nil]
  /\ interactiveMu = Nil
  /\ stateOf = [k \in Key |-> Nil]
  /\ allocated = {}
  /\ agentOf = [x \in State |-> Nil]
  /\ pending = [x \in State |-> Nil]
  /\ approveAll = [x \in State |-> FALSE]
  /\ quiet = [x \in State |-> FALSE]
  /\ resolved = {}
  /\ asker = [r \in Request |-> Nil]
  /\ answers = [r \in Request |-> 0]
  /\ autoApproved = {}
  /\ consent = {}
  /\ proc = [a \in Agent |-> "unborn"]
  /\ conv = [a \in Agent |-> Nil]
  /\ work = [a \in Agent |-> "idle"]
  /\ asking = [a \in Agent |-> Nil]
  /\ chan = [a \in Agent |-> <<>>]
  /\ closes = [a \in Agent |-> 0]
  /\ handler = [h \in Handler |-> IdleHandler]
  /\ turn = [t \in Turn |-> IdleTurn]
  /\ engine = "up"
  /\ arrivals = 0

-----------------------------------------------------------------------------
(* Helpers shared by handlers and turns.                                   *)

\* A new object: which one of the free names it gets does not matter.
Fresh(free, x) == free # {} /\ x = CHOOSE y \in free : TRUE

HandlerStart(h, pc, cmd, k, x) ==
  handler' = [handler EXCEPT ![h] =
                [IdleHandler EXCEPT !.pc = pc, !.cmd = cmd, !.key = k, !.st = x]]
HandlerLock(h, k) == HandlerStart(h, "trylock", Nil, k, Nil)
HandlerGoto(h, pc) == handler' = [handler EXCEPT ![h].pc = pc]
HandlerDone(h) == handler' = [handler EXCEPT ![h] = IdleHandler]
TurnGoto(t, pc) == turn' = [turn EXCEPT ![t].pc = pc]

\* s is the Session GetOrCreateActive returns for k.
GetOrCreateActive(k, s) ==
  \/ active[k] = s /\ UNCHANGED <<active, made>>
  \/ /\ active[k] = Nil
     /\ Fresh(Session \ made, s)
     /\ active' = [active EXCEPT ![k] = s]
     /\ made' = made \union {s}

\* Mutant of TryStartTurn: the busy flag is not looked at.
TryStartTurnUnchecked(k) ==
  \E s \in Session, t \in Turn :
    /\ GetOrCreateActive(k, s)
    /\ busy' = [busy EXCEPT ![s] = TRUE]
    /\ turn[t].pc = "idle"
    /\ turn' = [turn EXCEPT ![t] = [IdleTurn EXCEPT !.pc = "start", !.key = k, !.sess = s]]

\* Session.TryLock on the active Session of k, and the goroutine of the turn
\* when it succeeds. A busy Session leaves everything as it is.
TryStartTurn(k) ==
  \E s \in Session :
    /\ GetOrCreateActive(k, s)
    /\ \/ busy[s] /\ UNCHANGED <<busy, turn>>
       \/ /\ ~busy[s]
          /\ busy' = [busy EXCEPT ![s] = TRUE]
          /\ \E t \in Turn :
               /\ turn[t].pc = "idle"
               /\ turn' = [turn EXCEPT ![t] =
                             [IdleTurn EXCEPT !.pc = "start", !.key = k, !.sess = s]]

\* Mutant of StoreState: the new state takes approveAll over with quiet.
StoreStateWithApproval(k, x, a, q) ==
  /\ Fresh(State \ allocated, x)
  /\ allocated' = allocated \union {x}
  /\ stateOf' = [stateOf EXCEPT ![k] = x]
  /\ agentOf' = [agentOf EXCEPT ![x] = a]
  /\ quiet' = [quiet EXCEPT ![x] = q]
  /\ approveAll' = [approveAll EXCEPT ![x] = stateOf[k] # Nil /\ approveAll[stateOf[k]]]
  /\ UNCHANGED pending

\* A new interactiveState x becomes the entry of k.
StoreState(k, x, a, q) ==
  /\ Fresh(State \ allocated, x)
  /\ allocated' = allocated \union {x}
  /\ stateOf' = [stateOf EXCEPT ![k] = x]
  /\ agentOf' = [agentOf EXCEPT ![x] = a]
  /\ quiet' = [quiet EXCEPT ![x] = q]
  /\ UNCHANGED <<pending, approveAll>>

\* The conversations Agent.ListSessions reports.
Conversations == {conv[a] : a \in Agent} \ {Nil}

EntryAgent(k) == IF stateOf[k] = Nil THEN Nil ELSE agentOf[stateOf[k]]

\* Mutants of CleanupInteractiveState: the entry stays in the map, or is
\* dropped without Close().
CleanupWithoutDelete(k) ==
  /\ interactiveMu = Nil
  /\ closes' = [a \in Agent |-> IF a = EntryAgent(k) THEN closes[a] + 1 ELSE closes[a]]
  /\ UNCHANGED <<stateVars, proc, conv, work, asking, chan>>
CleanupWithoutClose(k) ==
  /\ interactiveMu = Nil
  /\ stateOf' = [stateOf EXCEPT ![k] = Nil]
  /\ UNCHANGED <<allocated, agentOf, pending, approveAll, quiet, agentVars>>

\* cleanupInteractiveState: the entry of k is taken out of the map, whichever
\* it is by now, and its agent session is closed. The 10 seconds the caller
\* waits for Close at most are the time to its next step.
CleanupInteractiveState(k) ==
  /\ interactiveMu = Nil
  /\ stateOf' = [stateOf EXCEPT ![k] = Nil]
  /\ closes' = [a \in Agent |-> IF a = EntryAgent(k) THEN closes[a] + 1 ELSE closes[a]]
  /\ UNCHANGED <<allocated, agentOf, pending, approveAll, quiet>>
  /\ UNCHANGED <<proc, conv, work, asking, chan>>

\* AgentSession.RespondPermission: a dead process gets nothing.
RespondPermission(a, r) ==
  /\ answers' = IF proc[a] = "alive" THEN [answers EXCEPT ![r] = @ + 1] ELSE answers
  /\ asking' = IF proc[a] = "alive" /\ asking[a] = r
               THEN [asking EXCEPT ![a] = Nil] ELSE asking
  /\ UNCHANGED <<proc, conv, work, chan, closes>>

-----------------------------------------------------------------------------
(* Handlers: handleMessage and the commands that touch a turn.             *)

\* The arrival of an input for k at a handler with nothing else to do. An
\* answer to a permission that is waiting is not counted.
Arrive(h, k, cmd) ==
  /\ engine = "up"
  /\ cmd \in Input
  /\ handler[h].pc = "idle"
  /\ IF /\ cmd \in {"answer", "allow all"}
        /\ stateOf[k] # Nil
        /\ pending[stateOf[k]] # Nil
     THEN arrivals' = arrivals
     ELSE arrivals < MaxArrivals /\ arrivals' = arrivals + 1

\* handlePendingPermission looks the state of the key up.
ReceiveMessage(h, k, cmd) ==
  /\ cmd \in {"text", "answer", "allow all"}
  /\ Arrive(h, k, cmd)
  /\ interactiveMu = Nil
  /\ IF stateOf[k] = Nil THEN HandlerLock(h, k)
     ELSE HandlerStart(h, "pending", cmd, k, stateOf[k])
  /\ UNCHANGED <<sessionVars, interactiveMu, stateVars, requestVars, agentVars, turn, engine>>

\* It reads state.pending: nothing pending makes it a message for the agent,
\* an unrecognised answer gets the hint.
ReadPending(h) ==
  LET r == pending[handler[h].st] IN
  /\ handler[h].pc = "pending"
  /\ \/ r = Nil /\ HandlerLock(h, handler[h].key)
     \/ r # Nil /\ handler[h].cmd = "text" /\ HandlerDone(h)
     \/ /\ r # Nil
        /\ handler[h].cmd # "text"
        /\ handler' = [handler EXCEPT ![h].pc = "respond", ![h].req = r]
  /\ UNCHANGED <<sessionVars, interactiveMu, stateVars, requestVars, agentVars,
                 turn, engine, arrivals>>

\* The decision goes to the agent session of the state that was looked up,
\* outside every lock; "allow all" first turns approveAll on.
RespondToAgent(h) ==
  LET x == handler[h].st
      a == agentOf[x]
  IN
  /\ handler[h].pc = "respond"
  /\ IF handler[h].cmd = "allow all"
     THEN /\ approveAll' = [approveAll EXCEPT ![x] = TRUE]
          /\ consent' = consent \union {a}
     ELSE UNCHANGED <<approveAll, consent>>
  /\ RespondPermission(a, handler[h].req)
  /\ HandlerGoto(h, "clear")
  /\ UNCHANGED <<sessionVars, interactiveMu, stateOf, allocated, agentOf, pending, quiet,
                 resolved, asker, autoApproved, turn, engine, arrivals>>

\* Mutants of ClearPending: the turn is not woken, or the request stays pending.
ClearPendingOnly(h) ==
  /\ handler[h].pc = "clear"
  /\ pending' = [pending EXCEPT ![handler[h].st] = Nil]
  /\ HandlerDone(h)
  /\ UNCHANGED <<sessionVars, interactiveMu, stateOf, allocated, agentOf, approveAll, quiet,
                 requestVars, agentVars, turn, engine, arrivals>>
ResolveOnly(h) ==
  /\ handler[h].pc = "clear"
  /\ resolved' = resolved \union {handler[h].req}
  /\ HandlerDone(h)
  /\ UNCHANGED <<sessionVars, interactiveMu, stateVars, asker, answers, autoApproved, consent,
                 agentVars, turn, engine, arrivals>>

\* state.pending is cleared, whatever it is by now, and the permission that
\* was read is resolved.
ClearPending(h) ==
  /\ handler[h].pc = "clear"
  /\ pending' = [pending EXCEPT ![handler[h].st] = Nil]
  /\ resolved' = resolved \union {handler[h].req}
  /\ HandlerDone(h)
  /\ UNCHANGED <<sessionVars, interactiveMu, stateOf, allocated, agentOf, approveAll, quiet,
                 asker, answers, autoApproved, consent, agentVars, turn, engine, arrivals>>

\* The end of handleMessage and of cmdCompress: lock the Session or tell the
\* user that the previous request is still processing.
LockSession(h) ==
  /\ handler[h].pc = "trylock"
  /\ TryStartTurn(handler[h].key)
  /\ HandlerDone(h)
  /\ UNCHANGED <<convOf, interactiveMu, stateVars, requestVars, agentVars, engine, arrivals>>

\* /new, /switch, /model, /mode and a provider switch take the entry of the
\* key out of the map and close its agent session. After that /mode and the
\* provider switch are done.
CommandCleanup(h, k, cmd) ==
  /\ cmd \in CleanupCommand
  /\ cmd = "switch" => Conversations # {}
  /\ Arrive(h, k, cmd)
  /\ CleanupInteractiveState(k)
  /\ IF cmd = "mode" THEN HandlerDone(h) ELSE HandlerStart(h, "finish", cmd, k, Nil)
  /\ UNCHANGED <<sessionVars, interactiveMu, requestVars, turn, engine>>

\* cmdNew after the cleanup: a fresh Session becomes the active one.
FinishNew(h) ==
  /\ handler[h].pc = "finish"
  /\ handler[h].cmd = "new"
  /\ \E s \in Session :
       /\ Fresh(Session \ made, s)
       /\ made' = made \union {s}
       /\ active' = [active EXCEPT ![handler[h].key] = s]
  /\ HandlerDone(h)
  /\ UNCHANGED <<busy, convOf, interactiveMu, stateVars, requestVars, agentVars,
                 turn, engine, arrivals>>

\* cmdSwitch after the cleanup: the active Session is bound to a conversation
\* the agent backend knows.
FinishSwitch(h) ==
  /\ handler[h].pc = "finish"
  /\ handler[h].cmd = "switch"
  /\ \E s \in Session, c \in Conversations :
       /\ GetOrCreateActive(handler[h].key, s)
       /\ convOf' = [convOf EXCEPT ![s] = c]
  /\ HandlerDone(h)
  /\ UNCHANGED <<busy, interactiveMu, stateVars, requestVars, agentVars,
                 turn, engine, arrivals>>

\* cmdModel after the cleanup: the active Session forgets its conversation.
FinishModel(h) ==
  /\ handler[h].pc = "finish"
  /\ handler[h].cmd = "model"
  /\ \E s \in Session :
       /\ GetOrCreateActive(handler[h].key, s)
       /\ convOf' = [convOf EXCEPT ![s] = Nil]
  /\ HandlerDone(h)
  /\ UNCHANGED <<busy, interactiveMu, stateVars, requestVars, agentVars,
                 turn, engine, arrivals>>

\* cmdStop looks the state up; without one there is no execution to stop.
ReceiveStop(h, k) ==
  /\ Arrive(h, k, "stop")
  /\ interactiveMu = Nil
  /\ stateOf[k] # Nil
  /\ HandlerStart(h, "resolve", "stop", k, stateOf[k])
  /\ UNCHANGED <<sessionVars, interactiveMu, stateVars, requestVars, agentVars, turn, engine>>

\* It cancels the pending permission of that state, if there is one, and
\* remembers its quiet flag.
StopResolve(h) ==
  LET x == handler[h].st IN
  /\ handler[h].pc = "resolve"
  /\ pending' = [pending EXCEPT ![x] = Nil]
  /\ resolved' = resolved \union ({pending[x]} \ {Nil})
  /\ handler' = [handler EXCEPT ![h].pc = "cleanup", ![h].keep = quiet[x]]
  /\ UNCHANGED <<sessionVars, interactiveMu, stateOf, allocated, agentOf, approveAll, quiet,
                 asker, answers, autoApproved, consent, agentVars, turn, engine, arrivals>>

StopCleanup(h) ==
  /\ handler[h].pc = "cleanup"
  /\ CleanupInteractiveState(handler[h].key)
  /\ HandlerGoto(h, "finish")
  /\ UNCHANGED <<sessionVars, interactiveMu, requestVars, turn, engine, arrivals>>

\* The quiet preference survives /stop: it goes to the entry that is in the
\* map by now, or to a new one.
FinishStop(h) ==
  LET k == handler[h].key IN
  /\ handler[h].pc = "finish"
  /\ handler[h].cmd = "stop"
  /\ \/ ~handler[h].keep /\ UNCHANGED stateVars
     \/ /\ handler[h].keep
        /\ interactiveMu = Nil
        /\ stateOf[k] # Nil
        /\ quiet' = [quiet EXCEPT ![stateOf[k]] = TRUE]
        /\ UNCHANGED <<stateOf, allocated, agentOf, pending, approveAll>>
     \/ /\ handler[h].keep
        /\ interactiveMu = Nil
        /\ stateOf[k] = Nil
        /\ \E y \in State : StoreState(k, y, Nil, TRUE)
  /\ HandlerDone(h)
  /\ UNCHANGED <<sessionVars, interactiveMu, requestVars, agentVars, turn, engine, arrivals>>

\* cmdQuiet looks the state up ...
ReceiveQuiet(h, k) ==
  /\ Arrive(h, k, "quiet")
  /\ interactiveMu = Nil
  /\ HandlerStart(h, "quiet", "quiet", k, stateOf[k])
  /\ UNCHANGED <<sessionVars, interactiveMu, stateVars, requestVars, agentVars, turn, engine>>

\* ... and toggles its flag, or stores a new state over whatever the map holds.
ToggleQuiet(h) ==
  LET k == handler[h].key
      x == handler[h].st
  IN
  /\ handler[h].pc = "quiet"
  /\ \/ /\ x # Nil
        /\ quiet' = [quiet EXCEPT ![x] = ~@]
        /\ UNCHANGED <<stateOf, allocated, agentOf, pending, approveAll>>
     \/ /\ x = Nil
        /\ interactiveMu = Nil
        /\ \E y \in State : StoreState(k, y, Nil, TRUE)
  /\ HandlerDone(h)
  /\ UNCHANGED <<sessionVars, interactiveMu, requestVars, agentVars, turn, engine, arrivals>>

\* cmdCompress wants a live agent session, then goes on like a message.
ReceiveCompress(h, k) ==
  /\ Arrive(h, k, "compress")
  /\ interactiveMu = Nil
  /\ EntryAgent(k) # Nil
  /\ proc[EntryAgent(k)] = "alive"
  /\ HandlerLock(h, k)
  /\ UNCHANGED <<sessionVars, interactiveMu, stateVars, requestVars, agentVars, turn, engine>>

\* ExecuteCronJob runs the turn on the scheduler's goroutine; a busy Session
\* makes it fail.
ExecuteCronJob(k) ==
  /\ "cron" \in Input
  /\ engine = "up"
  /\ arrivals < MaxArrivals
  /\ arrivals' = arrivals + 1
  /\ TryStartTurn(k)
  /\ UNCHANGED <<convOf, interactiveMu, stateVars, requestVars, agentVars, handler, engine>>

HandlerStep(h) ==
  \/ ReadPending(h)
  \/ RespondToAgent(h)
  \/ ClearPending(h)
  \/ LockSession(h)
  \/ FinishNew(h)
  \/ FinishSwitch(h)
  \/ FinishModel(h)
  \/ StopResolve(h)
  \/ StopCleanup(h)
  \/ FinishStop(h)
  \/ ToggleQuiet(h)

HandlerReceive(h, k) ==
  \/ \E cmd \in Input : ReceiveMessage(h, k, cmd)
  \/ \E cmd \in Input : CommandCleanup(h, k, cmd)
  \/ ReceiveStop(h, k)
  \/ ReceiveQuiet(h, k)
  \/ ReceiveCompress(h, k)

-----------------------------------------------------------------------------
(* Turns: processInteractiveMessage and the functions it calls.            *)

\* A turn that starts after the engine's context is done returns at once.
BeginTurn(t) ==
  /\ turn[t].pc = "start"
  /\ TurnGoto(t, IF engine = "up" THEN "create" ELSE "unlock")
  /\ UNCHANGED <<sessionVars, interactiveMu, stateVars, requestVars, agentVars,
                 handler, engine, arrivals>>

EntryQuiet(k) == IF stateOf[k] = Nil THEN FALSE ELSE quiet[stateOf[k]]

\* getOrCreateInteractiveState, entered with interactiveMu free: a live agent
\* session is reused.
ReuseState(t) ==
  LET k == turn[t].key IN
  /\ turn[t].pc = "create"
  /\ interactiveMu = Nil
  /\ EntryAgent(k) # Nil
  /\ proc[EntryAgent(k)] = "alive"
  /\ turn' = [turn EXCEPT ![t].pc = "send", ![t].st = stateOf[k]]
  /\ UNCHANGED <<sessionVars, interactiveMu, stateVars, requestVars, agentVars,
                 handler, engine, arrivals>>

NeedsAgent(k) == EntryAgent(k) # Nil => proc[EntryAgent(k)] # "alive"

\* Mutant of EnterCreate: the context is not looked at.
EnterCreateAnyway(t) ==
  /\ turn[t].pc = "create"
  /\ interactiveMu = Nil
  /\ NeedsAgent(turn[t].key)
  /\ interactiveMu' = t
  /\ TurnGoto(t, "starting")
  /\ UNCHANGED <<sessionVars, stateVars, requestVars, agentVars, handler, engine, arrivals>>

\* Otherwise interactiveMu stays locked while the agent session starts ...
EnterCreate(t) ==
  /\ turn[t].pc = "create"
  /\ interactiveMu = Nil
  /\ NeedsAgent(turn[t].key)
  /\ engine = "up"
  /\ interactiveMu' = t
  /\ TurnGoto(t, "starting")
  /\ UNCHANGED <<sessionVars, stateVars, requestVars, agentVars, handler, engine, arrivals>>

\* ... unless the context is done: a state without an agent is stored.
SkipCreate(t) ==
  LET k == turn[t].key IN
  /\ turn[t].pc = "create"
  /\ interactiveMu = Nil
  /\ NeedsAgent(k)
  /\ engine # "up"
  /\ \E x \in State :
       /\ StoreState(k, x, Nil, EntryQuiet(k))
       /\ turn' = [turn EXCEPT ![t].pc = "send", ![t].st = x]
  /\ UNCHANGED <<sessionVars, interactiveMu, requestVars, agentVars, handler, engine, arrivals>>

\* Agent.StartSession resumes the conversation of the Session or opens one,
\* named after the agent that opens it.
StartSession(t) ==
  LET k == turn[t].key
      s == turn[t].sess
  IN
  /\ turn[t].pc = "starting"
  /\ \E x \in State, a \in Agent :
       /\ Fresh({b \in Agent : proc[b] = "unborn"}, a)
       /\ proc' = [proc EXCEPT ![a] = "alive"]
       /\ conv' = [conv EXCEPT ![a] = IF convOf[s] = Nil THEN a ELSE convOf[s]]
       /\ StoreState(k, x, a, EntryQuiet(k))
       /\ turn' = [turn EXCEPT ![t].pc = "send", ![t].st = x]
  /\ interactiveMu' = Nil
  /\ UNCHANGED <<sessionVars, requestVars, work, asking, chan, closes,
                 handler, engine, arrivals>>

StartSessionFails(t) ==
  LET k == turn[t].key IN
  /\ turn[t].pc = "starting"
  /\ \E x \in State :
       /\ StoreState(k, x, Nil, EntryQuiet(k))
       /\ turn' = [turn EXCEPT ![t].pc = "send", ![t].st = x]
  /\ interactiveMu' = Nil
  /\ UNCHANGED <<sessionVars, requestVars, agentVars, handler, engine, arrivals>>

TurnAgent(t) == agentOf[turn[t].st]

\* The prompt reaches the agent process.
SendPrompt(t) ==
  LET a == TurnAgent(t) IN
  /\ turn[t].pc = "send"
  /\ a # Nil
  /\ proc[a] = "alive"
  /\ work' = [work EXCEPT ![a] = "prompted"]
  /\ TurnGoto(t, "loop")
  /\ UNCHANGED <<sessionVars, interactiveMu, stateVars, requestVars,
                 proc, conv, asking, chan, closes, handler, engine, arrivals>>

\* Send failed because the agent session is dead, for the first time.
FindsAgentDead(t) ==
  ~turn[t].retried /\ TurnAgent(t) # Nil /\ proc[TurnAgent(t)] # "alive"

\* No agent session, a write error on a live one, or the second failure: the
\* user gets an error and the turn is over.
SendFails(t) ==
  /\ turn[t].pc = "send"
  /\ ~FindsAgentDead(t)
  /\ TurnGoto(t, "unlock")
  /\ UNCHANGED <<sessionVars, interactiveMu, stateVars, requestVars, agentVars,
                 handler, engine, arrivals>>

\* The agent session died since the last turn: clean up and start another one.
RestartAgent(t) ==
  /\ turn[t].pc = "send"
  /\ FindsAgentDead(t)
  /\ CleanupInteractiveState(turn[t].key)
  /\ turn' = [turn EXCEPT ![t].pc = "create", ![t].st = Nil, ![t].retried = TRUE]
  /\ UNCHANGED <<sessionVars, interactiveMu, requestVars, handler, engine, arrivals>>

\* The event loop takes the next event of its agent session.
Receive(t, type) ==
  LET a == TurnAgent(t) IN
  /\ turn[t].pc = "loop"
  /\ chan[a] # <<>>
  /\ Head(chan[a]).type = type
  /\ chan' = [chan EXCEPT ![a] = Tail(@)]

\* Text carries the conversation; a Session that has none keeps it.
TextEvent(t) ==
  LET s == turn[t].sess IN
  /\ Receive(t, "text")
  /\ convOf' = IF convOf[s] = Nil
               THEN [convOf EXCEPT ![s] = conv[TurnAgent(t)]] ELSE convOf
  /\ UNCHANGED <<active, made, busy, interactiveMu, stateVars, requestVars,
                 proc, conv, work, asking, closes, handler, turn, engine, arrivals>>

\* A permission request is approved at once under approveAll ...
AutoApprove(t) ==
  LET a == TurnAgent(t)
      r == Head(chan[a]).req
  IN
  /\ Receive(t, "permission")
  /\ approveAll[turn[t].st]
  /\ answers' = IF proc[a] = "alive" THEN [answers EXCEPT ![r] = @ + 1] ELSE answers
  /\ asking' = IF proc[a] = "alive" /\ asking[a] = r
               THEN [asking EXCEPT ![a] = Nil] ELSE asking
  /\ autoApproved' = autoApproved \union {r}
  /\ UNCHANGED <<sessionVars, interactiveMu, stateVars, resolved, asker, consent,
                 proc, conv, work, closes, handler, turn, engine, arrivals>>

\* ... and otherwise put to the user, whose answer may come from here on ...
PromptUser(t) ==
  LET r == Head(chan[TurnAgent(t)]).req IN
  /\ Receive(t, "permission")
  /\ ~approveAll[turn[t].st]
  /\ turn' = [turn EXCEPT ![t].pc = "prompt", ![t].req = r]
  /\ UNCHANGED <<sessionVars, interactiveMu, stateVars, requestVars,
                 proc, conv, work, asking, closes, handler, engine, arrivals>>

\* Mutant of SetPending: the state is looked up by key once more.
SetPendingOfKey(t) ==
  /\ turn[t].pc = "prompt"
  /\ pending' = [x \in State |-> IF x = stateOf[turn[t].key] THEN turn[t].req ELSE pending[x]]
  /\ TurnGoto(t, "wait")
  /\ UNCHANGED <<sessionVars, interactiveMu, stateOf, allocated, agentOf, approveAll, quiet,
                 requestVars, agentVars, handler, engine, arrivals>>

\* ... before the request is recorded as the pending one of the state.
SetPending(t) ==
  /\ turn[t].pc = "prompt"
  /\ pending' = [pending EXCEPT ![turn[t].st] = turn[t].req]
  /\ TurnGoto(t, "wait")
  /\ UNCHANGED <<sessionVars, interactiveMu, stateOf, allocated, agentOf, approveAll, quiet,
                 requestVars, agentVars, handler, engine, arrivals>>

\* <-pending.Resolved: nothing else wakes the turn.
PermissionResolved(t) ==
  /\ turn[t].pc = "wait"
  /\ turn[t].req \in resolved
  /\ turn' = [turn EXCEPT ![t].pc = "loop", ![t].req = Nil]
  /\ UNCHANGED <<sessionVars, interactiveMu, stateVars, requestVars, agentVars,
                 handler, engine, arrivals>>

\* The result ends the turn and binds the Session to its conversation.
ResultEvent(t) ==
  /\ Receive(t, "result")
  /\ convOf' = [convOf EXCEPT ![turn[t].sess] = conv[TurnAgent(t)]]
  /\ TurnGoto(t, "unlock")
  /\ UNCHANGED <<active, made, busy, interactiveMu, stateVars, requestVars,
                 proc, conv, work, asking, closes, handler, engine, arrivals>>

ErrorEvent(t) ==
  /\ Receive(t, "error")
  /\ TurnGoto(t, "unlock")
  /\ UNCHANGED <<sessionVars, interactiveMu, stateVars, requestVars,
                 proc, conv, work, asking, closes, handler, engine, arrivals>>

\* The channel is drained and closed: the process is gone, and the entry of
\* the key is cleaned up, whichever it is by now.
ChannelClosed(t) ==
  LET a == TurnAgent(t) IN
  /\ turn[t].pc = "loop"
  /\ chan[a] = <<>>
  /\ proc[a] = "closed"
  /\ CleanupInteractiveState(turn[t].key)
  /\ TurnGoto(t, "unlock")
  /\ UNCHANGED <<sessionVars, interactiveMu, requestVars, handler, engine, arrivals>>

\* No event for eventIdleTimeout: likewise.
IdleTimeout(t) ==
  /\ turn[t].pc = "loop"
  /\ CleanupInteractiveState(turn[t].key)
  /\ TurnGoto(t, "unlock")
  /\ UNCHANGED <<sessionVars, interactiveMu, requestVars, handler, engine, arrivals>>

ContextDone(t) ==
  /\ turn[t].pc = "loop"
  /\ engine # "up"
  /\ TurnGoto(t, "unlock")
  /\ UNCHANGED <<sessionVars, interactiveMu, stateVars, requestVars, agentVars,
                 handler, engine, arrivals>>

\* The deferred session.Unlock().
UnlockSession(t) ==
  /\ turn[t].pc = "unlock"
  /\ busy' = [busy EXCEPT ![turn[t].sess] = FALSE]
  /\ turn' = [turn EXCEPT ![t] = IdleTurn]
  /\ UNCHANGED <<active, made, convOf, interactiveMu, stateVars, requestVars, agentVars,
                 handler, engine, arrivals>>

TurnStep(t) ==
  \/ BeginTurn(t)
  \/ ReuseState(t)
  \/ EnterCreate(t)
  \/ SkipCreate(t)
  \/ StartSession(t)
  \/ StartSessionFails(t)
  \/ SendPrompt(t)
  \/ SendFails(t)
  \/ RestartAgent(t)
  \/ TextEvent(t)
  \/ AutoApprove(t)
  \/ PromptUser(t)
  \/ SetPending(t)
  \/ PermissionResolved(t)
  \/ ResultEvent(t)
  \/ ErrorEvent(t)
  \/ ChannelClosed(t)
  \/ IdleTimeout(t)
  \/ ContextDone(t)
  \/ UnlockSession(t)

-----------------------------------------------------------------------------
(* The agent process behind an AgentSession and its reader goroutine.      *)

\* Mutant of Emit: the channel has no capacity.
EmitUnbounded(a, type, r) ==
  chan' = [chan EXCEPT ![a] = Append(@, [type |-> type, req |-> r])]

\* An event goes into the channel; the reader blocks while it is full.
Emit(a, type, r) ==
  /\ Len(chan[a]) < MaxBuffer
  /\ chan' = [chan EXCEPT ![a] = Append(@, [type |-> type, req |-> r])]

\* Text with the conversation's id, once per prompt.
AgentText(a) ==
  /\ proc[a] = "alive"
  /\ work[a] = "prompted"
  /\ Emit(a, "text", Nil)
  /\ work' = [work EXCEPT ![a] = "talking"]
  /\ UNCHANGED <<sessionVars, interactiveMu, stateVars, requestVars,
                 proc, conv, asking, closes, handler, turn, engine, arrivals>>

\* A tool needs a permission; the process waits for the decision.
AgentAsk(a) ==
  /\ proc[a] = "alive"
  /\ work[a] # "idle"
  /\ asking[a] = Nil
  /\ \E r \in Request :
       /\ Fresh({q \in Request : asker[q] = Nil}, r)
       /\ asker' = [asker EXCEPT ![r] = a]
       /\ asking' = [asking EXCEPT ![a] = r]
       /\ Emit(a, "permission", r)
  /\ UNCHANGED <<sessionVars, interactiveMu, stateVars, resolved, answers, autoApproved,
                 consent, proc, conv, work, closes, handler, turn, engine, arrivals>>

\* The prompt is done, with a result or with an error.
AgentFinish(a) ==
  /\ proc[a] = "alive"
  /\ work[a] # "idle"
  /\ asking[a] = Nil
  /\ \E type \in {"result", "error"} : Emit(a, type, Nil)
  /\ work' = [work EXCEPT ![a] = "idle"]
  /\ UNCHANGED <<sessionVars, interactiveMu, stateVars, requestVars,
                 proc, conv, asking, closes, handler, turn, engine, arrivals>>

\* The process exits, because of Close() or on its own ...
AgentExit(a) ==
  /\ proc[a] = "alive"
  /\ proc' = [proc EXCEPT ![a] = "exited"]
  /\ work' = [work EXCEPT ![a] = "idle"]
  /\ asking' = [asking EXCEPT ![a] = Nil]
  /\ UNCHANGED <<sessionVars, interactiveMu, stateVars, requestVars,
                 conv, chan, closes, handler, turn, engine, arrivals>>

\* ... and its reader reports a failure, if the process left one, and closes
\* the channel.
AgentCloseEvents(a) ==
  /\ proc[a] = "exited"
  /\ proc' = [proc EXCEPT ![a] = "closed"]
  /\ UNCHANGED chan \/ Emit(a, "error", Nil)
  /\ UNCHANGED <<sessionVars, interactiveMu, stateVars, requestVars,
                 conv, work, asking, closes, handler, turn, engine, arrivals>>

AgentStep(a) ==
  \/ AgentText(a)
  \/ AgentAsk(a)
  \/ AgentFinish(a)
  \/ AgentExit(a)
  \/ AgentCloseEvents(a)

-----------------------------------------------------------------------------
(* Engine.Stop.                                                            *)

\* The platforms are stopped and the context is cancelled ...
CancelContext ==
  /\ "shutdown" \in Input
  /\ engine = "up"
  /\ engine' = "cancelled"
  /\ UNCHANGED <<sessionVars, interactiveMu, stateVars, requestVars, agentVars,
                 handler, turn, arrivals>>

\* ... then every entry is taken out of the map and its agent session closed.
StopStates ==
  /\ engine = "cancelled"
  /\ interactiveMu = Nil
  /\ engine' = "stopped"
  /\ stateOf' = [k \in Key |-> Nil]
  /\ closes' = [a \in Agent |-> IF \E k \in Key : EntryAgent(k) = a
                                THEN closes[a] + 1 ELSE closes[a]]
  /\ UNCHANGED <<sessionVars, interactiveMu, allocated, agentOf, pending, approveAll, quiet,
                 requestVars, proc, conv, work, asking, chan, handler, turn, arrivals>>

Next ==
  \/ \E h \in Handler, k \in Key : HandlerReceive(h, k)
  \/ \E h \in Handler : HandlerStep(h)
  \/ \E k \in Key : ExecuteCronJob(k)
  \/ \E t \in Turn : TurnStep(t)
  \/ \E a \in Agent : AgentStep(a)
  \/ CancelContext
  \/ StopStates

Spec == Init /\ [][Next]_vars

\* What the Go scheduler, the select statements and the timers guarantee: no
\* handler and no turn that can go on stops for ever. It says nothing of the
\* agent: a process may hang, and a reader may never close its channel.
Fairness ==
  /\ \A h \in Handler : WF_vars(HandlerStep(h))
  /\ \A t \in Turn : WF_vars(TurnStep(t))

\* A user who is asked for a permission keeps answering it.
UserAnswers ==
  \A k \in Key :
    WF_vars(/\ stateOf[k] # Nil /\ pending[stateOf[k]] # Nil
            /\ \E h \in Handler : ReceiveMessage(h, k, "answer"))

FairSpec == Spec /\ Fairness /\ UserAnswers

-----------------------------------------------------------------------------
(* The promise of the engine, stated in AgentService without handlers, maps  *)
(* or events, and how the state above maps to it.                            *)

Running(t) == turn[t].pc # "idle"

HolderOf(s) ==
  IF \E t \in Turn : Running(t) /\ turn[t].sess = s
  THEN CHOOSE t \in Turn : Running(t) /\ turn[t].sess = s
  ELSE Nil

LifeOf(a) ==
  CASE proc[a] = "unborn" -> "none"
    [] proc[a] # "unborn" /\ closes[a] = 0 -> "open"
    [] proc[a] # "unborn" /\ closes[a] = 1 -> "closed"
    [] OTHER -> "closed again"

Service == INSTANCE AgentService WITH
  holder <- [s \in Session |-> HolderOf(s)],
  life <- [a \in Agent |-> LifeOf(a)],
  down <- (engine = "stopped")

\* The engine implements the abstract service: turns take a Session in turn,
\* an agent session is opened, then closed once, and the shutdown ends both.
ImplementsService == Service!Spec

-----------------------------------------------------------------------------
(* Safety.                                                                 *)

\* Session.TryLock and the deferred Unlock: a Session is busy exactly while
\* one turn works on it, and never two, however messages, /compress and cron
\* jobs arrive and whichever way a turn ends.
OneTurnPerSession ==
  /\ \A s \in Session : busy[s] <=> \E t \in Turn : Running(t) /\ turn[t].sess = s
  /\ \A t1, t2 \in Turn :
       Running(t1) /\ Running(t2) /\ turn[t1].sess = turn[t2].sess => t1 = t2

\* cleanupInteractiveState and Engine.Stop: Close() is called at most once for
\* an agent session, whichever commands, turns, timeouts and the shutdown race
\* for it. (Close of several agents closes a channel and would panic.)
ClosedAtMostOnce == \A a \in Agent : closes[a] <= 1

\* handlePendingPermission: the decision of the user, and the permission that
\* waits in a state, always belong to the agent session that asked, also when
\* the entry of the key was replaced since the state was looked up.
AnswersReachAsker ==
  /\ \A x \in State : pending[x] # Nil => asker[pending[x]] = agentOf[x]
  /\ \A h \in Handler :
       handler[h].pc = "respond" => asker[handler[h].req] = agentOf[handler[h].st]

\* approveAll: a request is approved without asking only if a user answered
\* "allow all" to the very agent session that makes it; a new, restarted or
\* switched agent session asks again.
AutoApprovalIsEarned == \A r \in autoApproved : asker[r] \in consent

\* No agent process is forgotten: one that was never closed is still the entry
\* of some key, where the next cleanup or the shutdown finds it.
NoForgottenAgent ==
  \A a \in Agent :
    proc[a] = "alive" /\ closes[a] = 0 => \E k \in Key : EntryAgent(k) = a

\* A turn that finds its agent session dead or silent closes that one and no
\* other (channelClosed, the idle timeout and the restart after a failed Send
\* clean up by session key).
TurnClosesOwnAgent ==
  [][\A t \in Turn :
       (ChannelClosed(t) \/ IdleTimeout(t) \/ RestartAgent(t)) =>
         \A a \in Agent : closes'[a] # closes[a] => a = TurnAgent(t)]_vars

\* A turn that waits for a permission can be answered as long as its state is
\* the entry of the key: the state shows the request the turn waits for.
WaitingIsAnswerable ==
  \A t \in Turn :
    (/\ turn[t].pc = "wait"
     /\ turn[t].req \notin resolved
     /\ stateOf[turn[t].key] = turn[t].st)
      => pending[turn[t].st] = turn[t].req

\* An agent gets one decision for a request, never a second one.
OneDecision == \A r \in Request : answers[r] <= 1

\* /new: Sessions of a run without /switch never share a conversation.
FreshConversation ==
  \A s1, s2 \in Session : convOf[s1] # Nil /\ convOf[s1] = convOf[s2] => s1 = s2

-----------------------------------------------------------------------------
(* Liveness.                                                               *)

\* Every turn ends, whatever the agent does: result, error, exit, silence, a
\* failed start or Send, or requests the user keeps answering.
TurnsEnd == \A t \in Turn : Running(t) ~> ~Running(t)

\* After /stop the chat takes messages again.
StopFreesSession ==
  \A h \in Handler, k \in Key :
    (handler[h].pc = "finish" /\ handler[h].cmd = "stop" /\ handler[h].key = k)
      ~> (active[k] # Nil => ~busy[active[k]])
=============================================================================
