---------------------------- MODULE EngineProofs ----------------------------
(***************************************************************************)
(* Theorems about Engine, for any number of chats, Sessions, handlers,     *)
(* turns, states, agent sessions and requests: types, who a permission     *)
(* belongs to, what is approved without asking, that an agent session is   *)
(* closed at most once, and that a Session has one turn.                   *)
(*                                                                         *)
(* They follow from one inductive invariant, IInv. Its parts are kept by a *)
(* step that leaves the variables they are about alone (the lemmas ...Kept) *)
(* and re-established, action by action, by the others.                    *)
(*                                                                         *)
(* After it come: permissions, where one handler takes the messages and    *)
(* nobody calls /new, so that a state has one turn, a request one waiter,  *)
(* and what is pending is what a turn waits for (Owned and PermissionsOK;  *)
(* the runs lost_permission and new_mixes show what goes wrong otherwise); *)
(* the agent sessions turns close (OwnEntry); and the refinement of        *)
(* AgentService, for which a turn that starts an agent session holds       *)
(* interactiveMu, so that neither the shutdown nor another turn comes      *)
(* between the decision to start one and the entry in the map (LockOK).    *)
(***************************************************************************)
EXTENDS Engine, SequenceTheorems, TLAPS

-----------------------------------------------------------------------------
(* The inductive invariant.                                                *)

\* What a handler refers to at each point of its control.
HandlerOK(h) ==
  /\ handler[h].pc # "idle" => handler[h].key \in Key
  /\ handler[h].pc \in {"pending", "respond", "clear", "resolve"} => handler[h].st \in allocated
  /\ handler[h].pc \in {"respond", "clear"} => handler[h].req \in Request
  /\ handler[h].pc = "respond" =>
       /\ agentOf[handler[h].st] \in Agent
       /\ asker[handler[h].req] = agentOf[handler[h].st]

\* What a turn refers to at each point of its control.
TurnOK(t) ==
  /\ turn[t].pc # "idle" => turn[t].key \in Key /\ turn[t].sess \in Session
  /\ turn[t].pc \in {"send", "loop", "prompt", "wait"} => turn[t].st \in allocated
  /\ turn[t].pc \in {"loop", "prompt", "wait"} => agentOf[turn[t].st] \in Agent
  /\ turn[t].pc \in {"prompt", "wait"} => turn[t].req \in Request
  /\ turn[t].pc \in {"prompt", "wait"} => asker[turn[t].req] = agentOf[turn[t].st]

HandlersOK == \A h \in Handler : HandlerOK(h)
TurnsOK == \A t \in Turn : TurnOK(t)

\* The map holds states that exist.
MapOK == \A k \in Key : stateOf[k] # Nil => stateOf[k] \in allocated

\* The permission that waits in a state comes from the agent of the state.
PendingOK ==
  \A x \in State : pending[x] # Nil =>
    x \in allocated /\ agentOf[x] \in Agent /\ asker[pending[x]] = agentOf[x]

\* approveAll is set by a user who answered the agent of the state.
ApprovalOK ==
  \A x \in State : approveAll[x] =>
    x \in allocated /\ agentOf[x] \in Agent /\ agentOf[x] \in consent

\* A permission event in the channel of an agent is a request of that agent.
EventsOK ==
  \A a \in Agent : \A i \in 1..Len(chan[a]) :
    chan[a][i].type = "permission" =>
      chan[a][i].req \in Request /\ asker[chan[a][i].req] = a

\* An agent session is in one state, a state in one entry, and the session in
\* an entry is not closed yet.
ClosesOK ==
  /\ \A k1, k2 \in Key : stateOf[k1] # Nil /\ stateOf[k1] = stateOf[k2] => k1 = k2
  /\ \A x \in State : agentOf[x] # Nil => x \in allocated /\ proc[agentOf[x]] # "unborn"
  /\ \A x, y \in State : agentOf[x] # Nil /\ agentOf[x] = agentOf[y] => x = y
  /\ \A a \in Agent : proc[a] = "unborn" => closes[a] = 0
  /\ \A k \in Key : stateOf[k] # Nil /\ agentOf[stateOf[k]] # Nil =>
       closes[agentOf[stateOf[k]]] = 0
  /\ ClosedAtMostOnce

IInv ==
  /\ TypeOK
  /\ HandlersOK
  /\ TurnsOK
  /\ MapOK
  /\ PendingOK
  /\ ApprovalOK
  /\ AutoApprovalIsEarned
  /\ EventsOK
  /\ ClosesOK
  /\ OneTurnPerSession

\* States, requests and consents are never taken back.
Stable ==
  /\ allocated \subseteq allocated'
  /\ \A x \in allocated : agentOf'[x] = agentOf[x]
  /\ \A r \in Request : asker[r] # Nil => asker'[r] = asker[r]
  /\ consent \subseteq consent'

\* No turn starts, ends or changes its Session.
TurnsHold ==
  \A t \in Turn :
    (turn'[t].pc = "idle" <=> turn[t].pc = "idle") /\ turn'[t].sess = turn[t].sess

USE DEF sessionVars, stateVars, requestVars, agentVars

-----------------------------------------------------------------------------
(* A step that leaves the variables of a part alone keeps it.              *)

LEMMA SessionsKept == ASSUME IInv, UNCHANGED sessionVars PROVE SessionTypeOK'
BY DEF IInv, TypeOK, SessionTypeOK

LEMMA StatesKept == ASSUME IInv, UNCHANGED stateVars PROVE StateTypeOK' /\ MapOK'
BY DEF IInv, TypeOK, StateTypeOK, MapOK

LEMMA RequestsKept == ASSUME IInv, UNCHANGED requestVars PROVE RequestTypeOK'
BY DEF IInv, TypeOK, RequestTypeOK

LEMMA AgentsKept == ASSUME IInv, UNCHANGED agentVars PROVE AgentTypeOK'
BY DEF IInv, TypeOK, AgentTypeOK

LEMMA HandlersKept ==
  ASSUME IInv, Stable, UNCHANGED handler PROVE HandlersOK'
BY NilAssumption DEF IInv, TypeOK, StateTypeOK, RequestTypeOK, Stable, HandlersOK, HandlerOK

\* Where one handler changes, the others refer to what they did before.
LEMMA OtherHandlersKept ==
  ASSUME IInv, Stable, NEW h \in Handler, HandlerOK(h)',
         \A g \in Handler \ {h} : handler'[g] = handler[g]
  PROVE  HandlersOK'
BY NilAssumption DEF IInv, TypeOK, StateTypeOK, RequestTypeOK, Stable, HandlersOK, HandlerOK

LEMMA TurnsKept ==
  ASSUME IInv, Stable, UNCHANGED turn PROVE TurnsOK'
BY NilAssumption DEF IInv, TypeOK, StateTypeOK, RequestTypeOK, Stable, TurnsOK, TurnOK

\* Where one turn changes, the others refer to what they did before.
LEMMA OtherTurnsKept ==
  ASSUME IInv, Stable, NEW t \in Turn, TurnOK(t)',
         \A u \in Turn \ {t} : turn'[u] = turn[u]
  PROVE  TurnsOK'
BY NilAssumption DEF IInv, TypeOK, StateTypeOK, RequestTypeOK, Stable, TurnsOK, TurnOK

LEMMA PendingKept ==
  ASSUME IInv, Stable, UNCHANGED pending PROVE PendingOK'
BY NilAssumption DEF IInv, TypeOK, StateTypeOK, RequestTypeOK, Stable, PendingOK

LEMMA ApprovalKept ==
  ASSUME IInv, Stable, UNCHANGED approveAll PROVE ApprovalOK'
BY DEF IInv, Stable, ApprovalOK

LEMMA AutoKept ==
  ASSUME IInv, Stable, UNCHANGED autoApproved PROVE AutoApprovalIsEarned'
BY NilAssumption DEF IInv, TypeOK, RequestTypeOK, Stable, AutoApprovalIsEarned

LEMMA EventsKept ==
  ASSUME IInv, Stable, UNCHANGED chan PROVE EventsOK'
BY NilAssumption DEF IInv, TypeOK, RequestTypeOK, Stable, EventsOK

LEMMA ClosesKept ==
  ASSUME IInv, UNCHANGED <<stateOf, allocated, agentOf, proc, closes>> PROVE ClosesOK'
BY DEF IInv, ClosesOK, ClosedAtMostOnce

LEMMA OneTurnKept ==
  ASSUME IInv, UNCHANGED busy, UNCHANGED turn \/ TurnsHold
  PROVE  OneTurnPerSession'
BY DEF IInv, OneTurnPerSession, Running, TurnsHold

\* A handler that changes nothing but its own control.
LEMMA HandlerAlone ==
  ASSUME IInv,
         UNCHANGED <<sessionVars, interactiveMu, stateVars, requestVars, agentVars, turn, engine>>,
         arrivals' \in 0..MaxArrivals, handler' \in [Handler -> HandlerRecord], HandlersOK'
  PROVE  IInv'
<1>1. Stable
  BY DEF Stable
<1>2. TypeOK' /\ MapOK'
  BY SessionsKept, StatesKept, RequestsKept, AgentsKept DEF IInv, TypeOK, ControlTypeOK
<1>3. OneTurnPerSession'
  BY OneTurnKept
<1>. QED
  BY <1>1, <1>2, <1>3, TurnsKept, PendingKept, ApprovalKept, AutoKept, EventsKept, ClosesKept
     DEF IInv

\* A turn that changes nothing but its own control and holds its Session.
LEMMA TurnAlone ==
  ASSUME IInv,
         UNCHANGED <<sessionVars, stateVars, requestVars, agentVars, handler, engine, arrivals>>,
         interactiveMu' \in Turn \union {Nil}, turn' \in [Turn -> TurnRecord], TurnsOK', TurnsHold
  PROVE  IInv'
<1>1. Stable
  BY DEF Stable
<1>2. TypeOK' /\ MapOK'
  BY SessionsKept, StatesKept, RequestsKept, AgentsKept DEF IInv, TypeOK, ControlTypeOK
<1>3. OneTurnPerSession'
  BY OneTurnKept
<1>. QED
  BY <1>1, <1>2, <1>3, HandlersKept, PendingKept, ApprovalKept, AutoKept, EventsKept, ClosesKept
     DEF IInv

-----------------------------------------------------------------------------
(* The helpers.                                                            *)

\* What the invariant says of the control records alone.
LEMMA ControlTyped ==
  ASSUME IInv
  PROVE  handler \in [Handler -> HandlerRecord] /\ turn \in [Turn -> TurnRecord]
BY DEF IInv, TypeOK, ControlTypeOK

\* A handler that starts, moves on or is done has a control record.
LEMMA HandlerStarts ==
  ASSUME IInv, NEW h \in Handler, NEW pc \in HandlerPC, NEW cmd \in InputKind \union {Nil},
         NEW k \in Key, NEW x \in State \union {Nil}, HandlerStart(h, pc, cmd, k, x)
  PROVE  handler' \in [Handler -> HandlerRecord]
BY ControlTyped DEF HandlerRecord, HandlerStart, IdleHandler, HandlerPC

LEMMA HandlerGoes ==
  ASSUME IInv, NEW h \in Handler, NEW pc \in HandlerPC, HandlerGoto(h, pc)
  PROVE  handler' \in [Handler -> HandlerRecord]
BY ControlTyped DEF HandlerRecord, HandlerGoto

\* A handler that is done refers to nothing.
LEMMA HandlerEnds ==
  ASSUME IInv, NEW h \in Handler, HandlerDone(h), Stable
  PROVE  handler' \in [Handler -> HandlerRecord] /\ HandlersOK'
<1>1. handler' \in [Handler -> HandlerRecord]
  BY ControlTyped DEF HandlerRecord, HandlerDone, IdleHandler, HandlerPC
<1>2. HandlersOK'
  BY NilAssumption DEF IInv, TypeOK, ControlTypeOK, StateTypeOK, RequestTypeOK, Stable,
     HandlersOK, HandlerOK, HandlerDone, IdleHandler
<1>. QED BY <1>1, <1>2

LEMMA CleanupKeeps ==
  ASSUME IInv, NEW k \in Key, CleanupInteractiveState(k)
  PROVE  StateTypeOK' /\ AgentTypeOK' /\ MapOK' /\ ClosesOK'
<1>1. StateTypeOK' /\ AgentTypeOK' /\ MapOK'
  BY NilAssumption DEF CleanupInteractiveState, IInv, TypeOK, StateTypeOK, AgentTypeOK, MapOK
<1>2. ClosesOK'
  BY NilAssumption DEF CleanupInteractiveState, EntryAgent, IInv, TypeOK, StateTypeOK, AgentTypeOK,
     MapOK, ClosesOK, ClosedAtMostOnce
<1>. QED BY <1>1, <1>2

\* The decision reaches the agent or is lost; both keep the types.
LEMMA RespondKeeps ==
  ASSUME IInv, NEW a \in Agent, NEW r \in Request, RespondPermission(a, r)
  PROVE  answers' \in [Request -> Nat] /\ AgentTypeOK'
<1>1. answers' \in [Request -> Nat]
  BY DEF RespondPermission, IInv, TypeOK, RequestTypeOK
<1>2. asking' \in [Agent -> Request \union {Nil}]
  BY DEF RespondPermission, IInv, TypeOK, AgentTypeOK
<1>. QED BY <1>1, <1>2 DEF RespondPermission, IInv, TypeOK, AgentTypeOK

LEMMA StoreKeeps ==
  ASSUME IInv, NEW k \in Key, NEW x \in State, NEW a \in Agent \union {Nil}, NEW q \in BOOLEAN,
         StoreState(k, x, a, q),
         UNCHANGED <<requestVars, closes>>,
         \/ a = Nil /\ UNCHANGED proc
         \/ a \in Agent /\ proc[a] = "unborn" /\ proc' = [proc EXCEPT ![a] = "alive"]
  PROVE  /\ x \in allocated' /\ agentOf'[x] = a
         /\ Stable
         /\ StateTypeOK' /\ MapOK' /\ ClosesOK'
<1>1. x \in State /\ x \notin allocated
  BY DEF StoreState, Fresh
<1>2. x \in allocated' /\ agentOf'[x] = a /\ Stable
  BY <1>1 DEF StoreState, Stable, IInv, TypeOK, StateTypeOK
<1>3. StateTypeOK' /\ MapOK'
  BY <1>1 DEF StoreState, IInv, TypeOK, StateTypeOK, MapOK
<1>4. ClosesOK'
  BY <1>1, NilAssumption DEF StoreState, IInv, TypeOK, StateTypeOK, AgentTypeOK,
     MapOK, ClosesOK, ClosedAtMostOnce
<1>. QED BY <1>2, <1>3, <1>4

LEMMA StartTurnKeeps ==
  ASSUME IInv, NEW k \in Key, TryStartTurn(k), UNCHANGED <<convOf, stateVars, requestVars>>
  PROVE  /\ SessionTypeOK'
         /\ turn' \in [Turn -> TurnRecord]
         /\ TurnsOK' /\ OneTurnPerSession'
<1>1. PICK s \in Session : TryStartTurn(k)!(s)
  BY DEF TryStartTurn
<1>2. active' \in [Key -> Session \union {Nil}] /\ made' \in SUBSET Session
  BY <1>1 DEF GetOrCreateActive, IInv, TypeOK, SessionTypeOK
<1>3. CASE UNCHANGED <<busy, turn>>
  BY <1>2, <1>3, TurnsKept, OneTurnKept DEF Stable, IInv, TypeOK, SessionTypeOK, ControlTypeOK
<1>4. ASSUME ~busy[s], busy' = [busy EXCEPT ![s] = TRUE],
             NEW t \in Turn, turn[t].pc = "idle",
             turn' = [turn EXCEPT ![t] =
                        [IdleTurn EXCEPT !.pc = "start", !.key = k, !.sess = s]]
      PROVE  /\ SessionTypeOK'
             /\ turn' \in [Turn -> TurnRecord]
             /\ TurnsOK' /\ OneTurnPerSession'
  <2>1. SessionTypeOK'
    BY <1>2, <1>4 DEF IInv, TypeOK, SessionTypeOK
  <2>2. turn' \in [Turn -> TurnRecord]
    BY <1>4 DEF IInv, TypeOK, ControlTypeOK, TurnRecord, TurnPC, IdleTurn
  <2>3. TurnsOK'
    BY <1>4 DEF IInv, TypeOK, ControlTypeOK, TurnsOK, TurnOK, IdleTurn
  <2>4. OneTurnPerSession'
    BY <1>4 DEF IInv, TypeOK, ControlTypeOK, SessionTypeOK, OneTurnPerSession, Running, IdleTurn
  <2>. QED BY <2>1, <2>2, <2>3, <2>4
<1>. QED BY <1>1, <1>3, <1>4

-----------------------------------------------------------------------------
(* Handlers.                                                               *)

LEMMA ReceiveKeeps ==
  ASSUME IInv, NEW h \in Handler, NEW k \in Key, HandlerReceive(h, k)
  PROVE  IInv'
<1>. arrivals' \in 0..MaxArrivals
  <2>1. ASSUME NEW cmd, Arrive(h, k, cmd)
        PROVE  arrivals' \in 0..MaxArrivals
    <3>1. arrivals' = arrivals \/ (arrivals < MaxArrivals /\ arrivals' = arrivals + 1)
      BY <2>1, Zenon DEF Arrive
    <3>2. arrivals \in 0..MaxArrivals
      BY DEF IInv, TypeOK, ControlTypeOK
    <3>. QED BY <3>1, <3>2, BoundAssumption
  <2>. QED
    BY <2>1 DEF HandlerReceive, ReceiveMessage, CommandCleanup, ReceiveStop, ReceiveQuiet, ReceiveCompress
<1>1. ASSUME NEW cmd \in Input, ReceiveMessage(h, k, cmd)
      PROVE  IInv'
  <2>1. handler' \in [Handler -> HandlerRecord]
    BY <1>1, HandlerStarts, InputAssumption
       DEF ReceiveMessage, HandlerLock, HandlerPC, IInv, TypeOK, StateTypeOK
  <2>2. HandlersOK'
    <3>1. Stable
      BY <1>1 DEF ReceiveMessage, Stable
    <3>2. CASE HandlerLock(h, k)
      BY <3>1, <3>2, OtherHandlersKept
         DEF IInv, TypeOK, ControlTypeOK, HandlerLock, HandlerStart, IdleHandler, HandlerOK
    <3>3. CASE stateOf[k] # Nil /\ HandlerStart(h, "pending", cmd, k, stateOf[k])
      <4>1. stateOf[k] \in allocated
        BY <3>3 DEF IInv, MapOK
      <4>2. HandlerOK(h)'
        BY <1>1, <3>3, <4>1
           DEF ReceiveMessage, IInv, TypeOK, ControlTypeOK, HandlerStart, IdleHandler, HandlerOK
      <4>. QED
        BY <3>1, <3>3, <4>2, OtherHandlersKept DEF IInv, TypeOK, ControlTypeOK, HandlerStart
    <3>. QED BY <1>1, <3>2, <3>3 DEF ReceiveMessage
  <2>. QED BY <1>1, <2>1, <2>2, HandlerAlone DEF ReceiveMessage
<1>2. ASSUME NEW cmd \in Input, CommandCleanup(h, k, cmd)
      PROVE  IInv'
  <2>1. StateTypeOK' /\ AgentTypeOK' /\ MapOK' /\ ClosesOK' /\ Stable
    BY <1>2, CleanupKeeps DEF CommandCleanup, CleanupInteractiveState, Stable
  <2>2. handler' \in [Handler -> HandlerRecord] /\ HandlersOK'
    <3>1. CASE HandlerDone(h)
      BY <2>1, <3>1, HandlerEnds
    <3>2. CASE HandlerStart(h, "finish", cmd, k, Nil)
      <4>1. handler' \in [Handler -> HandlerRecord]
        BY <3>2, HandlerStarts, InputAssumption DEF HandlerPC
      <4>2. HandlersOK'
        BY <3>2, <2>1, NilAssumption
           DEF IInv, TypeOK, ControlTypeOK, StateTypeOK, RequestTypeOK, Stable, HandlersOK, HandlerOK,
               HandlerStart, IdleHandler
      <4>. QED BY <4>1, <4>2
    <3>. QED BY <1>2, <3>1, <3>2 DEF CommandCleanup
  <2>3. TypeOK'
    BY <1>2, <2>1, <2>2, SessionsKept, RequestsKept DEF CommandCleanup, IInv, TypeOK, ControlTypeOK
  <2>. QED
    BY <1>2, <2>1, <2>2, <2>3, TurnsKept, PendingKept, ApprovalKept, AutoKept, EventsKept, OneTurnKept
       DEF CommandCleanup, CleanupInteractiveState, IInv
<1>3. ASSUME ReceiveStop(h, k)
      PROVE  IInv'
  <2>1. handler' \in [Handler -> HandlerRecord] /\ HandlersOK'
    BY <1>3, NilAssumption
       DEF ReceiveStop, IInv, TypeOK, ControlTypeOK, StateTypeOK, HandlerRecord, HandlerPC,
           HandlerStart, IdleHandler, InputKind, HandlersOK, HandlerOK, MapOK
  <2>. QED BY <1>3, <2>1, HandlerAlone DEF ReceiveStop
<1>4. ASSUME ReceiveQuiet(h, k)
      PROVE  IInv'
  <2>1. handler' \in [Handler -> HandlerRecord] /\ HandlersOK'
    BY <1>4, NilAssumption
       DEF ReceiveQuiet, IInv, TypeOK, ControlTypeOK, StateTypeOK, HandlerRecord, HandlerPC,
           HandlerStart, IdleHandler, InputKind, HandlersOK, HandlerOK, MapOK
  <2>. QED BY <1>4, <2>1, HandlerAlone DEF ReceiveQuiet
<1>5. ASSUME ReceiveCompress(h, k)
      PROVE  IInv'
  <2>1. handler' \in [Handler -> HandlerRecord] /\ HandlersOK'
    BY <1>5, NilAssumption
       DEF ReceiveCompress, IInv, TypeOK, ControlTypeOK, StateTypeOK, HandlerRecord, HandlerPC,
           HandlerLock, HandlerStart, IdleHandler, InputKind, HandlersOK, HandlerOK, MapOK
  <2>. QED BY <1>5, <2>1, HandlerAlone DEF ReceiveCompress
<1>. QED BY <1>1, <1>2, <1>3, <1>4, <1>5 DEF HandlerReceive

LEMMA HandlerStepKeeps ==
  ASSUME IInv, NEW h \in Handler, HandlerStep(h)
  PROVE  IInv'
<1>1. CASE ReadPending(h)
  <2>1. handler' \in [Handler -> HandlerRecord] /\ HandlersOK'
    <3>. DEFINE r == pending[handler[h].st]
    <3>1. Stable
      BY <1>1 DEF ReadPending, Stable
    <3>2. handler[h] \in HandlerRecord /\ handler[h].key \in Key /\ handler[h].st \in allocated
      BY <1>1 DEF ReadPending, IInv, TypeOK, ControlTypeOK, HandlersOK, HandlerOK
    <3>3. CASE HandlerLock(h, handler[h].key)
      <4>1. handler' \in [Handler -> HandlerRecord]
        BY <3>2, <3>3, HandlerStarts DEF HandlerLock, HandlerPC
      <4>2. HandlersOK'
        BY <3>1, <3>2, <3>3, OtherHandlersKept
           DEF IInv, TypeOK, ControlTypeOK, HandlerLock, HandlerStart, IdleHandler, HandlerOK
      <4>. QED BY <4>1, <4>2
    <3>4. CASE HandlerDone(h)
      BY <3>1, <3>4, HandlerEnds
    <3>5. CASE r # Nil /\ handler' = [handler EXCEPT ![h].pc = "respond", ![h].req = r]
      <4>1. r \in Request /\ agentOf[handler[h].st] \in Agent /\ asker[r] = agentOf[handler[h].st]
        BY <3>2, <3>5 DEF IInv, TypeOK, StateTypeOK, PendingOK
      <4>2. handler' \in [Handler -> HandlerRecord]
        <5>1. [handler[h] EXCEPT !.pc = "respond", !.req = r] \in HandlerRecord
          BY <3>2, <4>1 DEF HandlerRecord, HandlerPC
        <5>2. handler' = [handler EXCEPT ![h] = [handler[h] EXCEPT !.pc = "respond", !.req = r]]
          BY <3>5, ControlTyped
        <5>. QED BY <5>1, <5>2, ControlTyped
      <4>3. /\ handler'[h].pc = "respond" /\ handler'[h].req = r
            /\ handler'[h].key = handler[h].key /\ handler'[h].st = handler[h].st
            /\ \A g \in Handler \ {h} : handler'[g] = handler[g]
        BY <3>2, <3>5, ControlTyped DEF HandlerRecord
      <4>4. HandlerOK(h)'
        BY <1>1, <3>2, <4>1, <4>3 DEF ReadPending, HandlerOK
      <4>. QED BY <3>1, <4>2, <4>3, <4>4, OtherHandlersKept
    <3>. QED BY <1>1, <3>3, <3>4, <3>5 DEF ReadPending
  <2>2. arrivals' \in 0..MaxArrivals
    BY <1>1 DEF ReadPending, IInv, TypeOK, ControlTypeOK
  <2>. QED BY <1>1, <2>1, <2>2, HandlerAlone DEF ReadPending
<1>2. CASE RespondToAgent(h)
  <2>. DEFINE x == handler[h].st
              a == agentOf[x]
  <2>1. x \in allocated /\ a \in Agent /\ handler[h].req \in Request
    BY <1>2 DEF RespondToAgent, IInv, HandlersOK, HandlerOK
  <2>2. Stable
    BY <1>2 DEF RespondToAgent, Stable
  <2>3. handler' \in [Handler -> HandlerRecord]
    BY <1>2, HandlerGoes DEF RespondToAgent, HandlerPC
  <2>4. HandlersOK'
    <3>1. /\ handler'[h].pc = "clear" /\ handler'[h].req = handler[h].req
          /\ handler'[h].key = handler[h].key /\ handler'[h].st = x
          /\ \A g \in Handler \ {h} : handler'[g] = handler[g]
      BY <1>2, ControlTyped DEF RespondToAgent, HandlerGoto, HandlerRecord
    <3>2. HandlerOK(h)'
      BY <1>2, <2>1, <3>1 DEF RespondToAgent, IInv, HandlersOK, HandlerOK
    <3>. QED BY <2>2, <3>1, <3>2, OtherHandlersKept
  <2>5. StateTypeOK' /\ MapOK' /\ ApprovalOK'
    BY <1>2, <2>1 DEF RespondToAgent, IInv, TypeOK, StateTypeOK, MapOK, ApprovalOK
  <2>6. RequestTypeOK' /\ AgentTypeOK'
    BY <1>2, <2>1, RespondKeeps DEF RespondToAgent, IInv, TypeOK, RequestTypeOK
  <2>7. TypeOK'
    BY <1>2, <2>3, <2>5, <2>6, SessionsKept DEF RespondToAgent, IInv, TypeOK, ControlTypeOK
  <2>. QED
    BY <1>2, <2>2, <2>4, <2>5, <2>7, TurnsKept, PendingKept, AutoKept, EventsKept, ClosesKept, OneTurnKept
       DEF RespondToAgent, RespondPermission, IInv
<1>3. CASE ClearPending(h)
  <2>1. Stable
    BY <1>3 DEF ClearPending, Stable
  <2>2. handler' \in [Handler -> HandlerRecord] /\ HandlersOK'
    BY <1>3, <2>1, HandlerEnds DEF ClearPending
  <2>3. StateTypeOK' /\ MapOK' /\ PendingOK'
    BY <1>3 DEF ClearPending, IInv, TypeOK, StateTypeOK, MapOK, PendingOK
  <2>4. RequestTypeOK'
    BY <1>3 DEF ClearPending, IInv, TypeOK, RequestTypeOK, HandlersOK, HandlerOK
  <2>5. TypeOK'
    BY <1>3, <2>2, <2>3, <2>4, SessionsKept, AgentsKept DEF ClearPending, IInv, TypeOK, ControlTypeOK
  <2>. QED
    BY <1>3, <2>1, <2>2, <2>3, <2>5, TurnsKept, ApprovalKept, AutoKept, EventsKept, ClosesKept, OneTurnKept
       DEF ClearPending, IInv
<1>4. CASE LockSession(h)
  <2>1. Stable
    BY <1>4 DEF LockSession, Stable
  <2>2. handler' \in [Handler -> HandlerRecord] /\ HandlersOK'
    BY <1>4, <2>1, HandlerEnds DEF LockSession
  <2>3. handler[h].key \in Key
    BY <1>4 DEF LockSession, IInv, HandlersOK, HandlerOK
  <2>4. SessionTypeOK' /\ turn' \in [Turn -> TurnRecord] /\ TurnsOK' /\ OneTurnPerSession'
    BY <1>4, <2>3, StartTurnKeeps DEF LockSession
  <2>5. TypeOK' /\ MapOK'
    BY <1>4, <2>2, <2>4, StatesKept, RequestsKept, AgentsKept DEF LockSession, IInv, TypeOK, ControlTypeOK
  <2>. QED
    BY <1>4, <2>1, <2>2, <2>4, <2>5, PendingKept, ApprovalKept, AutoKept, EventsKept, ClosesKept
       DEF LockSession, IInv
<1>5. CASE FinishNew(h) \/ FinishSwitch(h) \/ FinishModel(h)
  <2>1. Stable
    BY <1>5 DEF FinishNew, FinishSwitch, FinishModel, Stable
  <2>2. handler' \in [Handler -> HandlerRecord] /\ HandlersOK'
    BY <1>5, <2>1, HandlerEnds DEF FinishNew, FinishSwitch, FinishModel
  <2>3. SessionTypeOK'
    <3>1. CASE FinishNew(h)
      BY <3>1 DEF FinishNew, IInv, TypeOK, SessionTypeOK
    <3>2. CASE FinishSwitch(h)
      <4>1. Conversations \subseteq Agent
        BY DEF Conversations, IInv, TypeOK, AgentTypeOK
      <4>. QED BY <3>2, <4>1 DEF FinishSwitch, GetOrCreateActive, IInv, TypeOK, SessionTypeOK
    <3>3. CASE FinishModel(h)
      BY <3>3 DEF FinishModel, GetOrCreateActive, IInv, TypeOK, SessionTypeOK
    <3>. QED BY <1>5, <3>1, <3>2, <3>3
  <2>4. UNCHANGED <<busy, interactiveMu, stateVars, requestVars, agentVars, turn, engine, arrivals>>
    BY <1>5 DEF FinishNew, FinishSwitch, FinishModel
  <2>5. TypeOK' /\ MapOK'
    BY <2>2, <2>3, <2>4, StatesKept, RequestsKept, AgentsKept DEF IInv, TypeOK, ControlTypeOK
  <2>. QED
    BY <2>1, <2>2, <2>4, <2>5, TurnsKept, PendingKept, ApprovalKept, AutoKept, EventsKept, ClosesKept,
       OneTurnKept DEF IInv
<1>6. CASE StopResolve(h)
  <2>1. Stable
    BY <1>6 DEF StopResolve, Stable
  <2>2. handler' \in [Handler -> HandlerRecord] /\ HandlersOK'
    <3>1. handler[h].key \in Key /\ handler[h].st \in State /\ quiet[handler[h].st] \in BOOLEAN
      BY <1>6 DEF StopResolve, IInv, TypeOK, StateTypeOK, HandlersOK, HandlerOK
    <3>2. handler' \in [Handler -> HandlerRecord]
      <4> DEFINE rec == [handler[h] EXCEPT !.pc = "cleanup", !.keep = quiet[handler[h].st]]
      <4>1. rec \in HandlerRecord
        BY <3>1, ControlTyped DEF HandlerRecord, HandlerPC
      <4>2. handler' = [handler EXCEPT ![h] = rec]
        BY <1>6, ControlTyped DEF StopResolve
      <4>. QED BY <4>1, <4>2, ControlTyped
    <3>3. /\ handler'[h].pc = "cleanup" /\ handler'[h].key = handler[h].key
          /\ \A g \in Handler \ {h} : handler'[g] = handler[g]
      BY <1>6, ControlTyped DEF StopResolve, HandlerRecord
    <3>4. HandlerOK(h)'
      BY <3>1, <3>3 DEF HandlerOK
    <3>. QED BY <2>1, <3>2, <3>3, <3>4, OtherHandlersKept
  <2>3. StateTypeOK' /\ MapOK' /\ PendingOK'
    BY <1>6 DEF StopResolve, IInv, TypeOK, StateTypeOK, MapOK, PendingOK
  <2>4. RequestTypeOK'
    BY <1>6 DEF StopResolve, IInv, TypeOK, StateTypeOK, RequestTypeOK, HandlersOK, HandlerOK
  <2>5. TypeOK'
    BY <1>6, <2>2, <2>3, <2>4, SessionsKept, AgentsKept DEF StopResolve, IInv, TypeOK, ControlTypeOK
  <2>. QED
    BY <1>6, <2>1, <2>2, <2>3, <2>5, TurnsKept, ApprovalKept, AutoKept, EventsKept, ClosesKept, OneTurnKept
       DEF StopResolve, IInv
<1>7. CASE StopCleanup(h)
  <2>1. handler[h].key \in Key
    BY <1>7 DEF StopCleanup, IInv, HandlersOK, HandlerOK
  <2>2. StateTypeOK' /\ AgentTypeOK' /\ MapOK' /\ ClosesOK' /\ Stable
    BY <1>7, <2>1, CleanupKeeps DEF StopCleanup, CleanupInteractiveState, Stable
  <2>3. handler' \in [Handler -> HandlerRecord]
    BY <1>7, HandlerGoes DEF StopCleanup, HandlerPC
  <2>4. HandlersOK'
    BY <1>7, <2>1, <2>2, NilAssumption
       DEF StopCleanup, HandlerGoto, IInv, TypeOK, ControlTypeOK, StateTypeOK, RequestTypeOK, Stable,
           HandlersOK, HandlerOK
  <2>5. TypeOK'
    BY <1>7, <2>2, <2>3, SessionsKept, RequestsKept DEF StopCleanup, IInv, TypeOK, ControlTypeOK
  <2>. QED
    BY <1>7, <2>2, <2>4, <2>5, TurnsKept, PendingKept, ApprovalKept, AutoKept, EventsKept, OneTurnKept
       DEF StopCleanup, CleanupInteractiveState, IInv
<1>8. CASE FinishStop(h) \/ ToggleQuiet(h)
  <2>. DEFINE k == handler[h].key
  <2>1. k \in Key
    BY <1>8 DEF FinishStop, ToggleQuiet, IInv, HandlersOK, HandlerOK
  <2>2. Stable /\ StateTypeOK' /\ MapOK' /\ ClosesOK'
    <3>1. ASSUME NEW y \in State, StoreState(k, y, Nil, TRUE), UNCHANGED <<requestVars, agentVars>>
          PROVE  Stable /\ StateTypeOK' /\ MapOK' /\ ClosesOK'
      BY <2>1, <3>1, StoreKeeps
    <3>2. ASSUME UNCHANGED <<stateOf, allocated, agentOf, pending, approveAll, requestVars, agentVars>>,
                 quiet' \in [State -> BOOLEAN]
          PROVE  Stable /\ StateTypeOK' /\ MapOK' /\ ClosesOK'
      <4>1. Stable
        BY <3>2 DEF Stable
      <4>2. StateTypeOK' /\ MapOK'
        BY <3>2 DEF IInv, TypeOK, StateTypeOK, MapOK
      <4>. QED BY <3>2, <4>1, <4>2, ClosesKept
    <3>3. CASE FinishStop(h)
      BY <3>1, <3>2, <3>3 DEF FinishStop, IInv, TypeOK, StateTypeOK
    <3>4. CASE ToggleQuiet(h)
      BY <3>1, <3>2, <3>4 DEF ToggleQuiet, IInv, TypeOK, StateTypeOK
    <3>. QED BY <1>8, <3>3, <3>4
  <2>3. handler' \in [Handler -> HandlerRecord] /\ HandlersOK'
    BY <1>8, <2>2, HandlerEnds DEF FinishStop, ToggleQuiet
  <2>4. UNCHANGED <<sessionVars, interactiveMu, pending, approveAll, requestVars, agentVars, turn, engine,
                    arrivals>>
    BY <1>8 DEF FinishStop, ToggleQuiet, StoreState
  <2>5. TypeOK'
    BY <2>2, <2>3, <2>4, SessionsKept, RequestsKept, AgentsKept DEF IInv, TypeOK, ControlTypeOK
  <2>. QED
    BY <2>2, <2>3, <2>4, <2>5, TurnsKept, PendingKept, ApprovalKept, AutoKept, EventsKept, OneTurnKept
       DEF IInv
<1>. QED BY <1>1, <1>2, <1>3, <1>4, <1>5, <1>6, <1>7, <1>8 DEF HandlerStep

LEMMA CronKeeps ==
  ASSUME IInv, NEW k \in Key, ExecuteCronJob(k)
  PROVE  IInv'
<1>1. Stable
  BY DEF ExecuteCronJob, Stable
<1>2. SessionTypeOK' /\ turn' \in [Turn -> TurnRecord] /\ TurnsOK' /\ OneTurnPerSession'
  BY StartTurnKeeps DEF ExecuteCronJob
<1>3. TypeOK' /\ MapOK'
  BY <1>2, StatesKept, RequestsKept, AgentsKept, BoundAssumption
     DEF ExecuteCronJob, IInv, TypeOK, ControlTypeOK
<1>. QED
  BY <1>1, <1>2, <1>3, HandlersKept, PendingKept, ApprovalKept, AutoKept, EventsKept, ClosesKept
     DEF ExecuteCronJob, IInv

-----------------------------------------------------------------------------
(* Turns.                                                                  *)

\* A turn that goes on keeps all but its point of control.
LEMMA TurnGoes ==
  ASSUME IInv, NEW t \in Turn, turn[t].pc # "idle",
         NEW pc \in TurnPC \ {"idle"}, TurnGoto(t, pc)
  PROVE  /\ turn' \in [Turn -> TurnRecord]
         /\ turn'[t].pc = pc /\ turn'[t].key = turn[t].key /\ turn'[t].sess = turn[t].sess
         /\ turn'[t].st = turn[t].st /\ turn'[t].req = turn[t].req
         /\ \A u \in Turn \ {t} : turn'[u] = turn[u]
         /\ TurnsHold
<1>1. turn' \in [Turn -> TurnRecord]
  BY ControlTyped DEF TurnRecord, TurnGoto
<1>2. /\ turn'[t].pc = pc /\ turn'[t].key = turn[t].key /\ turn'[t].sess = turn[t].sess
      /\ turn'[t].st = turn[t].st /\ turn'[t].req = turn[t].req
  BY ControlTyped DEF TurnRecord, TurnGoto
<1>3. \A u \in Turn \ {t} : turn'[u] = turn[u]
  BY ControlTyped DEF TurnGoto
<1>. QED BY <1>1, <1>2, <1>3 DEF TurnsHold

\* A turn that gets a state keeps its key and its Session.
LEMMA TurnGetsState ==
  ASSUME IInv, NEW t \in Turn, turn[t].pc # "idle", NEW x \in State,
         turn' = [turn EXCEPT ![t].pc = "send", ![t].st = x]
  PROVE  /\ turn' \in [Turn -> TurnRecord]
         /\ turn'[t].pc = "send" /\ turn'[t].key = turn[t].key /\ turn'[t].sess = turn[t].sess
         /\ turn'[t].st = x
         /\ \A u \in Turn \ {t} : turn'[u] = turn[u]
         /\ TurnsHold
<1>1. turn' \in [Turn -> TurnRecord]
  <2>1. turn[t] \in TurnRecord /\ "send" \in TurnPC
    BY ControlTyped DEF TurnPC
  <2>2. [turn[t] EXCEPT !.pc = "send", !.st = x] \in TurnRecord
    BY <2>1 DEF TurnRecord
  <2>3. \A u \in Turn : turn'[u] = IF u = t THEN [turn[t] EXCEPT !.pc = "send", !.st = x] ELSE turn[u]
    BY ControlTyped
  <2>4. \A u \in Turn : turn'[u] \in TurnRecord
    BY <2>2, <2>3, ControlTyped
  <2>. QED BY <2>4, ControlTyped
<1>2. /\ turn'[t].pc = "send" /\ turn'[t].key = turn[t].key /\ turn'[t].sess = turn[t].sess
      /\ turn'[t].st = x
  BY ControlTyped DEF TurnRecord
<1>3. \A u \in Turn \ {t} : turn'[u] = turn[u]
  BY ControlTyped
<1>. QED BY <1>1, <1>2, <1>3 DEF TurnsHold

\* A turn that works on a key and a Session, and refers to no state yet or no
\* state any more.
LEMMA TurnWithoutState ==
  ASSUME IInv, Stable, NEW t \in Turn, turn[t].pc # "idle",
         turn'[t].pc \in {"start", "create", "starting", "unlock"},
         turn'[t].key = turn[t].key, turn'[t].sess = turn[t].sess,
         \A u \in Turn \ {t} : turn'[u] = turn[u]
  PROVE  TurnsOK'
<1>1. TurnOK(t)'
  BY DEF IInv, TurnsOK, TurnOK
<1>. QED BY <1>1, OtherTurnsKept

\* Steps of a turn that change nothing but the turn.
LEMMA TurnAloneKeeps ==
  ASSUME IInv, NEW t \in Turn,
         \/ BeginTurn(t) \/ ReuseState(t) \/ EnterCreate(t) \/ SendFails(t)
         \/ PermissionResolved(t) \/ ContextDone(t)
  PROVE  IInv'
<1>0. Stable /\ interactiveMu' \in Turn \union {Nil}
  BY DEF BeginTurn, ReuseState, EnterCreate, SendFails, PermissionResolved, ContextDone, Stable,
         IInv, TypeOK, ControlTypeOK
<1>1. CASE BeginTurn(t)
  <2>1. turn[t].pc # "idle" /\ (TurnGoto(t, "create") \/ TurnGoto(t, "unlock"))
    BY <1>1 DEF BeginTurn
  <2>2. turn' \in [Turn -> TurnRecord] /\ TurnsHold /\ TurnsOK'
    BY <1>0, <2>1, TurnGoes, TurnWithoutState DEF TurnPC
  <2>. QED BY <1>0, <1>1, <2>2, TurnAlone DEF BeginTurn
<1>2. CASE ReuseState(t)
  <2>. DEFINE x == stateOf[turn[t].key]
  <2>1. turn[t].pc # "idle" /\ turn[t].key \in Key /\ turn[t].sess \in Session
    BY <1>2 DEF ReuseState, IInv, TurnsOK, TurnOK
  <2>2. x \in allocated /\ x \in State
    BY <1>2, <2>1 DEF ReuseState, EntryAgent, IInv, TypeOK, StateTypeOK, MapOK
  <2>3. turn' = [turn EXCEPT ![t].pc = "send", ![t].st = x]
    BY <1>2 DEF ReuseState
  <2>4. /\ turn' \in [Turn -> TurnRecord]
        /\ turn'[t].pc = "send" /\ turn'[t].key = turn[t].key /\ turn'[t].sess = turn[t].sess
        /\ turn'[t].st = x
        /\ \A u \in Turn \ {t} : turn'[u] = turn[u]
        /\ TurnsHold
    BY <2>1, <2>2, <2>3, TurnGetsState
  <2>5. TurnOK(t)'
    BY <1>2, <2>1, <2>2, <2>4 DEF ReuseState, TurnOK
  <2>. QED BY <1>0, <1>2, <2>4, <2>5, OtherTurnsKept, TurnAlone DEF ReuseState
<1>3. CASE EnterCreate(t)
  <2>1. turn[t].pc # "idle" /\ TurnGoto(t, "starting")
    BY <1>3 DEF EnterCreate
  <2>2. turn' \in [Turn -> TurnRecord] /\ TurnsHold /\ TurnsOK'
    BY <1>0, <2>1, TurnGoes, TurnWithoutState DEF TurnPC
  <2>. QED BY <1>0, <1>3, <2>2, TurnAlone DEF EnterCreate
<1>4. CASE SendFails(t)
  <2>1. turn[t].pc # "idle" /\ TurnGoto(t, "unlock")
    BY <1>4 DEF SendFails
  <2>2. turn' \in [Turn -> TurnRecord] /\ TurnsHold /\ TurnsOK'
    BY <1>0, <2>1, TurnGoes, TurnWithoutState DEF TurnPC
  <2>. QED BY <1>0, <1>4, <2>2, TurnAlone DEF SendFails
<1>5. CASE PermissionResolved(t)
  <2>1. turn[t].pc = "wait"
    BY <1>5 DEF PermissionResolved
  <2>2. turn[t].key \in Key /\ turn[t].sess \in Session /\ turn[t].st \in allocated
        /\ agentOf[turn[t].st] \in Agent
    BY <2>1 DEF IInv, TurnsOK, TurnOK
  <2>3. turn' \in [Turn -> TurnRecord]
    BY <1>5, ControlTyped DEF PermissionResolved, TurnRecord, TurnPC
  <2>4. /\ turn'[t].pc = "loop" /\ turn'[t].key = turn[t].key /\ turn'[t].sess = turn[t].sess
        /\ turn'[t].st = turn[t].st
        /\ \A u \in Turn \ {t} : turn'[u] = turn[u]
    BY <1>5, ControlTyped DEF PermissionResolved, TurnRecord
  <2>5. TurnOK(t)'
    BY <1>5, <2>2, <2>4 DEF PermissionResolved, TurnOK
  <2>6. TurnsHold
    BY <2>1, <2>4 DEF TurnsHold
  <2>. QED BY <1>0, <1>5, <2>3, <2>4, <2>5, <2>6, OtherTurnsKept, TurnAlone DEF PermissionResolved
<1>6. CASE ContextDone(t)
  <2>1. turn[t].pc # "idle" /\ TurnGoto(t, "unlock")
    BY <1>6 DEF ContextDone
  <2>2. turn' \in [Turn -> TurnRecord] /\ TurnsHold /\ TurnsOK'
    BY <1>0, <2>1, TurnGoes, TurnWithoutState DEF TurnPC
  <2>. QED BY <1>0, <1>6, <2>2, TurnAlone DEF ContextDone
<1>. QED BY <1>1, <1>2, <1>3, <1>4, <1>5, <1>6

\* Steps that store a new state: a started agent, a failed start, a shutdown.
LEMMA CreateKeeps ==
  ASSUME IInv, NEW t \in Turn, SkipCreate(t) \/ StartSession(t) \/ StartSessionFails(t)
  PROVE  IInv'
<1>. DEFINE k == turn[t].key
            s == turn[t].sess
<1>1. turn[t].pc # "idle" /\ k \in Key /\ s \in Session
  BY DEF SkipCreate, StartSession, StartSessionFails, IInv, TurnsOK, TurnOK
<1>2. EntryQuiet(k) \in BOOLEAN
  BY <1>1 DEF EntryQuiet, IInv, TypeOK, StateTypeOK
<1>3. \E x \in State, a \in Agent \union {Nil} :
        /\ StoreState(k, x, a, EntryQuiet(k))
        /\ turn' = [turn EXCEPT ![t].pc = "send", ![t].st = x]
        /\ \/ a = Nil /\ UNCHANGED proc
           \/ a \in Agent /\ proc[a] = "unborn" /\ proc' = [proc EXCEPT ![a] = "alive"]
  <2>1. CASE SkipCreate(t) \/ StartSessionFails(t)
    BY <2>1 DEF SkipCreate, StartSessionFails
  <2>2. CASE StartSession(t)
    BY <2>2 DEF StartSession, Fresh
  <2>. QED BY <2>1, <2>2
<1>4. PICK x \in State, a \in Agent \union {Nil} :
        /\ StoreState(k, x, a, EntryQuiet(k))
        /\ turn' = [turn EXCEPT ![t].pc = "send", ![t].st = x]
        /\ \/ a = Nil /\ UNCHANGED proc
           \/ a \in Agent /\ proc[a] = "unborn" /\ proc' = [proc EXCEPT ![a] = "alive"]
  BY <1>3
<1>5. UNCHANGED <<sessionVars, requestVars, pending, approveAll, work, asking, chan, closes, handler,
                  engine, arrivals>>
  BY <1>4 DEF StoreState, SkipCreate, StartSession, StartSessionFails
<1>6. x \in allocated' /\ Stable /\ StateTypeOK' /\ MapOK' /\ ClosesOK'
  BY <1>1, <1>2, <1>4, <1>5, StoreKeeps
<1>7. /\ turn' \in [Turn -> TurnRecord]
      /\ turn'[t].pc = "send" /\ turn'[t].key = k /\ turn'[t].sess = s /\ turn'[t].st = x
      /\ \A u \in Turn \ {t} : turn'[u] = turn[u]
      /\ TurnsHold
  BY <1>1, <1>4, TurnGetsState
<1>8. TurnsOK'
  <2>1. TurnOK(t)'
    BY <1>1, <1>6, <1>7 DEF TurnOK
  <2>. QED BY <1>6, <1>7, <2>1, OtherTurnsKept
<1>9. AgentTypeOK'
  <2>1. proc' \in [Agent -> {"unborn", "alive", "exited", "closed"}]
    BY <1>4 DEF IInv, TypeOK, AgentTypeOK
  <2>2. conv' \in [Agent -> Agent \union {Nil}]
    BY <1>1 DEF SkipCreate, StartSession, StartSessionFails, IInv, TypeOK, AgentTypeOK, SessionTypeOK
  <2>. QED BY <1>5, <2>1, <2>2 DEF IInv, TypeOK, AgentTypeOK
<1>10. interactiveMu' \in Turn \union {Nil}
  BY DEF SkipCreate, StartSession, StartSessionFails, IInv, TypeOK, ControlTypeOK
<1>11. TypeOK'
  BY <1>5, <1>6, <1>7, <1>9, <1>10, SessionsKept, RequestsKept DEF IInv, TypeOK, ControlTypeOK
<1>. QED
  BY <1>5, <1>6, <1>7, <1>8, <1>11, HandlersKept, PendingKept, ApprovalKept, AutoKept, EventsKept,
     OneTurnKept DEF IInv

LEMMA SendPromptKeeps ==
  ASSUME IInv, NEW t \in Turn, SendPrompt(t)
  PROVE  IInv'
<1>1. Stable
  BY DEF SendPrompt, Stable
<1>2. /\ turn[t].key \in Key /\ turn[t].sess \in Session /\ turn[t].st \in allocated
      /\ agentOf[turn[t].st] \in Agent
  BY DEF SendPrompt, TurnAgent, IInv, TurnsOK, TurnOK, TypeOK, StateTypeOK
<1>3. /\ turn' \in [Turn -> TurnRecord]
      /\ turn'[t].pc = "loop" /\ turn'[t].key = turn[t].key /\ turn'[t].sess = turn[t].sess
      /\ turn'[t].st = turn[t].st
      /\ \A u \in Turn \ {t} : turn'[u] = turn[u]
      /\ TurnsHold
  <2>1. turn[t].pc # "idle" /\ TurnGoto(t, "loop")
    BY DEF SendPrompt
  <2>. QED BY <2>1, TurnGoes DEF TurnPC
<1>4. TurnsOK'
  <2>1. TurnOK(t)'
    BY <1>2, <1>3 DEF SendPrompt, TurnOK
  <2>. QED BY <1>1, <1>3, <2>1, OtherTurnsKept
<1>5. AgentTypeOK'
  BY DEF SendPrompt, IInv, TypeOK, AgentTypeOK
<1>6. TypeOK' /\ MapOK'
  BY <1>3, <1>5, SessionsKept, StatesKept, RequestsKept DEF SendPrompt, IInv, TypeOK, ControlTypeOK
<1>. QED
  BY <1>1, <1>3, <1>4, <1>6, HandlersKept, PendingKept, ApprovalKept, AutoKept, EventsKept, ClosesKept,
     OneTurnKept DEF SendPrompt, IInv

\* Steps of a turn that clean up the entry of its key.
LEMMA TurnCleanupKeeps ==
  ASSUME IInv, NEW t \in Turn, RestartAgent(t) \/ ChannelClosed(t) \/ IdleTimeout(t)
  PROVE  IInv'
<1>1. turn[t].pc # "idle" /\ turn[t].key \in Key /\ turn[t].sess \in Session
  BY DEF RestartAgent, ChannelClosed, IdleTimeout, IInv, TurnsOK, TurnOK
<1>2. CleanupInteractiveState(turn[t].key)
      /\ UNCHANGED <<sessionVars, interactiveMu, requestVars, handler, engine, arrivals>>
  BY DEF RestartAgent, ChannelClosed, IdleTimeout
<1>3. Stable
  BY <1>2 DEF CleanupInteractiveState, Stable
<1>4. StateTypeOK' /\ AgentTypeOK' /\ MapOK' /\ ClosesOK'
  BY <1>1, <1>2, CleanupKeeps
<1>5. turn' \in [Turn -> TurnRecord] /\ TurnsOK' /\ TurnsHold
  <2>1. CASE RestartAgent(t)
    <3>. turn' = [turn EXCEPT ![t].pc = "create", ![t].st = Nil, ![t].retried = TRUE]
      BY <2>1 DEF RestartAgent
    <3>. turn \in [Turn -> TurnRecord]
      BY DEF IInv, TypeOK, ControlTypeOK
    <3>1. turn' \in [Turn -> TurnRecord]
      <4>. DEFINE q == [turn[t] EXCEPT !.pc = "create", !.st = Nil, !.retried = TRUE]
      <4>1. q \in TurnRecord
        BY DEF TurnRecord, TurnPC
      <4>2. turn' = [turn EXCEPT ![t] = q]
        OBVIOUS
      <4>. HIDE DEF q
      <4>. QED BY <4>1, <4>2
    <3>2. /\ turn'[t].pc = "create" /\ turn'[t].key = turn[t].key /\ turn'[t].sess = turn[t].sess
          /\ \A u \in Turn \ {t} : turn'[u] = turn[u]
      BY DEF TurnRecord
    <3>. QED BY <1>1, <1>3, <3>1, <3>2, TurnWithoutState DEF TurnsHold
  <2>2. CASE ChannelClosed(t) \/ IdleTimeout(t)
    <3>1. TurnGoto(t, "unlock")
      BY <2>2 DEF ChannelClosed, IdleTimeout
    <3>. QED BY <1>1, <1>3, <3>1, TurnGoes, TurnWithoutState DEF TurnPC
  <2>. QED BY <2>1, <2>2
<1>6. TypeOK'
  BY <1>2, <1>4, <1>5, SessionsKept, RequestsKept DEF IInv, TypeOK, ControlTypeOK
<1>. QED
  BY <1>2, <1>3, <1>4, <1>5, <1>6, HandlersKept, PendingKept, ApprovalKept, AutoKept, EventsKept,
     OneTurnKept DEF CleanupInteractiveState, IInv

\* Taking the head of the channel keeps the type and whose requests it holds.
LEMMA ReceiveEventKeeps ==
  ASSUME IInv, Stable, NEW t \in Turn, NEW type, Receive(t, type)
  PROVE  /\ TurnAgent(t) \in Agent
         /\ turn[t].pc = "loop" /\ turn[t].key \in Key /\ turn[t].sess \in Session
         /\ turn[t].st \in allocated
         /\ chan' \in [Agent -> Seq(Event)]
         /\ \A b \in Agent : Len(chan'[b]) <= MaxBuffer
         /\ EventsOK'
         /\ type = "permission" =>
              /\ Head(chan[TurnAgent(t)]).req \in Request
              /\ asker[Head(chan[TurnAgent(t)]).req] = TurnAgent(t)
<1>. DEFINE a == TurnAgent(t)
            q == chan[a]
<1>1. /\ a \in Agent /\ turn[t].pc = "loop" /\ turn[t].key \in Key /\ turn[t].sess \in Session
      /\ turn[t].st \in allocated
  BY DEF Receive, TurnAgent, IInv, TurnsOK, TurnOK
<1>2. q \in Seq(Event) /\ q # <<>> /\ Head(q).type = type
  BY <1>1 DEF Receive, IInv, TypeOK, AgentTypeOK
<1>3. /\ Tail(q) \in Seq(Event)
      /\ Len(Tail(q)) = Len(q) - 1
      /\ \A i \in 1..Len(Tail(q)) : Tail(q)[i] = q[i + 1]
      /\ Len(q) \in Nat \ {0} /\ Head(q) = q[1]
  BY <1>2, HeadTailProperties, LenProperties
<1>4. chan' = [chan EXCEPT ![a] = Tail(q)]
  BY DEF Receive
<1>5. chan' \in [Agent -> Seq(Event)]
  BY <1>1, <1>3, <1>4 DEF IInv, TypeOK, AgentTypeOK
<1>6. \A b \in Agent : Len(chan'[b]) <= MaxBuffer
  <2>1. Len(q) <= MaxBuffer
    BY <1>1 DEF IInv, TypeOK, AgentTypeOK
  <2>2. \A b \in Agent : chan'[b] = IF b = a THEN Tail(q) ELSE chan[b]
    BY <1>1, <1>4 DEF IInv, TypeOK, AgentTypeOK
  <2>3. \A b \in Agent : Len(chan[b]) <= MaxBuffer
    BY DEF IInv, TypeOK, AgentTypeOK
  <2>4. Len(Tail(q)) <= MaxBuffer
    BY <1>3, <2>1, BoundAssumption
  <2>. QED BY <2>2, <2>3, <2>4
<1>7. EventsOK'
  <2>. SUFFICES ASSUME NEW b \in Agent, NEW i \in 1..Len(chan'[b]), chan'[b][i].type = "permission"
                PROVE  chan'[b][i].req \in Request /\ asker'[chan'[b][i].req] = b
    BY DEF EventsOK
  <2>1. \E j \in 1..Len(chan[b]) : chan'[b][i] = chan[b][j]
    <3>1. CASE b = a
      <4>1. chan'[b] = Tail(q)
        BY <1>1, <1>4, <3>1 DEF IInv, TypeOK, AgentTypeOK
      <4>2. i + 1 \in 1..Len(q)
        BY <1>3, <4>1
      <4>. QED BY <1>3, <3>1, <4>1, <4>2
    <3>2. CASE b # a
      BY <1>4, <3>2 DEF IInv, TypeOK, AgentTypeOK
    <3>. QED BY <3>1, <3>2
  <2>2. PICK j \in 1..Len(chan[b]) : chan'[b][i] = chan[b][j]
    BY <2>1
  <2>3. chan[b][j].req \in Request /\ asker[chan[b][j].req] = b
    BY <2>2 DEF IInv, EventsOK
  <2>. QED BY <2>2, <2>3, NilAssumption DEF Stable
<1>8. type = "permission" => Head(q).req \in Request /\ asker[Head(q).req] = a
  BY <1>1, <1>2, <1>3 DEF IInv, EventsOK
<1>. QED BY <1>1, <1>5, <1>6, <1>7, <1>8

LEMMA EventKeeps ==
  ASSUME IInv, NEW t \in Turn,
         TextEvent(t) \/ AutoApprove(t) \/ PromptUser(t) \/ ResultEvent(t) \/ ErrorEvent(t)
  PROVE  IInv'
<1>. DEFINE a == TurnAgent(t)
<1>1. Stable
  BY DEF TextEvent, AutoApprove, PromptUser, ResultEvent, ErrorEvent, Stable
<1>2. UNCHANGED <<active, made, busy, interactiveMu, stateVars, resolved, asker, consent, proc, conv, work,
                  closes, handler, engine, arrivals>>
  BY DEF TextEvent, AutoApprove, PromptUser, ResultEvent, ErrorEvent
<1>3. /\ a \in Agent
      /\ turn[t].pc = "loop" /\ turn[t].key \in Key /\ turn[t].sess \in Session
      /\ turn[t].st \in allocated
      /\ chan' \in [Agent -> Seq(Event)]
      /\ \A b \in Agent : Len(chan'[b]) <= MaxBuffer
      /\ EventsOK'
  BY <1>1, ReceiveEventKeeps DEF TextEvent, AutoApprove, PromptUser, ResultEvent, ErrorEvent
<1>4. SessionTypeOK'
  <2>1. conv[a] \in Agent \union {Nil}
    BY <1>3 DEF IInv, TypeOK, AgentTypeOK
  <2>2. convOf' \in [Session -> Agent \union {Nil}]
    BY <1>3, <2>1 DEF TextEvent, AutoApprove, PromptUser, ResultEvent, ErrorEvent,
       IInv, TypeOK, SessionTypeOK
  <2>. QED BY <1>2, <2>2 DEF IInv, TypeOK, SessionTypeOK
<1>5. AutoApprove(t) => Head(chan[a]).req \in Request /\ asker[Head(chan[a]).req] = a
  BY <1>1, ReceiveEventKeeps DEF AutoApprove
<1>6. answers' \in [Request -> Nat] /\ asking' \in [Agent -> Request \union {Nil}]
      /\ autoApproved' \in SUBSET Request
  <2>1. CASE AutoApprove(t)
    <3>1. answers' \in [Request -> Nat]
      <4>. DEFINE r == Head(chan[a]).req
      <4>1. answers' = [answers EXCEPT ![r] = @ + 1] \/ answers' = answers
        BY <2>1 DEF AutoApprove
      <4>2. answers \in [Request -> Nat] /\ r \in Request
        BY <1>5, <2>1 DEF IInv, TypeOK, RequestTypeOK
      <4>. QED BY <4>1, <4>2
    <3>2. asking' \in [Agent -> Request \union {Nil}]
      BY <2>1 DEF AutoApprove, IInv, TypeOK, AgentTypeOK
    <3>3. autoApproved' \in SUBSET Request
      BY <1>5, <2>1 DEF AutoApprove, IInv, TypeOK, RequestTypeOK
    <3>. QED BY <3>1, <3>2, <3>3
  <2>2. CASE UNCHANGED <<answers, asking, autoApproved>>
    BY <2>2 DEF IInv, TypeOK, RequestTypeOK, AgentTypeOK
  <2>. QED BY <2>1, <2>2 DEF TextEvent, PromptUser, ResultEvent, ErrorEvent
<1>7. AutoApprovalIsEarned'
  <2>1. CASE AutoApprove(t)
    <3>1. a \in consent
      BY <1>3, <2>1 DEF AutoApprove, TurnAgent, IInv, TypeOK, StateTypeOK, ApprovalOK
    <3>2. autoApproved' = autoApproved \union {Head(chan[a]).req}
      BY <2>1 DEF AutoApprove
    <3>. QED BY <1>2, <1>5, <2>1, <3>1, <3>2 DEF IInv, AutoApprovalIsEarned
  <2>2. CASE UNCHANGED autoApproved
    BY <1>1, <2>2, AutoKept
  <2>. QED BY <2>1, <2>2 DEF TextEvent, PromptUser, ResultEvent, ErrorEvent
<1>8. turn' \in [Turn -> TurnRecord] /\ TurnsOK' /\ TurnsHold
  <2>1. CASE UNCHANGED turn
    BY <1>1, <2>1, TurnsKept DEF TurnsHold, IInv, TypeOK, ControlTypeOK
  <2>2. CASE TurnGoto(t, "unlock")
    BY <1>1, <1>3, <2>2, TurnGoes, TurnWithoutState DEF TurnPC
  <2>3. CASE PromptUser(t)
    <3>. DEFINE r == Head(chan[a]).req
    <3>1. r \in Request /\ asker[r] = a
      BY <1>1, <2>3, ReceiveEventKeeps DEF PromptUser
    <3>. turn' = [turn EXCEPT ![t].pc = "prompt", ![t].req = r]
      BY <2>3 DEF PromptUser
    <3>. turn \in [Turn -> TurnRecord]
      BY DEF IInv, TypeOK, ControlTypeOK
    <3>. HIDE DEF r
    <3>2. turn' \in [Turn -> TurnRecord]
      BY <3>1 DEF TurnRecord, TurnPC
    <3>3. /\ turn'[t].pc = "prompt" /\ turn'[t].key = turn[t].key /\ turn'[t].sess = turn[t].sess
          /\ turn'[t].st = turn[t].st /\ turn'[t].req = r
          /\ \A u \in Turn \ {t} : turn'[u] = turn[u]
      BY DEF TurnRecord
    <3>4. TurnOK(t)'
      BY <1>2, <1>3, <3>1, <3>3 DEF TurnOK, TurnAgent
    <3>5. TurnsHold
      BY <1>3, <3>3 DEF TurnsHold
    <3>. QED BY <1>1, <3>2, <3>3, <3>4, <3>5, OtherTurnsKept
  <2>. QED BY <2>1, <2>2, <2>3 DEF TextEvent, AutoApprove, ResultEvent, ErrorEvent
<1>9. TypeOK' /\ MapOK'
  BY <1>2, <1>3, <1>4, <1>6, <1>8, StatesKept
     DEF IInv, TypeOK, ControlTypeOK, AgentTypeOK, RequestTypeOK
<1>. QED
  BY <1>1, <1>2, <1>3, <1>7, <1>8, <1>9, HandlersKept, PendingKept, ApprovalKept, ClosesKept, OneTurnKept
     DEF IInv

LEMMA SetPendingKeeps ==
  ASSUME IInv, NEW t \in Turn, SetPending(t)
  PROVE  IInv'
<1>1. Stable
  BY DEF SetPending, Stable
<1>2. /\ turn[t].key \in Key /\ turn[t].sess \in Session /\ turn[t].st \in allocated
      /\ agentOf[turn[t].st] \in Agent
      /\ turn[t].req \in Request /\ asker[turn[t].req] = agentOf[turn[t].st]
  BY DEF SetPending, IInv, TurnsOK, TurnOK
<1>3. StateTypeOK' /\ MapOK' /\ PendingOK'
  BY <1>2 DEF SetPending, IInv, TypeOK, StateTypeOK, MapOK, PendingOK
<1>4. /\ turn' \in [Turn -> TurnRecord]
      /\ turn'[t].pc = "wait" /\ turn'[t].key = turn[t].key /\ turn'[t].sess = turn[t].sess
      /\ turn'[t].st = turn[t].st /\ turn'[t].req = turn[t].req
      /\ \A u \in Turn \ {t} : turn'[u] = turn[u]
      /\ TurnsHold
  <2>1. turn[t].pc # "idle" /\ TurnGoto(t, "wait")
    BY DEF SetPending
  <2>. QED BY <2>1, TurnGoes DEF TurnPC
<1>5. TurnsOK'
  <2>1. TurnOK(t)'
    BY <1>2, <1>4 DEF SetPending, TurnOK
  <2>. QED BY <1>1, <1>4, <2>1, OtherTurnsKept
<1>6. TypeOK'
  BY <1>3, <1>4, SessionsKept, RequestsKept, AgentsKept DEF SetPending, IInv, TypeOK, ControlTypeOK
<1>. QED
  BY <1>1, <1>3, <1>4, <1>5, <1>6, HandlersKept, ApprovalKept, AutoKept, EventsKept, ClosesKept,
     OneTurnKept DEF SetPending, IInv

LEMMA UnlockKeeps ==
  ASSUME IInv, NEW t \in Turn, UnlockSession(t)
  PROVE  IInv'
<1>1. Stable
  BY DEF UnlockSession, Stable
<1>2. turn[t].pc # "idle" /\ turn[t].sess \in Session
  BY DEF UnlockSession, IInv, TurnsOK, TurnOK
<1>3. turn' \in [Turn -> TurnRecord]
  BY ControlTyped DEF UnlockSession, TurnRecord, TurnPC, IdleTurn
<1>4. turn'[t].pc = "idle" /\ \A u \in Turn \ {t} : turn'[u] = turn[u]
  BY ControlTyped DEF UnlockSession, IdleTurn
<1>5. TurnsOK'
  <2>1. TurnOK(t)'
    BY <1>4 DEF TurnOK
  <2>. QED BY <1>1, <1>4, <2>1, OtherTurnsKept
<1>6. SessionTypeOK'
  BY DEF UnlockSession, IInv, TypeOK, SessionTypeOK
<1>7. OneTurnPerSession'
  <2>1. \A s \in Session : busy'[s] = IF s = turn[t].sess THEN FALSE ELSE busy[s]
    BY DEF UnlockSession, IInv, TypeOK, SessionTypeOK
  <2>2. \A u \in Turn : turn'[u].pc # "idle" => u # t /\ turn'[u] = turn[u]
    BY <1>4
  <2>3. \A u \in Turn : turn[u].pc # "idle" /\ turn[u].sess = turn[t].sess => u = t
    BY <1>2 DEF IInv, OneTurnPerSession, Running
  <2>4. \A t1, t2 \in Turn :
          turn'[t1].pc # "idle" /\ turn'[t2].pc # "idle" /\ turn'[t1].sess = turn'[t2].sess => t1 = t2
    BY <2>2 DEF IInv, OneTurnPerSession, Running
  <2>5. ASSUME NEW s \in Session
        PROVE  busy'[s] <=> \E u \in Turn : turn'[u].pc # "idle" /\ turn'[u].sess = s
    <3>1. CASE s = turn[t].sess
      BY <2>1, <2>2, <2>3, <3>1
    <3>2. CASE s # turn[t].sess
      <4>1. busy[s] <=> \E u \in Turn : turn[u].pc # "idle" /\ turn[u].sess = s
        BY DEF IInv, OneTurnPerSession, Running
      <4>. QED BY <1>4, <2>1, <2>2, <3>2, <4>1
    <3>. QED BY <3>1, <3>2
  <2>. QED BY <2>4, <2>5 DEF OneTurnPerSession, Running
<1>8. TypeOK' /\ MapOK'
  BY <1>3, <1>6, StatesKept, RequestsKept, AgentsKept DEF UnlockSession, IInv, TypeOK, ControlTypeOK
<1>. QED
  BY <1>1, <1>5, <1>7, <1>8, HandlersKept, PendingKept, ApprovalKept, AutoKept, EventsKept, ClosesKept
     DEF UnlockSession, IInv

LEMMA TurnStepKeeps ==
  ASSUME IInv, NEW t \in Turn, TurnStep(t)
  PROVE  IInv'
BY TurnAloneKeeps, CreateKeeps, SendPromptKeeps, TurnCleanupKeeps, EventKeeps, SetPendingKeeps,
   UnlockKeeps DEF TurnStep

-----------------------------------------------------------------------------
(* Agents and the shutdown.                                                *)

\* A new event keeps the type of the channel, its capacity, and the owner of
\* the requests in it.
LEMMA EmitKeeps ==
  ASSUME IInv, Stable, NEW a \in Agent, NEW type \in {"text", "permission", "result", "error"},
         NEW r \in Request \union {Nil}, Emit(a, type, r),
         type = "permission" => r \in Request /\ asker'[r] = a
  PROVE  /\ chan' \in [Agent -> Seq(Event)]
         /\ \A b \in Agent : Len(chan'[b]) <= MaxBuffer
         /\ EventsOK'
<1>. DEFINE q == chan[a]
            e == [type |-> type, req |-> r]
<1>1. q \in Seq(Event) /\ e \in Event /\ Len(q) < MaxBuffer /\ chan' = [chan EXCEPT ![a] = Append(q, e)]
  BY DEF Emit, Event, IInv, TypeOK, AgentTypeOK
<1>. HIDE DEF q, e
<1>2. /\ Append(q, e) \in Seq(Event) /\ Len(Append(q, e)) = Len(q) + 1
      /\ \A i \in 1..Len(q) : Append(q, e)[i] = q[i]
      /\ Append(q, e)[Len(q) + 1] = e
      /\ Len(q) \in Nat
  BY <1>1, AppendProperties, LenProperties
<1>3. \A b \in Agent : chan'[b] = IF b = a THEN Append(q, e) ELSE chan[b]
  BY <1>1 DEF IInv, TypeOK, AgentTypeOK
<1>4. chan' \in [Agent -> Seq(Event)]
  BY <1>1, <1>2 DEF IInv, TypeOK, AgentTypeOK
<1>5. \A b \in Agent : Len(chan'[b]) <= MaxBuffer
  <2>1. \A b \in Agent : Len(chan[b]) <= MaxBuffer
    BY DEF IInv, TypeOK, AgentTypeOK
  <2>. QED BY <1>1, <1>2, <1>3, <2>1, BoundAssumption
<1>6. EventsOK'
  <2>. SUFFICES ASSUME NEW b \in Agent, NEW i \in 1..Len(chan'[b]), chan'[b][i].type = "permission"
                PROVE  chan'[b][i].req \in Request /\ asker'[chan'[b][i].req] = b
    BY DEF EventsOK
  <2>1. CASE b = a /\ i = Len(q) + 1
    <3>1. chan'[b][i] = e
      BY <1>2, <1>3, <2>1
    <3>2. e.type = type /\ e.req = r
      BY DEF e
    <3>. QED BY <2>1, <3>1, <3>2
  <2>2. CASE ~(b = a /\ i = Len(q) + 1)
    <3>1. i \in 1..Len(chan[b]) /\ chan'[b][i] = chan[b][i]
      <4>1. CASE b = a
        <5>1. chan'[b] = Append(q, e) /\ i # Len(q) + 1
          BY <1>3, <2>2, <4>1
        <5>2. i \in 1..Len(q)
          BY <1>2, <5>1
        <5>. QED BY <1>2, <4>1, <5>1, <5>2 DEF q
      <4>2. CASE b # a
        BY <1>3, <4>2
      <4>. QED BY <4>1, <4>2
    <3>2. chan[b][i].req \in Request /\ asker[chan[b][i].req] = b
      BY <3>1 DEF IInv, EventsOK
    <3>. QED BY <3>1, <3>2, NilAssumption DEF Stable
  <2>. QED BY <2>1, <2>2
<1>. QED BY <1>4, <1>5, <1>6

LEMMA AgentStepKeeps ==
  ASSUME IInv, NEW a \in Agent, AgentStep(a)
  PROVE  IInv'
<1>1. Stable
  <2>1. CASE AgentAsk(a)
    BY <2>1 DEF AgentAsk, Fresh, Stable, IInv, TypeOK, RequestTypeOK
  <2>2. CASE AgentText(a) \/ AgentFinish(a) \/ AgentExit(a) \/ AgentCloseEvents(a)
    BY <2>2 DEF AgentText, AgentFinish, AgentExit, AgentCloseEvents, Stable
  <2>. QED BY <2>1, <2>2 DEF AgentStep
<1>2. UNCHANGED <<sessionVars, interactiveMu, stateVars, resolved, answers, autoApproved, consent,
                  conv, closes, handler, turn, engine, arrivals>>
  BY DEF AgentStep, AgentText, AgentAsk, AgentFinish, AgentExit, AgentCloseEvents
<1>3. RequestTypeOK'
  <2>1. asker' \in [Request -> Agent \union {Nil}]
    BY DEF AgentStep, AgentText, AgentAsk, AgentFinish, AgentExit, AgentCloseEvents,
       IInv, TypeOK, RequestTypeOK
  <2>. QED BY <1>2, <2>1 DEF IInv, TypeOK, RequestTypeOK
<1>4. /\ chan' \in [Agent -> Seq(Event)]
      /\ \A b \in Agent : Len(chan'[b]) <= MaxBuffer
      /\ EventsOK'
  <2>1. CASE AgentAsk(a)
    <3>1. PICK r \in Request : /\ asker[r] = Nil
                               /\ asker' = [asker EXCEPT ![r] = a]
                               /\ Emit(a, "permission", r)
      BY <2>1 DEF AgentAsk, Fresh
    <3>2. asker'[r] = a
      BY <3>1 DEF IInv, TypeOK, RequestTypeOK
    <3>. QED BY <1>1, <3>1, <3>2, EmitKeeps
  <2>2. CASE UNCHANGED chan
    BY <1>1, <2>2, EventsKept DEF IInv, TypeOK, AgentTypeOK
  <2>3. CASE \E type \in {"text", "result", "error"} : Emit(a, type, Nil)
    BY <1>1, <2>3, EmitKeeps
  <2>. QED BY <2>1, <2>2, <2>3 DEF AgentStep, AgentText, AgentFinish, AgentExit, AgentCloseEvents
<1>5. /\ proc' \in [Agent -> {"unborn", "alive", "exited", "closed"}]
      /\ \A b \in Agent : proc'[b] = "unborn" <=> proc[b] = "unborn"
  BY DEF AgentStep, AgentText, AgentAsk, AgentFinish, AgentExit, AgentCloseEvents,
     IInv, TypeOK, AgentTypeOK
<1>6. work' \in [Agent -> {"idle", "prompted", "talking"}] /\ asking' \in [Agent -> Request \union {Nil}]
  BY DEF AgentStep, AgentText, AgentAsk, AgentFinish, AgentExit, AgentCloseEvents,
     IInv, TypeOK, AgentTypeOK
<1>7. ClosesOK'
  BY <1>2, <1>5 DEF IInv, TypeOK, StateTypeOK, ClosesOK, ClosedAtMostOnce
<1>8. TypeOK' /\ MapOK'
  BY <1>2, <1>3, <1>4, <1>5, <1>6, SessionsKept, StatesKept DEF IInv, TypeOK, AgentTypeOK, ControlTypeOK
<1>. QED
  BY <1>1, <1>2, <1>4, <1>7, <1>8, HandlersKept, TurnsKept, PendingKept, ApprovalKept, AutoKept, OneTurnKept
     DEF IInv

LEMMA CancelKeeps ==
  ASSUME IInv, CancelContext
  PROVE  IInv'
<1>1. Stable
  BY DEF CancelContext, Stable
<1>2. TypeOK' /\ MapOK'
  BY SessionsKept, StatesKept, RequestsKept, AgentsKept DEF CancelContext, IInv, TypeOK, ControlTypeOK
<1>. QED
  BY <1>1, <1>2, HandlersKept, TurnsKept, PendingKept, ApprovalKept, AutoKept, EventsKept, ClosesKept,
     OneTurnKept DEF CancelContext, IInv

LEMMA StopStatesKeeps ==
  ASSUME IInv, StopStates
  PROVE  IInv'
<1>1. Stable
  BY DEF StopStates, Stable
<1>2. StateTypeOK' /\ MapOK' /\ AgentTypeOK'
  BY DEF StopStates, IInv, TypeOK, StateTypeOK, AgentTypeOK, MapOK
<1>3. ClosesOK'
  BY NilAssumption DEF StopStates, EntryAgent, IInv, TypeOK, StateTypeOK, AgentTypeOK, MapOK, ClosesOK,
     ClosedAtMostOnce
<1>4. TypeOK'
  BY <1>2, SessionsKept, RequestsKept DEF StopStates, IInv, TypeOK, ControlTypeOK
<1>. QED
  BY <1>1, <1>2, <1>3, <1>4, HandlersKept, TurnsKept, PendingKept, ApprovalKept, AutoKept, EventsKept,
     OneTurnKept DEF StopStates, IInv

-----------------------------------------------------------------------------
(* The theorems.                                                           *)

LEMMA InitIInv == Init => IInv
<1>. SUFFICES ASSUME Init PROVE IInv
  OBVIOUS
<1>1. SessionTypeOK /\ StateTypeOK /\ RequestTypeOK
  BY DEF Init, SessionTypeOK, StateTypeOK, RequestTypeOK
<1>2. AgentTypeOK
  BY BoundAssumption, EmptySeq DEF Init, AgentTypeOK
<1>3. ControlTypeOK
  BY BoundAssumption DEF Init, ControlTypeOK, HandlerRecord, HandlerPC, IdleHandler, TurnRecord, TurnPC, IdleTurn
<1>4. HandlersOK /\ TurnsOK /\ MapOK /\ PendingOK /\ ApprovalOK /\ AutoApprovalIsEarned
  BY DEF Init, HandlersOK, HandlerOK, TurnsOK, TurnOK, MapOK, PendingOK, ApprovalOK, AutoApprovalIsEarned,
     IdleHandler, IdleTurn
<1>5. EventsOK
  BY DEF Init, EventsOK
<1>6. ClosesOK
  BY DEF Init, ClosesOK, ClosedAtMostOnce
<1>7. OneTurnPerSession
  BY DEF Init, OneTurnPerSession, Running, IdleTurn
<1>. QED BY <1>1, <1>2, <1>3, <1>4, <1>5, <1>6, <1>7 DEF IInv, TypeOK

LEMMA NextIInv == IInv /\ [Next]_vars => IInv'
<1>. SUFFICES ASSUME IInv, [Next]_vars PROVE IInv'
  OBVIOUS
<1>1. CASE Next
  BY <1>1, ReceiveKeeps, HandlerStepKeeps, CronKeeps, TurnStepKeeps, AgentStepKeeps, CancelKeeps,
     StopStatesKeeps DEF Next
<1>2. CASE UNCHANGED vars
  <2>1. Stable
    BY <1>2 DEF vars, Stable
  <2>2. TypeOK' /\ MapOK'
    BY <1>2, SessionsKept, StatesKept, RequestsKept, AgentsKept DEF vars, IInv, TypeOK, ControlTypeOK
  <2>. QED
    BY <1>2, <2>1, <2>2, HandlersKept, TurnsKept, PendingKept, ApprovalKept, AutoKept, EventsKept, ClosesKept,
       OneTurnKept DEF vars, IInv
<1>. QED BY <1>1, <1>2

\* The inductive invariant holds in every reachable state.
THEOREM Invariance == Spec => []IInv
BY InitIInv, NextIInv, PTL DEF Spec

\* Every variable keeps its type, and an event channel its capacity.
THEOREM TypeCorrect == Spec => []TypeOK
BY Invariance, PTL DEF IInv

\* Session.TryLock and Unlock: a Session is busy exactly while one turn works
\* on it, for any number of handlers, cron jobs and turns.
THEOREM OneTurn == Spec => []OneTurnPerSession
BY Invariance, PTL DEF IInv

\* cleanupInteractiveState and Engine.Stop never close an agent session twice.
THEOREM AtMostOneClose == Spec => []ClosedAtMostOnce
BY Invariance, PTL DEF IInv, ClosesOK

\* handlePendingPermission: a decision goes to the agent session that asked.
THEOREM AnswersAreForAsker == Spec => []AnswersReachAsker
<1>1. IInv => AnswersReachAsker
  BY DEF IInv, PendingOK, HandlersOK, HandlerOK, AnswersReachAsker
<1>. QED BY Invariance, <1>1, PTL

\* approveAll: nothing is approved without asking but for an agent session a
\* user said "allow all" to.
THEOREM AutoApprovalEarned == Spec => []AutoApprovalIsEarned
BY Invariance, PTL DEF IInv

-----------------------------------------------------------------------------
(* Permissions, where one handler takes the messages and nobody calls /new.  *)

OneHandler == \A g, h \in Handler : g = h

\* A turn from the moment it has a state.
InUse(t) == turn[t].pc \in {"send", "loop", "prompt", "wait"}

NotNew(h) == handler[h].pc \in {"resolve", "cleanup", "finish"} => handler[h].cmd # "new"

\* Without /new a key keeps its Session, and a state the key it was stored for.
SessionsOwned ==
  /\ \A h \in Handler : NotNew(h)
  /\ \A k \in Key : active[k] # Nil => active[k] \in made
  /\ \A k1, k2 \in Key : active[k1] # Nil /\ active[k1] = active[k2] => k1 = k2
  /\ \A t \in Turn : Running(t) => active[turn[t].key] = turn[t].sess

StatesOwned ==
  /\ \A t \in Turn, k \in Key : InUse(t) /\ stateOf[k] = turn[t].st => k = turn[t].key
  /\ \A t, u \in Turn : InUse(t) /\ InUse(u) /\ turn[t].st = turn[u].st => turn[t].key = turn[u].key

Owned == SessionsOwned /\ StatesOwned

-----------------------------------------------------------------------------
\* So a state has one turn, and a request too.
LEMMA OneTurnPerState ==
  ASSUME IInv, Owned, NEW t \in Turn, NEW u \in Turn, InUse(t), InUse(u), turn[t].st = turn[u].st
  PROVE  t = u
<1>1. Running(t) /\ Running(u)
  BY DEF InUse, Running
<1>2. turn[t].sess = turn[u].sess
  BY <1>1 DEF Owned, StatesOwned, SessionsOwned
<1>. QED BY <1>1, <1>2 DEF IInv, OneTurnPerSession

LEMMA OneTurnPerRequest ==
  ASSUME IInv, Owned, NEW t \in Turn, NEW u \in Turn,
         turn[t].pc \in {"prompt", "wait"}, turn[u].pc \in {"prompt", "wait"},
         turn[t].req = turn[u].req
  PROVE  t = u
<1>1. agentOf[turn[t].st] = agentOf[turn[u].st] /\ agentOf[turn[t].st] \in Agent
      /\ turn[t].st \in State /\ turn[u].st \in State
  BY DEF IInv, TurnsOK, TurnOK, TypeOK, StateTypeOK
<1>2. turn[t].st = turn[u].st
  BY <1>1, NilAssumption DEF IInv, ClosesOK
<1>. QED BY <1>2, OneTurnPerState DEF InUse

\* A step that starts no turn, gives none a state and stores no state.
LEMMA OwnedKept ==
  ASSUME Owned, UNCHANGED <<active, made>>,
         \A h \in Handler : NotNew(h)',
         \A k \in Key : stateOf'[k] \in {stateOf[k], Nil},
         \A t \in Turn :
           /\ Running(t)' => Running(t) /\ turn'[t].key = turn[t].key /\ turn'[t].sess = turn[t].sess
           /\ InUse(t)' => InUse(t) /\ turn'[t].st = turn[t].st /\ turn[t].st # Nil
  PROVE  Owned'
<1>1. SessionsOwned'
  BY DEF Owned, SessionsOwned
<1>2. StatesOwned'
  BY DEF Owned, StatesOwned, InUse, Running
<1>. QED BY <1>1, <1>2 DEF Owned

LEMMA StateIsUsed == ASSUME IInv, NEW t \in Turn, InUse(t) PROVE turn[t].st \in allocated /\ turn[t].st # Nil
BY NilAssumption DEF IInv, TypeOK, StateTypeOK, TurnsOK, TurnOK, InUse

\* A state that is stored is new.
LEMMA StoreIsOwned ==
  ASSUME IInv, Owned, NEW k \in Key, NEW x \in State, NEW a, NEW q, StoreState(k, x, a, q),
         UNCHANGED <<active, made>>,
         \A h \in Handler : NotNew(h)',
         \A t \in Turn :
           /\ Running(t)' => Running(t) /\ turn'[t].key = turn[t].key /\ turn'[t].sess = turn[t].sess
           /\ InUse(t)' => \/ InUse(t) /\ turn'[t].st = turn[t].st
                           \/ turn'[t].st = x /\ turn'[t].key = k
  PROVE  Owned'
<1>1. x \notin allocated /\ stateOf' = [stateOf EXCEPT ![k] = x]
  BY DEF StoreState, Fresh
<1>2. SessionsOwned'
  BY DEF Owned, SessionsOwned
<1>3. \A t \in Turn : InUse(t) => turn[t].st # x /\ turn[t].key \in Key
  BY <1>1, StateIsUsed DEF IInv, TurnsOK, TurnOK, InUse
<1>4. \A l \in Key : stateOf'[l] = IF l = k THEN x ELSE stateOf[l]
  BY <1>1 DEF IInv, TypeOK, StateTypeOK
<1>5. \A l \in Key : stateOf[l] # x
  BY <1>1, NilAssumption DEF IInv, MapOK
<1>6. StatesOwned'
  BY <1>3, <1>4, <1>5 DEF Owned, StatesOwned, InUse, Running
<1>. QED BY <1>2, <1>6 DEF Owned

LEMMA ActiveIsOwned ==
  ASSUME IInv, Owned, NEW k \in Key, NEW s \in Session, GetOrCreateActive(k, s)
  PROVE  /\ \A l \in Key : active'[l] # Nil => active'[l] \in made'
         /\ \A k1, k2 \in Key : active'[k1] # Nil /\ active'[k1] = active'[k2] => k1 = k2
         /\ \A l \in Key : active[l] # Nil => active'[l] = active[l]
         /\ active'[k] = s
<1>1. CASE active[k] = s /\ UNCHANGED <<active, made>>
  BY <1>1 DEF Owned, SessionsOwned
<1>2. CASE /\ active[k] = Nil /\ s \notin made
           /\ active' = [active EXCEPT ![k] = s] /\ made' = made \union {s}
  <2>1. \A l \in Key : active'[l] = IF l = k THEN s ELSE active[l]
    BY <1>2 DEF IInv, TypeOK, SessionTypeOK
  <2>. QED BY <1>2, <2>1 DEF Owned, SessionsOwned
<1>. QED BY <1>1, <1>2 DEF GetOrCreateActive, Fresh

\* The Session of a running turn is no Nil.
LEMMA RunningHasSession ==
  ASSUME IInv, NEW t \in Turn, Running(t)
  PROVE  turn[t].key \in Key /\ turn[t].sess \in Session /\ turn[t].sess # Nil
BY NilAssumption DEF IInv, TurnsOK, TurnOK, Running

LEMMA StartIsOwned ==
  ASSUME IInv, Owned, NEW k \in Key, TryStartTurn(k), UNCHANGED stateOf,
         \A h \in Handler : NotNew(h)'
  PROVE  Owned'
<1>1. PICK s \in Session : TryStartTurn(k)!(s)
  BY DEF TryStartTurn
<1>2. /\ \A l \in Key : active'[l] # Nil => active'[l] \in made'
      /\ \A k1, k2 \in Key : active'[k1] # Nil /\ active'[k1] = active'[k2] => k1 = k2
      /\ \A l \in Key : active[l] # Nil => active'[l] = active[l]
      /\ active'[k] = s
  BY <1>1, ActiveIsOwned
<1>3. \/ UNCHANGED turn
      \/ \E t \in Turn : turn' = [turn EXCEPT ![t] =
                             [IdleTurn EXCEPT !.pc = "start", !.key = k, !.sess = s]]
  BY <1>1
<1>4. \A t \in Turn :
        /\ InUse(t)' => InUse(t) /\ turn'[t] = turn[t]
        /\ Running(t)' => \/ Running(t) /\ turn'[t] = turn[t]
                          \/ turn'[t].key = k /\ turn'[t].sess = s
  BY <1>3, ControlTyped DEF IdleTurn, InUse, Running
<1>5. \A t \in Turn : Running(t)' => active'[turn'[t].key] = turn'[t].sess
  BY <1>2, <1>4, RunningHasSession DEF Owned, SessionsOwned
<1>6. SessionsOwned'
  BY <1>2, <1>5 DEF SessionsOwned
<1>7. StatesOwned'
  BY <1>4 DEF Owned, StatesOwned, InUse
<1>. QED BY <1>6, <1>7 DEF Owned

\* What a handler is asked to do is among the inputs.
LEMMA NoNewIsAsked ==
  ASSUME IInv, Owned, "new" \notin Input, NEW h \in Handler,
         \/ \E k \in Key : HandlerReceive(h, k)
         \/ HandlerStep(h)
  PROVE  \A g \in Handler : NotNew(g)'
<1>1. ASSUME NEW pc, NEW cmd, NEW k, NEW x, HandlerStart(h, pc, cmd, k, x),
             pc \in {"resolve", "cleanup", "finish"} => cmd # "new"
      PROVE  \A g \in Handler : NotNew(g)'
  BY <1>1, ControlTyped DEF HandlerStart, IdleHandler, Owned, SessionsOwned, NotNew
<1>2. ASSUME HandlerDone(h) PROVE \A g \in Handler : NotNew(g)'
  BY <1>2, ControlTyped DEF HandlerDone, IdleHandler, Owned, SessionsOwned, NotNew
<1>3. ASSUME NEW k \in Key, HandlerReceive(h, k) PROVE \A g \in Handler : NotNew(g)'
  <2>1. ASSUME NEW cmd \in Input, ReceiveMessage(h, k, cmd) PROVE \A g \in Handler : NotNew(g)'
    BY <2>1, <1>1 DEF ReceiveMessage, HandlerLock
  <2>2. ASSUME NEW cmd \in Input, CommandCleanup(h, k, cmd) PROVE \A g \in Handler : NotNew(g)'
    BY <2>2, <1>1, <1>2 DEF CommandCleanup
  <2>3. CASE ReceiveStop(h, k) \/ ReceiveQuiet(h, k) \/ ReceiveCompress(h, k)
    BY <2>3, <1>1 DEF ReceiveStop, ReceiveQuiet, ReceiveCompress, HandlerLock
  <2>. QED BY <1>3, <2>1, <2>2, <2>3 DEF HandlerReceive
<1>4. CASE ReadPending(h)
  <2>1. CASE handler' = [handler EXCEPT ![h].pc = "respond", ![h].req = pending[handler[h].st]]
    BY <2>1, ControlTyped DEF HandlerRecord, Owned, SessionsOwned, NotNew
  <2>. QED BY <1>1, <1>2, <1>4, <2>1 DEF ReadPending, HandlerLock
<1>5. CASE RespondToAgent(h) \/ StopCleanup(h)
  BY <1>5, ControlTyped
     DEF RespondToAgent, StopCleanup, HandlerGoto, HandlerRecord, Owned, SessionsOwned, NotNew
<1>6. CASE StopResolve(h)
  BY <1>6, ControlTyped DEF StopResolve, HandlerRecord, Owned, SessionsOwned, NotNew
<1>7. CASE \/ ClearPending(h) \/ LockSession(h) \/ FinishNew(h) \/ FinishSwitch(h)
           \/ FinishModel(h) \/ FinishStop(h) \/ ToggleQuiet(h)
  BY <1>7, <1>2 DEF ClearPending, LockSession, FinishNew, FinishSwitch, FinishModel, FinishStop, ToggleQuiet
<1>. QED BY <1>3, <1>4, <1>5, <1>6, <1>7 DEF HandlerStep

\* Turns stay as they are, but for their control.
Stays(t) ==
  /\ Running(t)' => Running(t) /\ turn'[t].key = turn[t].key /\ turn'[t].sess = turn[t].sess
  /\ InUse(t)' => InUse(t) /\ turn'[t].st = turn[t].st

LEMMA HandlerKeepsOwned ==
  ASSUME IInv, Owned, "new" \notin Input, NEW h \in Handler,
         \/ \E k \in Key : HandlerReceive(h, k)
         \/ HandlerStep(h)
  PROVE  Owned'
<1>1. \A g \in Handler : NotNew(g)'
  BY NoNewIsAsked
<1>2. ASSUME UNCHANGED <<active, made, turn>>, \A k \in Key : stateOf'[k] \in {stateOf[k], Nil}
      PROVE  Owned'
  BY <1>1, <1>2, OwnedKept, StateIsUsed DEF Running, InUse
<1>3. ASSUME NEW k \in Key, HandlerReceive(h, k) PROVE Owned'
  <2>1. CASE UNCHANGED stateOf
    BY <1>2, <1>3, <2>1 DEF HandlerReceive, ReceiveMessage, CommandCleanup, ReceiveStop, ReceiveQuiet, ReceiveCompress
  <2>2. CASE CleanupInteractiveState(k) /\ UNCHANGED <<active, made, turn>>
    BY <1>2, <2>2 DEF CleanupInteractiveState, IInv, TypeOK, StateTypeOK
  <2>. QED BY <1>3, <2>1, <2>2
       DEF HandlerReceive, ReceiveMessage, CommandCleanup, ReceiveStop, ReceiveQuiet, ReceiveCompress
<1>4. ASSUME HandlerStep(h), handler[h].pc # "idle" PROVE Owned'
  <2>. DEFINE k == handler[h].key
  <2>1. k \in Key
    BY <1>4 DEF IInv, HandlersOK, HandlerOK
  <2>2. CASE ReadPending(h) \/ RespondToAgent(h) \/ ClearPending(h) \/ StopResolve(h)
    BY <1>2, <2>2 DEF ReadPending, RespondToAgent, ClearPending, StopResolve
  <2>3. CASE LockSession(h)
    BY <1>1, <2>1, <2>3, StartIsOwned DEF LockSession
  <2>4. CASE FinishNew(h)
    BY <2>4 DEF FinishNew, Owned, SessionsOwned, NotNew
  <2>5. CASE FinishSwitch(h) \/ FinishModel(h)
    <3>1. PICK s \in Session : GetOrCreateActive(k, s)
      BY <2>5 DEF FinishSwitch, FinishModel
    <3>2. UNCHANGED <<stateOf, turn>>
      BY <2>5 DEF FinishSwitch, FinishModel
    <3>3. \A t \in Turn : Running(t)' => active'[turn'[t].key] = turn'[t].sess
      BY <2>1, <3>1, <3>2, ActiveIsOwned, RunningHasSession DEF Running, Owned, SessionsOwned
    <3>4. SessionsOwned'
      BY <1>1, <2>1, <3>1, <3>3, ActiveIsOwned DEF SessionsOwned
    <3>. QED BY <3>2, <3>4 DEF Owned, StatesOwned, InUse
  <2>6. CASE StopCleanup(h)
    BY <1>2, <2>6, <2>1 DEF StopCleanup, CleanupInteractiveState, IInv, TypeOK, StateTypeOK
  <2>7. CASE FinishStop(h) \/ ToggleQuiet(h)
    <3>1. CASE UNCHANGED stateOf
      BY <1>2, <2>7, <3>1 DEF FinishStop, ToggleQuiet
    <3>2. ASSUME NEW y \in State, StoreState(k, y, Nil, TRUE) PROVE Owned'
      BY <1>1, <2>1, <2>7, <3>2, StoreIsOwned DEF FinishStop, ToggleQuiet, Running, InUse
    <3>. QED BY <2>7, <3>1, <3>2 DEF FinishStop, ToggleQuiet
  <2>. QED BY <1>4, <2>2, <2>3, <2>4, <2>5, <2>6, <2>7 DEF HandlerStep
<1>5. HandlerStep(h) => handler[h].pc # "idle"
  BY DEF HandlerStep, ReadPending, RespondToAgent, ClearPending, LockSession, FinishNew, FinishSwitch,
     FinishModel, StopResolve, StopCleanup, FinishStop, ToggleQuiet
<1>. QED BY <1>3, <1>4, <1>5

LEMMA TurnKeepsOwned ==
  ASSUME IInv, Owned, NEW t \in Turn, TurnStep(t)
  PROVE  Owned'
<1>. DEFINE k == turn[t].key
<1>1. turn[t].pc # "idle" /\ k \in Key
  BY DEF IInv, TurnsOK, TurnOK, TurnStep, BeginTurn, ReuseState, EnterCreate, SkipCreate,
     StartSession, StartSessionFails, SendPrompt, SendFails, RestartAgent, Receive, TextEvent,
     AutoApprove, PromptUser, SetPending, PermissionResolved, ResultEvent, ErrorEvent, ChannelClosed,
     IdleTimeout, ContextDone, UnlockSession
<1>2. UNCHANGED <<active, made, handler>>
  BY DEF TurnStep, BeginTurn, ReuseState, EnterCreate, SkipCreate,
     StartSession, StartSessionFails, SendPrompt, SendFails, RestartAgent, Receive, TextEvent,
     AutoApprove, PromptUser, SetPending, PermissionResolved, ResultEvent, ErrorEvent, ChannelClosed,
     IdleTimeout, ContextDone, UnlockSession
<1>3. \A h \in Handler : NotNew(h)'
  BY <1>2 DEF Owned, SessionsOwned, NotNew
<1>4. ASSUME \A u \in Turn : Stays(u), \A l \in Key : stateOf'[l] \in {stateOf[l], Nil}
      PROVE  Owned'
  BY <1>2, <1>3, <1>4, OwnedKept, StateIsUsed DEF Stays
<1>5. ASSUME NEW pc \in TurnPC, TurnGoto(t, pc), pc \in {"send", "loop", "prompt", "wait"} => InUse(t)
      PROVE  \A u \in Turn : Stays(u)
  BY <1>1, <1>5, ControlTyped DEF TurnGoto, TurnRecord, Stays, InUse, Running
<1>6. CASE BeginTurn(t) \/ EnterCreate(t) \/ SendFails(t) \/ ContextDone(t) \/ ResultEvent(t)
           \/ ErrorEvent(t) \/ SendPrompt(t) \/ SetPending(t)
  <2>1. UNCHANGED stateOf
    BY <1>6 DEF BeginTurn, EnterCreate, SendFails, ContextDone, ResultEvent, ErrorEvent, SendPrompt, SetPending
  <2>2. \E pc \in TurnPC : TurnGoto(t, pc) /\ (pc \in {"send", "loop", "prompt", "wait"} => InUse(t))
    BY <1>6 DEF BeginTurn, EnterCreate, SendFails, ContextDone, ResultEvent, ErrorEvent, SendPrompt,
       SetPending, TurnPC, InUse
  <2>. QED BY <2>1, <2>2, <1>4, <1>5
<1>7. CASE ChannelClosed(t) \/ IdleTimeout(t)
  <2>1. CleanupInteractiveState(k) /\ TurnGoto(t, "unlock")
    BY <1>7 DEF ChannelClosed, IdleTimeout
  <2>. QED BY <2>1, <1>4, <1>5 DEF CleanupInteractiveState, TurnPC, IInv, TypeOK, StateTypeOK
<1>8. CASE RestartAgent(t)
  <2>1. CleanupInteractiveState(k)
        /\ turn' = [turn EXCEPT ![t].pc = "create", ![t].st = Nil, ![t].retried = TRUE]
    BY <1>8 DEF RestartAgent
  <2>2. \A u \in Turn : Stays(u)
    BY <1>1, <2>1, ControlTyped DEF TurnRecord, Stays, InUse, Running
  <2>. QED BY <2>1, <2>2, <1>4 DEF CleanupInteractiveState, IInv, TypeOK, StateTypeOK
<1>9. CASE TextEvent(t) \/ AutoApprove(t)
  BY <1>4, <1>9 DEF TextEvent, AutoApprove, Stays, InUse, Running
<1>10. CASE PromptUser(t) \/ PermissionResolved(t) \/ UnlockSession(t)
  <2>1. \A u \in Turn : Stays(u)
    BY <1>1, <1>10, ControlTyped DEF PromptUser, Receive, PermissionResolved, UnlockSession, IdleTurn,
       TurnRecord, Stays, InUse, Running
  <2>. QED BY <1>4, <1>10, <2>1 DEF PromptUser, PermissionResolved, UnlockSession
<1>11. CASE ReuseState(t)
  <2>1. /\ stateOf[k] # Nil /\ UNCHANGED stateOf /\ turn[t].pc = "create"
        /\ turn' = [turn EXCEPT ![t].pc = "send", ![t].st = stateOf[k]]
    BY <1>11 DEF ReuseState, EntryAgent
  <2>2. \A u \in Turn \ {t} : turn'[u] = turn[u]
    BY <2>1, ControlTyped
  <2>3. turn'[t].pc = "send" /\ turn'[t].st = stateOf[k] /\ turn'[t].key = k
        /\ turn'[t].sess = turn[t].sess
    BY <2>1, ControlTyped DEF TurnRecord
  <2>4. SessionsOwned'
    BY <1>1, <1>2, <1>3, <2>2, <2>3 DEF Owned, SessionsOwned, Running
  <2>5. \A l \in Key : stateOf[l] = stateOf[k] => l = k
    BY <1>1, <2>1 DEF IInv, ClosesOK
  <2>6. \A u \in Turn \ {t} : InUse(u)' => InUse(u)
    BY <2>2 DEF InUse
  <2>7. ASSUME NEW u \in Turn, NEW l \in Key, InUse(u)', stateOf[l] = turn'[u].st
        PROVE  l = turn'[u].key
    <3>1. CASE u = t
      BY <2>3, <2>5, <2>7, <3>1
    <3>2. CASE u # t
      BY <2>2, <2>6, <2>7, <3>2 DEF Owned, StatesOwned
    <3>. QED BY <3>1, <3>2
  <2>8. ASSUME NEW u \in Turn \ {t}, NEW v \in Turn \ {t}, InUse(u)', InUse(v)',
               turn'[u].st = turn'[v].st
        PROVE  turn'[u].key = turn'[v].key
    BY <2>2, <2>6, <2>8 DEF Owned, StatesOwned
  <2>9. ASSUME NEW u \in Turn \ {t}, InUse(u)', turn'[u].st = turn'[t].st
        PROVE  turn'[u].key = k
    BY <1>1, <2>1, <2>3, <2>7, <2>9
  <2>10. StatesOwned'
    <3>1. stateOf' = stateOf
      BY <2>1
    <3>2. ASSUME NEW u \in Turn, NEW v \in Turn, InUse(u)', InUse(v)', turn'[u].st = turn'[v].st
          PROVE  turn'[u].key = turn'[v].key
      BY <2>3, <2>8, <2>9, <3>2
    <3>. QED BY <2>7, <3>1, <3>2 DEF StatesOwned
  <2>. QED BY <2>4, <2>10 DEF Owned
<1>12. CASE SkipCreate(t) \/ StartSession(t) \/ StartSessionFails(t)
  <2>1. PICK x \in State, a \in Agent \union {Nil}, q \in BOOLEAN :
          /\ StoreState(k, x, a, q)
          /\ turn' = [turn EXCEPT ![t].pc = "send", ![t].st = x]
    <3>1. EntryQuiet(k) \in BOOLEAN
      BY <1>1 DEF EntryQuiet, IInv, TypeOK, StateTypeOK
    <3>2. CASE StartSession(t)
      <4>1. PICK x \in State, a \in Agent :
              /\ StoreState(k, x, a, EntryQuiet(k))
              /\ turn' = [turn EXCEPT ![t].pc = "send", ![t].st = x]
        BY <3>2 DEF StartSession
      <4>. QED BY <3>1, <4>1
    <3>3. CASE SkipCreate(t) \/ StartSessionFails(t)
      BY <3>1, <3>3 DEF SkipCreate, StartSessionFails
    <3>. QED BY <1>12, <3>2, <3>3
  <2>2. \A u \in Turn :
          /\ Running(u)' => Running(u) /\ turn'[u].key = turn[u].key /\ turn'[u].sess = turn[u].sess
          /\ InUse(u)' => \/ InUse(u) /\ turn'[u].st = turn[u].st
                          \/ turn'[u].st = x /\ turn'[u].key = k
    BY <1>1, <2>1, ControlTyped DEF TurnRecord, InUse, Running
  <2>. QED BY <1>1, <1>2, <1>3, <2>1, <2>2, StoreIsOwned
<1>. QED BY <1>6, <1>7, <1>8, <1>9, <1>10, <1>11, <1>12 DEF TurnStep

LEMMA NextOwned ==
  ASSUME IInv, Owned, "new" \notin Input, [Next]_vars
  PROVE  Owned'
<1>1. ASSUME UNCHANGED <<active, made, handler, turn>>, \A l \in Key : stateOf'[l] \in {stateOf[l], Nil}
      PROVE  Owned'
  BY <1>1, OwnedKept, StateIsUsed DEF Owned, SessionsOwned, NotNew, Running, InUse
<1>2. CASE UNCHANGED vars
  BY <1>1, <1>2 DEF vars
<1>3. CASE \E a \in Agent : AgentStep(a)
  BY <1>1, <1>3 DEF AgentStep, AgentText, AgentAsk, AgentFinish, AgentExit, AgentCloseEvents
<1>4. CASE CancelContext \/ StopStates
  BY <1>1, <1>4 DEF CancelContext, StopStates
<1>5. CASE \E k \in Key : ExecuteCronJob(k)
  BY <1>5, StartIsOwned DEF ExecuteCronJob, Owned, SessionsOwned, NotNew
<1>. QED BY <1>2, <1>3, <1>4, <1>5, HandlerKeepsOwned, TurnKeepsOwned DEF Next

-----------------------------------------------------------------------------
(* The requests.                                                           *)

Asks(a, i, r) == chan[a][i].type = "permission" /\ chan[a][i].req = r

\* The requests in the channels.
Queued == {r \in Request : \E a \in Agent : \E i \in 1..Len(chan[a]) : Asks(a, i, r)}

\* No request is in a channel twice.
NoRepeats ==
  \A a \in Agent : \A i, j \in 1..Len(chan[a]) : \A r \in Request :
    Asks(a, i, r) /\ Asks(a, j, r) => i = j

\* A request nobody has seen yet was neither decided nor resolved.
Unseen(r) == answers[r] = 0 /\ r \notin resolved

Asked(t, r) == turn[t].pc \in {"prompt", "wait"} /\ turn[t].req = r
Waits(t, r) == turn[t].pc = "wait" /\ turn[t].req = r /\ r \notin resolved
Clears(h, r) == handler[h].pc = "clear" /\ handler[h].req = r

QueueOK ==
  /\ NoRepeats
  /\ \A r \in Request : asker[r] = Nil \/ r \in Queued => Unseen(r)
  /\ \A r \in Queued : \A t \in Turn : ~Asked(t, r)
  /\ \A t \in Turn : turn[t].pc = "prompt" => Unseen(turn[t].req)

\* The entry of pending is the request its turn waits for, and the other way round.
WaitOK ==
  /\ \A t \in Turn, r \in Request : Waits(t, r) => pending[turn[t].st] = r
  /\ \A x \in State : pending[x] # Nil =>
       \E t \in Turn : Waits(t, pending[x]) /\ turn[t].st = x

\* What a handler read is still pending when it clears it, and was not decided by
\* anybody else.
DecisionOK ==
  /\ \A h \in Handler : handler[h].pc \in {"respond", "clear"} => pending[handler[h].st] = handler[h].req
  /\ \A h \in Handler : handler[h].pc = "respond" => answers[handler[h].req] = 0
  /\ \A t \in Turn, r \in Request :
       Waits(t, r) /\ (\A h \in Handler : ~Clears(h, r)) => answers[r] = 0
  /\ OneDecision

PermissionsOK == QueueOK /\ WaitOK /\ DecisionOK

-----------------------------------------------------------------------------
\* A step that puts nothing into a channel, leaves decisions alone and neither
\* begins nor ends the asking of a user.
LEMMA PermissionsKept ==
  ASSUME PermissionsOK, UNCHANGED <<pending, resolved, answers>>,
         \A r \in Request : asker'[r] = asker[r],
         Queued' \subseteq Queued, NoRepeats',
         \A t \in Turn :
           /\ turn'[t].pc \in {"prompt", "wait"} => turn'[t] = turn[t]
           /\ turn[t].pc = "wait" => turn'[t] = turn[t],
         \A h \in Handler :
           /\ handler'[h].pc \in {"respond", "clear"} => handler'[h] = handler[h]
           /\ handler[h].pc = "clear" => handler'[h] = handler[h]
  PROVE  PermissionsOK'
<1>1. \A r \in Request : Unseen(r)' = Unseen(r)
  BY DEF Unseen
<1>2. QueueOK'
  BY <1>1 DEF PermissionsOK, QueueOK, Asked, Unseen
<1>3. WaitOK'
  BY DEF PermissionsOK, WaitOK, Waits
<1>4. DecisionOK'
  BY DEF PermissionsOK, DecisionOK, Waits, Clears, OneDecision
<1>. QED BY <1>2, <1>3, <1>4 DEF PermissionsOK

\* The channels, when they stay as they are, ...
LEMMA QueuedKept == ASSUME PermissionsOK, UNCHANGED chan PROVE Queued' = Queued /\ NoRepeats'
BY DEF PermissionsOK, QueueOK, Queued, NoRepeats, Asks

\* ... lose their first event ...
LEMMA TailQueued ==
  ASSUME IInv, PermissionsOK, NEW a \in Agent, chan[a] # <<>>, chan' = [chan EXCEPT ![a] = Tail(@)]
  PROVE  /\ Queued' \subseteq Queued /\ NoRepeats'
         /\ Head(chan[a]).type = "permission" =>
              /\ Head(chan[a]).req \in Queued
              /\ Head(chan[a]).req \notin Queued'
              /\ asker[Head(chan[a]).req] = a
<1>1. chan[a] \in Seq(Event)
  BY DEF IInv, TypeOK, AgentTypeOK
<1>2. chan'[a] = Tail(chan[a]) /\ \A b \in Agent \ {a} : chan'[b] = chan[b]
  BY DEF IInv, TypeOK, AgentTypeOK
<1>3. /\ Len(chan[a]) \in Nat \ {0} /\ Len(chan'[a]) = Len(chan[a]) - 1
      /\ Head(chan[a]) = chan[a][1]
      /\ \A i \in 1..Len(chan'[a]) : i + 1 \in 2..Len(chan[a]) /\ chan'[a][i] = chan[a][i + 1]
  <2>1. Len(chan[a]) \in Nat \ {0}
    BY <1>1, EmptySeq, LenProperties
  <2>2. /\ Len(Tail(chan[a])) = Len(chan[a]) - 1 /\ Head(chan[a]) = chan[a][1]
        /\ \A i \in 1..Len(Tail(chan[a])) : Tail(chan[a])[i] = chan[a][i + 1]
    BY <1>1, HeadTailProperties
  <2>3. \A n \in Nat \ {0} : \A i \in 1..(n - 1) : i + 1 \in 2..n
    OBVIOUS
  <2>4. \A i \in 1..Len(chan'[a]) : i + 1 \in 2..Len(chan[a]) /\ chan'[a][i] = chan[a][i + 1]
    <3>1. Len(chan'[a]) = Len(chan[a]) - 1
      BY <1>2, <2>2
    <3>2. \A i \in 1..Len(chan'[a]) : i + 1 \in 2..Len(chan[a])
      BY <2>1, <2>3, <3>1
    <3>3. \A i \in 1..Len(chan'[a]) : chan'[a][i] = chan[a][i + 1]
      BY <1>2, <2>2, Zenon
    <3>. QED BY <3>2, <3>3
  <2>5. Len(chan'[a]) = Len(chan[a]) - 1
    BY <1>2, <2>2
  <2>. QED BY <2>1, <2>2, <2>4, <2>5
<1>4. ASSUME NEW i \in 1..Len(chan'[a]), NEW r \in Request, Asks(a, i, r)'
      PROVE  i + 1 \in 2..Len(chan[a]) /\ Asks(a, i + 1, r)
  BY <1>3, <1>4 DEF Asks
<1>5. ASSUME NEW b \in Agent \ {a}, NEW i \in 1..Len(chan'[b]), NEW r \in Request, Asks(b, i, r)'
      PROVE  i \in 1..Len(chan[b]) /\ Asks(b, i, r)
  BY <1>2, <1>5 DEF Asks
<1>6. Queued' \subseteq Queued
  <2>. SUFFICES ASSUME NEW r \in Request, NEW b \in Agent, NEW i \in 1..Len(chan'[b]), Asks(b, i, r)'
                PROVE  \E j \in 1..Len(chan[b]) : Asks(b, j, r)
    BY DEF Queued
  <2>1. CASE b = a
    BY <1>3, <1>4, <2>1
  <2>. QED BY <1>5, <2>1
<1>7. NoRepeats'
  <2>. SUFFICES ASSUME NEW b \in Agent, NEW i \in 1..Len(chan'[b]), NEW j \in 1..Len(chan'[b]),
                       NEW r \in Request, Asks(b, i, r)', Asks(b, j, r)'
                PROVE  i = j
    BY DEF NoRepeats
  <2>1. CASE b = a
    <3>1. /\ i + 1 \in 1..Len(chan[a]) /\ Asks(a, i + 1, r)
          /\ j + 1 \in 1..Len(chan[a]) /\ Asks(a, j + 1, r)
      BY <1>3, <1>4, <2>1
    <3>2. i + 1 = j + 1
      BY <3>1 DEF PermissionsOK, QueueOK, NoRepeats
    <3>. QED BY <3>2, <2>1, <1>3
  <2>2. CASE b # a
    BY <1>5, <2>2 DEF PermissionsOK, QueueOK, NoRepeats
  <2>. QED BY <2>1, <2>2
<1>8. ASSUME NEW r \in Request, Head(chan[a]).type = "permission", Head(chan[a]).req = r
      PROVE  r \in Queued /\ r \notin Queued' /\ asker[r] = a
  <2>1. 1 \in 1..Len(chan[a]) /\ Asks(a, 1, r)
    BY <1>3, <1>8 DEF Asks
  <2>2. asker[r] = a
    BY <2>1 DEF Asks, IInv, EventsOK
  <2>3. ASSUME NEW b \in Agent, NEW i \in 1..Len(chan'[b]), Asks(b, i, r)' PROVE FALSE
    <3>1. CASE b = a
      <4>1. i + 1 \in 2..Len(chan[a]) /\ Asks(a, i + 1, r)
        BY <1>4, <2>3, <3>1
      <4>2. i + 1 = 1
        BY <1>3, <2>1, <4>1 DEF PermissionsOK, QueueOK, NoRepeats
      <4>. QED BY <4>1, <4>2
    <3>2. CASE b # a
      <4>1. i \in 1..Len(chan[b]) /\ Asks(b, i, r)
        BY <1>5, <2>3, <3>2
      <4>2. asker[r] = b
        BY <4>1 DEF Asks, IInv, EventsOK
      <4>. QED BY <2>2, <3>2, <4>2
    <3>. QED BY <3>1, <3>2
  <2>4. r \in Queued
    BY <2>1 DEF Queued
  <2>. QED BY <2>2, <2>3, <2>4 DEF Queued
<1>9. Head(chan[a]).type = "permission" => Head(chan[a]).req \in Request
  BY <1>3 DEF IInv, EventsOK
<1>. QED BY <1>6, <1>7, <1>8, <1>9

\* ... or get one more.
LEMMA AppendQueued ==
  ASSUME IInv, PermissionsOK, NEW a \in Agent, NEW e \in Event,
         chan' = [chan EXCEPT ![a] = Append(@, e)],
         e.type = "permission" => asker[e.req] = Nil
  PROVE  /\ NoRepeats'
         /\ e.type # "permission" => Queued' \subseteq Queued
         /\ e.type = "permission" => Queued' \subseteq Queued \union {e.req}
<1>1. chan[a] \in Seq(Event) /\ Len(chan[a]) \in Nat
  BY LenProperties DEF IInv, TypeOK, AgentTypeOK
<1>2. chan'[a] = Append(chan[a], e) /\ \A b \in Agent \ {a} : chan'[b] = chan[b]
  BY DEF IInv, TypeOK, AgentTypeOK
<1>3. /\ Len(chan'[a]) = Len(chan[a]) + 1 /\ chan'[a][Len(chan[a]) + 1] = e
      /\ \A i \in 1..Len(chan[a]) : chan'[a][i] = chan[a][i]
  BY <1>1, <1>2, AppendProperties
<1>4. ASSUME NEW b \in Agent, NEW i \in 1..Len(chan'[b]), NEW r \in Request, Asks(b, i, r)'
      PROVE  \/ i \in 1..Len(chan[b]) /\ Asks(b, i, r)
             \/ b = a /\ i = Len(chan[a]) + 1 /\ e.type = "permission" /\ e.req = r
  <2>1. CASE b = a
    <3>1. CASE i \in 1..Len(chan[a])
      BY <1>3, <1>4, <2>1, <3>1 DEF Asks
    <3>2. CASE i = Len(chan[a]) + 1
      BY <1>3, <1>4, <2>1, <3>2 DEF Asks
    <3>. QED BY <1>1, <1>3, <2>1, <3>1, <3>2
  <2>. QED BY <1>2, <1>4, <2>1 DEF Asks
<1>5. ASSUME NEW b \in Agent, NEW i \in 1..Len(chan[b]), NEW r \in Request, Asks(b, i, r)
      PROVE  asker[r] = b /\ b # Nil
  BY <1>5, NilAssumption DEF Asks, IInv, EventsOK
<1>6. NoRepeats'
  <2>. SUFFICES ASSUME NEW b \in Agent, NEW i \in 1..Len(chan'[b]), NEW j \in 1..Len(chan'[b]),
                       NEW r \in Request, Asks(b, i, r)', Asks(b, j, r)'
                PROVE  i = j
    BY DEF NoRepeats
  <2>1. CASE e.type = "permission" /\ e.req = r
    BY <1>4, <1>5, <2>1
  <2>2. CASE ~(e.type = "permission" /\ e.req = r)
    <3>1. /\ i \in 1..Len(chan[b]) /\ Asks(b, i, r)
          /\ j \in 1..Len(chan[b]) /\ Asks(b, j, r)
      BY <1>4, <2>2
    <3>. QED BY <3>1 DEF PermissionsOK, QueueOK, NoRepeats
  <2>. QED BY <2>1, <2>2
<1>7. ASSUME NEW r \in Queued' PROVE r \in Queued \/ (e.type = "permission" /\ r = e.req)
  BY <1>4 DEF Queued
<1>. QED BY <1>6, <1>7

-----------------------------------------------------------------------------
\* A request is pending in one state.
LEMMA OnePending ==
  ASSUME IInv, NEW x \in State, NEW y \in State, pending[x] # Nil, pending[x] = pending[y]
  PROVE  x = y
BY NilAssumption DEF IInv, PendingOK, ClosesOK

\* A handler that neither decides nor resolves a request.
LEMMA HandlerKeepsPermissions ==
  ASSUME IInv, PermissionsOK, OneHandler, NEW h \in Handler,
         \/ \E k \in Key : HandlerReceive(h, k)
         \/ /\ HandlerStep(h)
            /\ ~(ReadPending(h) \/ RespondToAgent(h) \/ ClearPending(h) \/ StopResolve(h))
  PROVE  PermissionsOK'
<1>1. ASSUME UNCHANGED <<pending, resolved, answers, asker, chan>>,
             handler'[h].pc \notin {"respond", "clear"}, handler[h].pc # "clear",
             \A t \in Turn : turn'[t] = turn[t] \/ (turn[t].pc = "idle" /\ turn'[t].pc = "start")
      PROVE  PermissionsOK'
  <2>1. Queued' = Queued /\ NoRepeats'
    BY <1>1, QueuedKept
  <2>2. \A g \in Handler : g = h
    BY DEF OneHandler
  <2>. QED BY <1>1, <2>1, <2>2, PermissionsKept
<1>2. ASSUME NEW pc, NEW cmd, NEW k, NEW x, HandlerStart(h, pc, cmd, k, x)
      PROVE  handler'[h].pc = pc
  BY <1>2, ControlTyped DEF HandlerStart, IdleHandler
<1>3. ASSUME HandlerDone(h) PROVE handler'[h].pc = "idle"
  BY <1>3, ControlTyped DEF HandlerDone, IdleHandler
<1>4. ASSUME NEW k \in Key, HandlerReceive(h, k) PROVE PermissionsOK'
  <2>1. UNCHANGED <<pending, resolved, answers, asker, chan, turn>> /\ handler[h].pc = "idle"
    BY <1>4 DEF HandlerReceive, ReceiveMessage, CommandCleanup, ReceiveStop, ReceiveQuiet,
       ReceiveCompress, Arrive, CleanupInteractiveState
  <2>2. handler'[h].pc \notin {"respond", "clear"}
    <3>1. ASSUME NEW cmd \in Input, ReceiveMessage(h, k, cmd)
          PROVE  handler'[h].pc \notin {"respond", "clear"}
      BY <3>1, <1>2 DEF ReceiveMessage, HandlerLock
    <3>2. ASSUME NEW cmd \in Input, CommandCleanup(h, k, cmd)
          PROVE  handler'[h].pc \notin {"respond", "clear"}
      BY <3>2, <1>2, <1>3 DEF CommandCleanup
    <3>3. CASE ReceiveStop(h, k) \/ ReceiveQuiet(h, k) \/ ReceiveCompress(h, k)
      BY <3>3, <1>2 DEF ReceiveStop, ReceiveQuiet, ReceiveCompress, HandlerLock
    <3>. QED BY <1>4, <3>1, <3>2, <3>3 DEF HandlerReceive
  <2>. QED BY <1>1, <2>1, <2>2
<1>5. CASE LockSession(h)
  <2>1. PICK s \in Session : TryStartTurn(handler[h].key)!(s)
    BY <1>5 DEF LockSession, TryStartTurn
  <2>2. \A t \in Turn : turn'[t] = turn[t] \/ (turn[t].pc = "idle" /\ turn'[t].pc = "start")
    BY <2>1, ControlTyped DEF IdleTurn
  <2>. QED BY <1>1, <1>3, <1>5, <2>2 DEF LockSession
<1>6. CASE FinishNew(h) \/ FinishSwitch(h) \/ FinishModel(h) \/ FinishStop(h) \/ ToggleQuiet(h)
  BY <1>1, <1>3, <1>6 DEF FinishNew, FinishSwitch, FinishModel, FinishStop, ToggleQuiet, StoreState
<1>7. CASE StopCleanup(h)
  BY <1>1, <1>7, ControlTyped DEF StopCleanup, CleanupInteractiveState, HandlerGoto, HandlerRecord
<1>. QED BY <1>4, <1>5, <1>6, <1>7 DEF HandlerStep

\* The one who waits for a request.
LEMMA OneWaits ==
  ASSUME IInv, Owned, NEW r \in Request, NEW t \in Turn, NEW u \in Turn, Asked(t, r), Asked(u, r)
  PROVE  t = u
BY OneTurnPerRequest DEF Asked

\* A handler reads the request its state waits for: nobody decided it yet ...
LEMMA ReadKeepsPermissions ==
  ASSUME IInv, PermissionsOK, OneHandler, NEW h \in Handler, ReadPending(h)
  PROVE  PermissionsOK'
<1>1. /\ UNCHANGED <<pending, resolved, answers, asker, chan, turn>>
      /\ handler[h].pc = "pending" /\ \A g \in Handler : g = h
  BY DEF ReadPending, OneHandler
<1>2. Queued' = Queued /\ NoRepeats'
  BY <1>1, QueuedKept
<1>3. CASE handler'[h].pc \notin {"respond", "clear"}
  BY <1>1, <1>2, <1>3, PermissionsKept
<1>4. CASE /\ pending[handler[h].st] # Nil
           /\ handler' = [handler EXCEPT ![h].pc = "respond", ![h].req = pending[handler[h].st]]
  <2>. DEFINE x == handler[h].st
  <2>1. x \in State /\ handler'[h].pc = "respond" /\ handler'[h].st = x /\ handler'[h].req = pending[x]
    BY <1>1, <1>4, ControlTyped DEF HandlerRecord, IInv, HandlersOK, HandlerOK, TypeOK, StateTypeOK
  <2>2. PICK t \in Turn : Waits(t, pending[x])
    BY <1>4, <2>1 DEF PermissionsOK, WaitOK
  <2>3. pending[x] \in Request
    BY <1>4, <2>1 DEF IInv, TypeOK, StateTypeOK
  <2>4. answers[pending[x]] = 0
    BY <1>1, <2>2, <2>3 DEF PermissionsOK, DecisionOK, Clears
  <2>5. QueueOK' /\ WaitOK'
    BY <1>1, <1>2 DEF PermissionsOK, QueueOK, WaitOK, Unseen, Asked, Waits
  <2>6. DecisionOK'
    BY <1>1, <2>1, <2>4 DEF PermissionsOK, DecisionOK, OneDecision, Waits, Clears
  <2>. QED BY <2>5, <2>6 DEF PermissionsOK
<1>5. ASSUME NEW pc, NEW cmd, NEW k, NEW x, HandlerStart(h, pc, cmd, k, x)
      PROVE  handler'[h].pc = pc
  BY <1>5, ControlTyped DEF HandlerStart, IdleHandler
<1>6. ASSUME HandlerDone(h) PROVE handler'[h].pc = "idle"
  BY <1>6, ControlTyped DEF HandlerDone, IdleHandler
<1>. QED BY <1>3, <1>4, <1>5, <1>6 DEF ReadPending, HandlerLock

\* ... and its decision is the first one ...
LEMMA RespondKeepsPermissions ==
  ASSUME IInv, Owned, PermissionsOK, OneHandler, NEW h \in Handler, RespondToAgent(h)
  PROVE  PermissionsOK'
<1>. DEFINE r == handler[h].req
            x == handler[h].st
<1>1. /\ UNCHANGED <<pending, resolved, asker, chan, turn>>
      /\ handler[h].pc = "respond" /\ \A g \in Handler : g = h
  BY DEF RespondToAgent, RespondPermission, OneHandler
<1>2. r \in Request /\ x \in State
  BY <1>1 DEF IInv, HandlersOK, HandlerOK, TypeOK, StateTypeOK
<1>3. handler'[h].pc = "clear" /\ handler'[h].st = x /\ handler'[h].req = r
  BY <1>1, ControlTyped DEF RespondToAgent, HandlerGoto, HandlerRecord
<1>4. \A q \in Request : answers'[q] = answers[q] \/ (q = r /\ answers'[q] = answers[q] + 1)
  BY <1>2 DEF RespondToAgent, RespondPermission, IInv, TypeOK, RequestTypeOK
<1>5. Queued' = Queued /\ NoRepeats'
  BY <1>1, QueuedKept
<1>6. pending[x] = r /\ r # Nil /\ answers[r] = 0
  BY <1>1, <1>2, NilAssumption DEF PermissionsOK, DecisionOK
<1>7. PICK t \in Turn : Waits(t, r)
  BY <1>2, <1>6 DEF PermissionsOK, WaitOK
<1>8. r \notin Queued /\ asker[r] # Nil
  BY <1>2, <1>7, NilAssumption DEF PermissionsOK, QueueOK, Waits, Asked, IInv, TurnsOK, TurnOK
<1>9. \A u \in Turn : turn[u].pc = "prompt" => turn[u].req # r /\ turn[u].req \in Request
  BY <1>2, <1>7, OneWaits DEF Waits, Asked, IInv, TurnsOK, TurnOK
<1>10. QueueOK'
  <2>1. \A q \in Request : q # r => Unseen(q)' = Unseen(q)
    BY <1>1, <1>4 DEF Unseen
  <2>. QED BY <1>1, <1>5, <1>8, <1>9, <2>1 DEF PermissionsOK, QueueOK, Asked
<1>11. WaitOK'
  BY <1>1 DEF PermissionsOK, WaitOK, Waits
<1>12. DecisionOK'
  BY <1>1, <1>2, <1>3, <1>4, <1>6 DEF PermissionsOK, DecisionOK, OneDecision, Waits, Clears
<1>. QED BY <1>10, <1>11, <1>12 DEF PermissionsOK

\* ... until the request is resolved, by the handler or by /stop.
LEMMA ResolveKeepsPermissions ==
  ASSUME IInv, Owned, PermissionsOK, OneHandler, NEW h \in Handler, NEW x \in State,
         NEW r \in Request \union {Nil}, pending[x] = r,
         pending' = [pending EXCEPT ![x] = Nil], resolved' = resolved \union ({r} \ {Nil}),
         UNCHANGED <<answers, asker, chan, turn>>,
         handler[h].pc = "clear" => handler[h].req = r,
         handler'[h].pc \notin {"respond", "clear"}
  PROVE  PermissionsOK'
<1>1. \A g \in Handler : g = h
  BY DEF OneHandler
<1>2. Queued' = Queued /\ NoRepeats'
  BY QueuedKept
<1>3. \A y \in State : pending'[y] = IF y = x THEN Nil ELSE pending[y]
  BY DEF IInv, TypeOK, StateTypeOK
<1>4. ASSUME r # Nil
      PROVE  \E t \in Turn : Waits(t, r) /\ turn[t].st = x
  BY <1>4 DEF PermissionsOK, WaitOK
<1>5. \A q \in Request : q # r => (q \in resolved' <=> q \in resolved)
  BY NilAssumption
<1>6. ASSUME r # Nil
      PROVE  r \notin Queued /\ asker[r] # Nil /\ \A u \in Turn : turn[u].pc = "prompt" => turn[u].req # r
  <2>1. PICK t \in Turn : Waits(t, r)
    BY <1>4, <1>6
  <2>2. r \notin Queued /\ asker[r] # Nil
    BY <1>6, <2>1, NilAssumption DEF PermissionsOK, QueueOK, Waits, Asked, IInv, TurnsOK, TurnOK
  <2>3. \A u \in Turn : turn[u].pc = "prompt" => turn[u].req # r
    BY <1>6, <2>1, OneWaits DEF Waits, Asked
  <2>. QED BY <2>2, <2>3
<1>7. QueueOK'
  <2>1. \A q \in Request : q # r => Unseen(q)' = Unseen(q)
    BY <1>5 DEF Unseen
  <2>2. \A u \in Turn : turn[u].pc = "prompt" => turn[u].req \in Request /\ turn[u].req # r
    BY <1>6, NilAssumption DEF IInv, TurnsOK, TurnOK
  <2>3. \A q \in Request : asker[q] = Nil \/ q \in Queued => q # r
    BY <1>6, NilAssumption
  <2>. QED BY <1>2, <2>1, <2>2, <2>3 DEF PermissionsOK, QueueOK, Asked
<1>8. WaitOK'
  <2>1. ASSUME NEW t \in Turn, NEW q \in Request, Waits(t, q)'
        PROVE  pending'[turn[t].st] = q
    <3>1. Waits(t, q) /\ q # r
      BY <2>1, NilAssumption DEF Waits
    <3>2. pending[turn[t].st] = q
      BY <3>1 DEF PermissionsOK, WaitOK
    <3>3. turn[t].st \in State
      BY <3>1 DEF Waits, IInv, TurnsOK, TurnOK, TypeOK, StateTypeOK
    <3>. QED BY <1>3, <3>1, <3>2, <3>3
  <2>2. ASSUME NEW y \in State, pending'[y] # Nil
        PROVE  \E t \in Turn : Waits(t, pending[y])' /\ turn'[t].st = y
    <3>1. y # x /\ pending'[y] = pending[y] /\ pending[y] # Nil
      BY <1>3, <2>2
    <3>2. PICK t \in Turn : Waits(t, pending[y]) /\ turn[t].st = y
      BY <3>1 DEF PermissionsOK, WaitOK
    <3>3. pending[y] # r
      BY <3>1, OnePending
    <3>4. pending[y] \in Request
      BY <3>1 DEF IInv, TypeOK, StateTypeOK
    <3>5. pending[y] \notin resolved'
      BY <1>5, <3>2, <3>3, <3>4 DEF Waits
    <3>. QED BY <3>1, <3>2, <3>5 DEF Waits
  <2>3. \A t \in Turn : turn'[t] = turn[t]
    OBVIOUS
  <2>. QED BY <2>1, <2>2, <2>3 DEF WaitOK
<1>9. DecisionOK'
  <2>1. ASSUME NEW t \in Turn, NEW q \in Request, Waits(t, q)'
        PROVE  answers'[q] = 0
    <3>1. Waits(t, q) /\ q # r
      BY <2>1, NilAssumption DEF Waits
    <3>2. \A g \in Handler : ~Clears(g, q)
      BY <1>1, <3>1 DEF Clears
    <3>. QED BY <3>1, <3>2 DEF PermissionsOK, DecisionOK
  <2>. QED BY <1>1, <2>1 DEF PermissionsOK, DecisionOK, OneDecision
<1>. QED BY <1>7, <1>8, <1>9 DEF PermissionsOK

\* What Receive takes is the head of the channel.
LEMMA ReceiveTakes ==
  ASSUME IInv, PermissionsOK, NEW t \in Turn, NEW type, Receive(t, type)
  PROVE  /\ turn[t].pc = "loop" /\ TurnAgent(t) \in Agent
         /\ Queued' \subseteq Queued /\ NoRepeats'
         /\ type = "permission" =>
              LET r == Head(chan[TurnAgent(t)]).req
              IN  r \in Request /\ r \in Queued /\ r \notin Queued' /\ asker[r] = TurnAgent(t)
<1>1. turn[t].pc = "loop" /\ TurnAgent(t) \in Agent
  BY DEF Receive, TurnAgent, IInv, TurnsOK, TurnOK
<1>. DEFINE a == TurnAgent(t)
<1>2. chan[a] # <<>> /\ Head(chan[a]).type = type /\ chan' = [chan EXCEPT ![a] = Tail(@)]
  BY DEF Receive
<1>3. /\ Queued' \subseteq Queued /\ NoRepeats'
      /\ type = "permission" =>
           /\ Head(chan[a]).req \in Queued /\ Head(chan[a]).req \notin Queued'
           /\ asker[Head(chan[a]).req] = a
  BY <1>1, <1>2, TailQueued
<1>. QED BY <1>1, <1>3 DEF Queued

\* A turn that neither asks a user nor decides.
LEMMA TurnKeepsPermissions ==
  ASSUME IInv, PermissionsOK, NEW t \in Turn, TurnStep(t),
         ~(AutoApprove(t) \/ PromptUser(t) \/ SetPending(t) \/ PermissionResolved(t))
  PROVE  PermissionsOK'
<1>1. ASSUME UNCHANGED <<pending, resolved, answers, asker, handler>>,
             Queued' \subseteq Queued, NoRepeats',
             turn'[t].pc \notin {"prompt", "wait"}, turn[t].pc # "wait",
             \A u \in Turn \ {t} : turn'[u] = turn[u]
      PROVE  PermissionsOK'
  BY <1>1, PermissionsKept
<1>2. ASSUME NEW pc \in TurnPC, TurnGoto(t, pc)
      PROVE  turn'[t].pc = pc /\ \A u \in Turn \ {t} : turn'[u] = turn[u]
  BY <1>2, ControlTyped DEF TurnGoto, TurnRecord
<1>3. ASSUME NEW x, turn' = [turn EXCEPT ![t].pc = "send", ![t].st = x]
      PROVE  turn'[t].pc = "send" /\ \A u \in Turn \ {t} : turn'[u] = turn[u]
  BY <1>3, ControlTyped DEF TurnRecord
<1>4. CASE \/ BeginTurn(t) \/ EnterCreate(t) \/ SendPrompt(t) \/ SendFails(t) \/ ChannelClosed(t)
           \/ IdleTimeout(t) \/ ContextDone(t)
  <2>1. UNCHANGED <<pending, resolved, answers, asker, handler, chan>>
    BY <1>4 DEF BeginTurn, EnterCreate, SendPrompt, SendFails, ChannelClosed, IdleTimeout, ContextDone,
       CleanupInteractiveState
  <2>2. turn[t].pc # "wait" /\ \E pc \in TurnPC \ {"prompt", "wait"} : TurnGoto(t, pc)
    BY <1>4 DEF BeginTurn, EnterCreate, SendPrompt, SendFails, ChannelClosed, IdleTimeout, ContextDone,
       TurnPC
  <2>. QED BY <1>1, <1>2, <2>1, <2>2, QueuedKept
<1>5. CASE SkipCreate(t) \/ StartSession(t) \/ StartSessionFails(t) \/ ReuseState(t)
  <2>1. UNCHANGED <<pending, resolved, answers, asker, handler, chan>>
    BY <1>5 DEF SkipCreate, StartSession, StartSessionFails, ReuseState, StoreState
  <2>2. turn[t].pc # "wait" /\ \E x : turn' = [turn EXCEPT ![t].pc = "send", ![t].st = x]
    BY <1>5 DEF SkipCreate, StartSession, StartSessionFails, ReuseState
  <2>. QED BY <1>1, <1>3, <2>1, <2>2, QueuedKept
<1>6. CASE RestartAgent(t)
  <2>1. UNCHANGED <<pending, resolved, answers, asker, handler, chan>> /\ turn[t].pc = "send"
    BY <1>6 DEF RestartAgent, CleanupInteractiveState
  <2>2. turn'[t].pc = "create" /\ \A u \in Turn \ {t} : turn'[u] = turn[u]
    BY <1>6, ControlTyped DEF RestartAgent, TurnRecord
  <2>. QED BY <1>1, <2>1, <2>2, QueuedKept
<1>7. CASE TextEvent(t)
  <2>1. UNCHANGED <<pending, resolved, answers, asker, handler, turn>> /\ Receive(t, "text")
    BY <1>7 DEF TextEvent
  <2>. QED BY <1>1, <2>1, ReceiveTakes
<1>8. CASE ResultEvent(t) \/ ErrorEvent(t)
  <2>1. /\ UNCHANGED <<pending, resolved, answers, asker, handler>>
        /\ TurnGoto(t, "unlock") /\ \E type : Receive(t, type)
    BY <1>8 DEF ResultEvent, ErrorEvent
  <2>. QED BY <1>1, <1>2, <2>1, ReceiveTakes DEF TurnPC
<1>9. CASE UnlockSession(t)
  <2>1. UNCHANGED <<pending, resolved, answers, asker, handler, chan>> /\ turn[t].pc = "unlock"
    BY <1>9 DEF UnlockSession
  <2>2. turn'[t].pc = "idle" /\ \A u \in Turn \ {t} : turn'[u] = turn[u]
    BY <1>9, ControlTyped DEF UnlockSession, IdleTurn
  <2>. QED BY <1>1, <2>1, <2>2, QueuedKept
<1>. QED BY <1>4, <1>5, <1>6, <1>7, <1>8, <1>9 DEF TurnStep

\* A request is approved without asking when it leaves the channel: its first decision.
LEMMA ApproveKeepsPermissions ==
  ASSUME IInv, PermissionsOK, NEW t \in Turn, AutoApprove(t)
  PROVE  PermissionsOK'
<1>. DEFINE r == Head(chan[TurnAgent(t)]).req
<1>1. UNCHANGED <<pending, resolved, asker, handler, turn>> /\ Receive(t, "permission")
  BY DEF AutoApprove
<1>2. /\ Queued' \subseteq Queued /\ NoRepeats'
      /\ r \in Request /\ r \in Queued /\ r \notin Queued' /\ asker[r] # Nil
  BY <1>1, ReceiveTakes, NilAssumption
<1>3. \A q \in Request : answers'[q] = answers[q] \/ (q = r /\ answers'[q] = answers[q] + 1)
  BY <1>2 DEF AutoApprove, IInv, TypeOK, RequestTypeOK
<1>4. answers[r] = 0 /\ \A u \in Turn : ~Asked(u, r)
  BY <1>2 DEF PermissionsOK, QueueOK, Unseen
<1>5. \A q \in Request : q # r => Unseen(q)' = Unseen(q)
  BY <1>1, <1>3 DEF Unseen
<1>6. QueueOK'
  <2>1. \A u \in Turn : turn[u].pc = "prompt" => turn[u].req \in Request /\ turn[u].req # r
    BY <1>4 DEF Asked, IInv, TurnsOK, TurnOK
  <2>. QED BY <1>1, <1>2, <1>5, <2>1 DEF PermissionsOK, QueueOK, Asked
<1>7. WaitOK'
  BY <1>1 DEF PermissionsOK, WaitOK, Waits
<1>8. DecisionOK'
  <2>1. ASSUME NEW h \in Handler, handler[h].pc = "respond" PROVE handler[h].req # r
    <3>1. handler[h].st \in State /\ pending[handler[h].st] = handler[h].req /\ handler[h].req \in Request
      BY <2>1 DEF PermissionsOK, DecisionOK, IInv, HandlersOK, HandlerOK, TypeOK, StateTypeOK
    <3>2. PICK u \in Turn : Waits(u, handler[h].req)
      BY <3>1, NilAssumption DEF PermissionsOK, WaitOK
    <3>. QED BY <1>4, <3>2 DEF Waits, Asked
  <2>2. \A h \in Handler : handler[h].pc = "respond" => handler[h].req \in Request
    BY DEF IInv, HandlersOK, HandlerOK
  <2>3. \A u \in Turn, q \in Request : Waits(u, q) => q # r
    BY <1>4 DEF Waits, Asked
  <2>4. OneDecision'
    BY <1>2, <1>3, <1>4 DEF PermissionsOK, DecisionOK, OneDecision
  <2>. QED BY <1>1, <1>3, <2>1, <2>2, <2>3, <2>4 DEF PermissionsOK, DecisionOK, Waits, Clears
<1>. QED BY <1>6, <1>7, <1>8 DEF PermissionsOK

\* A user is asked for a request nobody knows yet, ...
LEMMA PromptKeepsPermissions ==
  ASSUME IInv, PermissionsOK, NEW t \in Turn, PromptUser(t)
  PROVE  PermissionsOK'
<1>. DEFINE r == Head(chan[TurnAgent(t)]).req
<1>1. UNCHANGED <<pending, resolved, answers, asker, handler>> /\ Receive(t, "permission")
  BY DEF PromptUser
<1>2. /\ Queued' \subseteq Queued /\ NoRepeats' /\ turn[t].pc = "loop"
      /\ r \in Request /\ r \in Queued /\ r \notin Queued' /\ asker[r] # Nil
  BY <1>1, ReceiveTakes, NilAssumption
<1>3. turn'[t].pc = "prompt" /\ turn'[t].req = r /\ \A u \in Turn \ {t} : turn'[u] = turn[u]
  BY ControlTyped DEF PromptUser, TurnRecord
<1>4. Unseen(r)
  BY <1>2 DEF PermissionsOK, QueueOK
<1>5. QueueOK'
  BY <1>1, <1>2, <1>3, <1>4 DEF PermissionsOK, QueueOK, Asked, Unseen
<1>6. WaitOK'
  <2>1. \A u \in Turn, q \in Request : Waits(u, q)' <=> Waits(u, q)
    BY <1>1, <1>2, <1>3 DEF Waits
  <2>2. \A u \in Turn, q \in Request : Waits(u, q) => turn'[u] = turn[u]
    BY <1>2, <1>3 DEF Waits
  <2>3. \A x \in State : pending[x] # Nil => pending[x] \in Request
    BY DEF IInv, TypeOK, StateTypeOK
  <2>. QED BY <1>1, <2>1, <2>2, <2>3 DEF PermissionsOK, WaitOK
<1>7. DecisionOK'
  BY <1>1, <1>2, <1>3 DEF PermissionsOK, DecisionOK, OneDecision, Waits, Clears
<1>. QED BY <1>5, <1>6, <1>7 DEF PermissionsOK

\* ... which becomes the pending one of the state ...
LEMMA SetKeepsPermissions ==
  ASSUME IInv, Owned, PermissionsOK, NEW t \in Turn, SetPending(t)
  PROVE  PermissionsOK'
<1>. DEFINE r == turn[t].req
            x == turn[t].st
<1>1. UNCHANGED <<resolved, answers, asker, chan, handler>> /\ turn[t].pc = "prompt"
  BY DEF SetPending
<1>2. r \in Request /\ r # Nil /\ x \in State
  BY <1>1, NilAssumption DEF IInv, TurnsOK, TurnOK, TypeOK, StateTypeOK
<1>3. turn'[t].pc = "wait" /\ turn'[t].req = r /\ turn'[t].st = x
      /\ \A u \in Turn \ {t} : turn'[u] = turn[u]
  BY ControlTyped DEF SetPending, TurnGoto, TurnRecord
<1>4. \A y \in State : pending'[y] = IF y = x THEN r ELSE pending[y]
  BY <1>2 DEF SetPending, IInv, TypeOK, StateTypeOK
<1>5. pending[x] = Nil
  <2>. SUFFICES ASSUME pending[x] # Nil PROVE FALSE
    OBVIOUS
  <2>1. PICK u \in Turn : Waits(u, pending[x]) /\ turn[u].st = x
    BY <1>2 DEF PermissionsOK, WaitOK
  <2>2. u = t
    BY <1>1, <2>1, OneTurnPerState DEF Waits, InUse
  <2>. QED BY <1>1, <2>1, <2>2 DEF Waits
<1>6. Queued' = Queued /\ NoRepeats'
  BY <1>1, QueuedKept
<1>7. Unseen(r)
  BY <1>1 DEF PermissionsOK, QueueOK
<1>8. QueueOK'
  BY <1>1, <1>3, <1>6 DEF PermissionsOK, QueueOK, Asked, Unseen
<1>9. WaitOK'
  <2>1. ASSUME NEW u \in Turn, NEW q \in Request, Waits(u, q)' PROVE pending'[turn'[u].st] = q
    <3>1. CASE u = t
      BY <1>2, <1>3, <1>4, <2>1, <3>1 DEF Waits
    <3>2. CASE u # t
      <4>1. Waits(u, q) /\ turn'[u] = turn[u] /\ turn[u].st \in State
        BY <1>1, <1>3, <2>1, <3>2 DEF Waits, IInv, TurnsOK, TurnOK, TypeOK, StateTypeOK
      <4>2. pending[turn[u].st] = q /\ q # Nil
        BY <4>1, NilAssumption DEF PermissionsOK, WaitOK
      <4>. QED BY <1>4, <1>5, <4>1, <4>2
    <3>. QED BY <3>1, <3>2
  <2>2. ASSUME NEW y \in State, pending'[y] # Nil
        PROVE  \E u \in Turn : Waits(u, pending[y])' /\ turn'[u].st = y
    <3>1. CASE y = x
      BY <1>1, <1>3, <1>4, <1>7, <3>1 DEF Waits, Unseen
    <3>2. CASE y # x
      <4>1. PICK u \in Turn : Waits(u, pending[y]) /\ turn[u].st = y
        BY <1>4, <2>2, <3>2 DEF PermissionsOK, WaitOK
      <4>2. u # t
        BY <1>1, <4>1 DEF Waits
      <4>. QED BY <1>1, <1>3, <1>4, <3>2, <4>1, <4>2 DEF Waits
    <3>. QED BY <3>1, <3>2
  <2>. QED BY <2>1, <2>2 DEF WaitOK
<1>10. DecisionOK'
  <2>1. \A h \in Handler : handler[h].pc \in {"respond", "clear"} =>
          handler[h].st \in State /\ handler[h].st # x
    BY <1>5, NilAssumption
       DEF PermissionsOK, DecisionOK, IInv, HandlersOK, HandlerOK, TypeOK, StateTypeOK
  <2>2. \A h \in Handler : handler[h].pc \in {"respond", "clear"} =>
          pending'[handler[h].st] = handler[h].req
    BY <1>4, <2>1 DEF PermissionsOK, DecisionOK
  <2>3. ASSUME NEW u \in Turn, NEW q \in Request, Waits(u, q)', \A h \in Handler : ~Clears(h, q)
        PROVE  answers[q] = 0
    <3>1. CASE u = t
      BY <1>3, <1>7, <2>3, <3>1 DEF Waits, Unseen
    <3>2. CASE u # t
      BY <1>1, <1>3, <2>3, <3>2 DEF Waits, PermissionsOK, DecisionOK
    <3>. QED BY <3>1, <3>2
  <2>. QED BY <1>1, <2>2, <2>3 DEF PermissionsOK, DecisionOK, OneDecision, Clears
<1>. QED BY <1>8, <1>9, <1>10 DEF PermissionsOK

\* ... until it is resolved.
LEMMA WokenKeepsPermissions ==
  ASSUME IInv, PermissionsOK, NEW t \in Turn, PermissionResolved(t)
  PROVE  PermissionsOK'
<1>1. UNCHANGED <<pending, resolved, answers, asker, chan, handler>> /\ turn[t].req \in resolved
  BY DEF PermissionResolved
<1>2. turn'[t].pc = "loop" /\ \A u \in Turn \ {t} : turn'[u] = turn[u]
  BY ControlTyped DEF PermissionResolved, TurnRecord
<1>3. Queued' = Queued /\ NoRepeats'
  BY <1>1, QueuedKept
<1>4. \A u \in Turn, q \in Request : (Waits(u, q)' <=> Waits(u, q)) /\ (Waits(u, q) => u # t)
  BY <1>1, <1>2 DEF Waits
<1>5. QueueOK'
  BY <1>1, <1>2, <1>3 DEF PermissionsOK, QueueOK, Asked, Unseen
<1>6. WaitOK'
  <2>1. \A x \in State : pending[x] # Nil => pending[x] \in Request
    BY DEF IInv, TypeOK, StateTypeOK
  <2>. QED BY <1>1, <1>2, <1>4, <2>1 DEF PermissionsOK, WaitOK
<1>7. DecisionOK'
  BY <1>1, <1>4 DEF PermissionsOK, DecisionOK, OneDecision, Clears
<1>. QED BY <1>5, <1>6, <1>7 DEF PermissionsOK

\* The agent asks for what nobody knows yet.
LEMMA AgentKeepsPermissions ==
  ASSUME IInv, PermissionsOK, NEW a \in Agent, AgentStep(a)
  PROVE  PermissionsOK'
<1>1. UNCHANGED <<pending, resolved, answers, handler, turn>>
  BY DEF AgentStep, AgentText, AgentAsk, AgentFinish, AgentExit, AgentCloseEvents
<1>2. ASSUME NEW type \in {"text", "result", "error"}, Emit(a, type, Nil), UNCHANGED asker
      PROVE  PermissionsOK'
  <2>. DEFINE e == [type |-> type, req |-> Nil]
  <2>1. e \in Event /\ e.type # "permission" /\ chan' = [chan EXCEPT ![a] = Append(@, e)]
    BY <1>2 DEF Emit, Event
  <2>2. Queued' \subseteq Queued /\ NoRepeats'
    BY <2>1, AppendQueued
  <2>. QED BY <1>1, <1>2, <2>2, PermissionsKept
<1>3. ASSUME UNCHANGED <<chan, asker>> PROVE PermissionsOK'
  BY <1>1, <1>3, QueuedKept, PermissionsKept
<1>4. CASE AgentAsk(a)
  <2>1. PICK r \in Request :
          asker[r] = Nil /\ asker' = [asker EXCEPT ![r] = a] /\ Emit(a, "permission", r)
    BY <1>4 DEF AgentAsk, Fresh
  <2>. DEFINE e == [type |-> "permission", req |-> r]
  <2>2. e \in Event /\ e.type = "permission" /\ e.req = r
        /\ chan' = [chan EXCEPT ![a] = Append(@, e)]
    BY <2>1 DEF Emit, Event
  <2>3. Queued' \subseteq Queued \union {r} /\ NoRepeats'
    BY <2>1, <2>2, AppendQueued
  <2>4. \A q \in Request : asker'[q] = IF q = r THEN a ELSE asker[q]
    BY <2>1 DEF IInv, TypeOK, RequestTypeOK
  <2>5. Unseen(r) /\ \A q \in Request : Unseen(q)' = Unseen(q)
    BY <1>1, <2>1 DEF PermissionsOK, QueueOK, Unseen
  <2>6. \A t \in Turn : ~Asked(t, r)
    BY <2>1, NilAssumption DEF Asked, IInv, TurnsOK, TurnOK
  <2>7. QueueOK'
    <3>1. \A q \in Request : asker'[q] = Nil \/ q \in Queued' => Unseen(q)
      BY <2>3, <2>4, <2>5, NilAssumption DEF PermissionsOK, QueueOK
    <3>2. \A q \in Queued' : \A t \in Turn : ~Asked(t, q)
      BY <2>3, <2>6 DEF PermissionsOK, QueueOK
    <3>3. \A t \in Turn : turn[t].pc = "prompt" => turn[t].req \in Request
      BY DEF IInv, TurnsOK, TurnOK
    <3>. QED BY <1>1, <2>3, <2>5, <3>1, <3>2, <3>3 DEF PermissionsOK, QueueOK, Asked, Unseen
  <2>8. WaitOK' /\ DecisionOK'
    BY <1>1 DEF PermissionsOK, WaitOK, DecisionOK, OneDecision, Waits, Clears
  <2>. QED BY <2>7, <2>8 DEF PermissionsOK
<1>5. CASE AgentText(a) \/ AgentFinish(a) \/ AgentExit(a) \/ AgentCloseEvents(a)
  BY <1>2, <1>3, <1>5 DEF AgentText, AgentFinish, AgentExit, AgentCloseEvents
<1>. QED BY <1>4, <1>5 DEF AgentStep

LEMMA NextPermissions ==
  ASSUME IInv, Owned, PermissionsOK, OneHandler, [Next]_vars
  PROVE  PermissionsOK'
<1>1. ASSUME NEW h \in Handler,
             HandlerStep(h) \/ \E k \in Key : HandlerReceive(h, k)
      PROVE  PermissionsOK'
  <2>1. CASE ReadPending(h) \/ RespondToAgent(h)
    BY <2>1, ReadKeepsPermissions, RespondKeepsPermissions
  <2>2. CASE ClearPending(h)
    <3>1. handler[h].st \in State /\ handler[h].req \in Request
          /\ pending[handler[h].st] = handler[h].req
      BY <2>2 DEF ClearPending, PermissionsOK, DecisionOK, IInv, HandlersOK, HandlerOK, TypeOK, StateTypeOK
    <3>2. handler'[h].pc = "idle"
      BY <2>2, ControlTyped DEF ClearPending, HandlerDone, IdleHandler
    <3>. QED BY <2>2, <3>1, <3>2, ResolveKeepsPermissions, NilAssumption DEF ClearPending
  <2>3. CASE StopResolve(h)
    <3>1. handler[h].st \in State /\ pending[handler[h].st] \in Request \union {Nil}
      BY <2>3 DEF StopResolve, IInv, HandlersOK, HandlerOK, TypeOK, StateTypeOK
    <3>2. handler'[h].pc = "cleanup"
      BY <2>3, ControlTyped DEF StopResolve, HandlerRecord
    <3>. QED BY <2>3, <3>1, <3>2, ResolveKeepsPermissions DEF StopResolve
  <2>. QED BY <1>1, <2>1, <2>2, <2>3, HandlerKeepsPermissions
<1>2. ASSUME NEW t \in Turn, TurnStep(t) PROVE PermissionsOK'
  BY <1>2, TurnKeepsPermissions, ApproveKeepsPermissions, PromptKeepsPermissions,
     SetKeepsPermissions, WokenKeepsPermissions
<1>3. ASSUME UNCHANGED <<pending, resolved, answers, asker, chan, handler>>,
             \A t \in Turn : turn'[t] = turn[t] \/ (turn[t].pc = "idle" /\ turn'[t].pc = "start")
      PROVE  PermissionsOK'
  BY <1>3, QueuedKept, PermissionsKept
<1>4. CASE CancelContext \/ StopStates \/ UNCHANGED vars
  BY <1>3, <1>4 DEF CancelContext, StopStates, vars
<1>5. ASSUME NEW k \in Key, ExecuteCronJob(k) PROVE PermissionsOK'
  <2>1. PICK s \in Session : TryStartTurn(k)!(s)
    BY <1>5 DEF ExecuteCronJob, TryStartTurn
  <2>2. \A t \in Turn : turn'[t] = turn[t] \/ (turn[t].pc = "idle" /\ turn'[t].pc = "start")
    BY <2>1, ControlTyped DEF IdleTurn
  <2>. QED BY <1>3, <1>5, <2>2 DEF ExecuteCronJob
<1>. QED BY <1>1, <1>2, <1>4, <1>5, AgentKeepsPermissions DEF Next

LEMMA InitPermissions == ASSUME Init PROVE Owned /\ PermissionsOK
<1>1. Owned
  BY NilAssumption
     DEF Init, Owned, SessionsOwned, StatesOwned, NotNew, Running, InUse, IdleTurn, IdleHandler
<1>2. Queued = {} /\ NoRepeats
  BY DEF Init, Queued, NoRepeats
<1>3. PermissionsOK
  BY <1>2 DEF Init, PermissionsOK, QueueOK, WaitOK, DecisionOK, OneDecision, Unseen, Asked, Waits,
     Clears, IdleTurn, IdleHandler
<1>. QED BY <1>1, <1>3

\* With one message handler and no /new, in every state: the agent's requests, the
\* turns that wait for them, the handlers that answer and the answers given agree.
THEOREM PermissionInvariance ==
  ASSUME OneHandler, "new" \notin Input
  PROVE  Spec => [](Owned /\ PermissionsOK)
<1>1. Init => Owned /\ PermissionsOK
  BY InitPermissions
<1>2. IInv /\ Owned /\ PermissionsOK /\ [Next]_vars => Owned' /\ PermissionsOK'
  BY NextOwned, NextPermissions
<1>. QED BY <1>1, <1>2, Invariance, PTL DEF Spec

\* With one platform goroutine and no /new, a turn that waits for a permission is
\* always answerable: its state shows the request it waits for.
THEOREM Answerable ==
  ASSUME OneHandler, "new" \notin Input
  PROVE  Spec => []WaitingIsAnswerable
<1>1. IInv /\ PermissionsOK => WaitingIsAnswerable
  BY DEF IInv, TurnsOK, TurnOK, PermissionsOK, WaitOK, Waits, WaitingIsAnswerable
<1>. QED BY <1>1, Invariance, PermissionInvariance, PTL

\* Under the same conditions an agent gets one decision for a request, from the
\* user or from approveAll, and never a second one.
THEOREM DecidedOnce ==
  ASSUME OneHandler, "new" \notin Input
  PROVE  Spec => []OneDecision
<1>1. PermissionsOK => OneDecision
  BY DEF PermissionsOK, DecisionOK
<1>. QED BY <1>1, PermissionInvariance, PTL

-----------------------------------------------------------------------------
(* Whose agent session a turn closes, where nobody calls /new.             *)

\* While a turn has a state, the entry of its key is that state or has no agent.
OwnEntry ==
  \A t \in Turn :
    InUse(t) /\ EntryAgent(turn[t].key) # Nil => stateOf[turn[t].key] = turn[t].st

\* A step that stores no agent, and gives no turn a state.
LEMMA OwnEntryKept ==
  ASSUME IInv, OwnEntry,
         \A k \in Key : stateOf'[k] \in {stateOf[k], Nil} \/ agentOf'[stateOf'[k]] = Nil,
         \A x \in allocated : agentOf'[x] = agentOf[x],
         \A t \in Turn :
           InUse(t)' => \/ InUse(t) /\ turn'[t].st = turn[t].st /\ turn'[t].key = turn[t].key
                        \/ turn'[t].key \in Key /\ stateOf'[turn'[t].key] = turn'[t].st
  PROVE  OwnEntry'
<1>. SUFFICES ASSUME NEW t \in Turn, InUse(t)', EntryAgent(turn[t].key)' # Nil
              PROVE  stateOf'[turn'[t].key] = turn'[t].st
  BY DEF OwnEntry
<1>1. CASE InUse(t) /\ turn'[t].st = turn[t].st /\ turn'[t].key = turn[t].key
  <2>. DEFINE k == turn[t].key
  <2>1. k \in Key
    BY <1>1 DEF InUse, IInv, TurnsOK, TurnOK
  <2>2. stateOf'[k] # Nil /\ agentOf'[stateOf'[k]] # Nil
    BY <1>1 DEF EntryAgent
  <2>3. stateOf'[k] = stateOf[k] /\ stateOf[k] \in allocated
    BY <2>1, <2>2 DEF IInv, MapOK
  <2>4. EntryAgent(k) # Nil
    BY <2>2, <2>3 DEF EntryAgent
  <2>. QED BY <1>1, <2>3, <2>4 DEF OwnEntry
<1>. QED BY <1>1

LEMMA HandlerKeepsEntry ==
  ASSUME IInv, OwnEntry, NEW h \in Handler,
         \/ \E k \in Key : HandlerReceive(h, k)
         \/ HandlerStep(h)
  PROVE  OwnEntry'
<1>1. ASSUME NEW k \in Key, CleanupInteractiveState(k), UNCHANGED turn PROVE OwnEntry'
  BY <1>1, OwnEntryKept DEF CleanupInteractiveState, InUse, IInv, TypeOK, StateTypeOK
<1>2. ASSUME UNCHANGED <<stateOf, agentOf, turn>> PROVE OwnEntry'
  BY <1>2, OwnEntryKept DEF InUse
<1>3. ASSUME NEW k \in Key, NEW x \in State, StoreState(k, x, Nil, TRUE), UNCHANGED turn PROVE OwnEntry'
  <2>1. \A l \in Key : stateOf'[l] = IF l = k THEN x ELSE stateOf[l]
    BY <1>3 DEF StoreState, IInv, TypeOK, StateTypeOK
  <2>2. agentOf'[x] = Nil /\ \A y \in allocated : agentOf'[y] = agentOf[y]
    BY <1>3 DEF StoreState, Fresh, IInv, TypeOK, StateTypeOK
  <2>. QED BY <1>3, <2>1, <2>2, OwnEntryKept DEF InUse
<1>4. ASSUME NEW k \in Key, HandlerReceive(h, k) PROVE OwnEntry'
  BY <1>1, <1>2, <1>4
     DEF HandlerReceive, ReceiveMessage, CommandCleanup, ReceiveStop, ReceiveQuiet, ReceiveCompress
<1>5. ASSUME HandlerStep(h), handler[h].pc # "idle" PROVE OwnEntry'
  <2>1. handler[h].key \in Key
    BY <1>5 DEF IInv, HandlersOK, HandlerOK
  <2>2. CASE LockSession(h)
    <3>1. \A t \in Turn : InUse(t)' => turn'[t] = turn[t]
      <4>1. PICK s \in Session : TryStartTurn(handler[h].key)!(s)
        BY <2>2 DEF LockSession, TryStartTurn
      <4>. QED BY <4>1, ControlTyped DEF IdleTurn, InUse
    <3>. QED BY <2>2, <3>1, OwnEntryKept DEF LockSession, InUse
  <2>3. CASE StopCleanup(h)
    BY <1>1, <2>1, <2>3 DEF StopCleanup
  <2>4. CASE FinishStop(h) \/ ToggleQuiet(h)
    BY <1>2, <1>3, <2>1, <2>4 DEF FinishStop, ToggleQuiet
  <2>5. CASE \/ ReadPending(h) \/ RespondToAgent(h) \/ ClearPending(h) \/ FinishNew(h)
             \/ FinishSwitch(h) \/ FinishModel(h) \/ StopResolve(h)
    BY <1>2, <2>5 DEF ReadPending, RespondToAgent, ClearPending, FinishNew, FinishSwitch, FinishModel,
       StopResolve
  <2>. QED BY <1>5, <2>2, <2>3, <2>4, <2>5 DEF HandlerStep
<1>6. HandlerStep(h) => handler[h].pc # "idle"
  BY DEF HandlerStep, ReadPending, RespondToAgent, ClearPending, LockSession, FinishNew, FinishSwitch,
     FinishModel, StopResolve, StopCleanup, FinishStop, ToggleQuiet
<1>. QED BY <1>4, <1>5, <1>6

LEMMA TurnKeepsEntry ==
  ASSUME IInv, Owned, OwnEntry, NEW t \in Turn, TurnStep(t)
  PROVE  OwnEntry'
<1>. DEFINE k == turn[t].key
<1>1. turn[t].pc # "idle" /\ k \in Key
  BY DEF IInv, TurnsOK, TurnOK, TurnStep, BeginTurn, ReuseState, EnterCreate, SkipCreate,
     StartSession, StartSessionFails, SendPrompt, SendFails, RestartAgent, Receive, TextEvent,
     AutoApprove, PromptUser, SetPending, PermissionResolved, ResultEvent, ErrorEvent, ChannelClosed,
     IdleTimeout, ContextDone, UnlockSession
<1>2. CASE SkipCreate(t) \/ StartSession(t) \/ StartSessionFails(t)
  <2>1. PICK x, a, q :
          /\ x \in State
          /\ StoreState(k, x, a, q)
          /\ turn' = [turn EXCEPT ![t].pc = "send", ![t].st = x]
    BY <1>2 DEF SkipCreate, StartSession, StartSessionFails
  <2>2. x \notin allocated /\ stateOf' = [stateOf EXCEPT ![k] = x]
        /\ agentOf' = [agentOf EXCEPT ![x] = a]
    BY <2>1 DEF StoreState, Fresh
  <2>3. ~InUse(t) /\ \A u \in Turn \ {t} : turn'[u] = turn[u]
    BY <1>2, <2>1, ControlTyped DEF SkipCreate, StartSession, StartSessionFails, InUse
  <2>4. turn'[t].key = k /\ turn'[t].st = x
    BY <2>1, ControlTyped DEF TurnRecord
  <2>. SUFFICES ASSUME NEW u \in Turn, InUse(u)', EntryAgent(turn[u].key)' # Nil
                PROVE  stateOf'[turn'[u].key] = turn'[u].st
    BY DEF OwnEntry
  <2>5. \A l \in Key : stateOf'[l] = IF l = k THEN x ELSE stateOf[l]
    BY <1>1, <2>2 DEF IInv, TypeOK, StateTypeOK
  <2>6. CASE u = t
    BY <1>1, <2>4, <2>5, <2>6
  <2>7. CASE u # t
    <3>1. turn'[u] = turn[u] /\ InUse(u) /\ turn[u].key \in Key
      BY <2>3, <2>7 DEF InUse, IInv, TurnsOK, TurnOK
    <3>2. turn[u].key # k
      <4>. SUFFICES ASSUME turn[u].key = k PROVE FALSE
        OBVIOUS
      <4>1. Running(u) /\ Running(t)
        BY <1>1, <3>1 DEF Running, InUse
      <4>2. turn[u].sess = turn[t].sess
        BY <4>1 DEF Owned, SessionsOwned
      <4>. QED BY <2>7, <4>1, <4>2 DEF IInv, OneTurnPerSession
    <3>3. stateOf'[turn[u].key] = stateOf[turn[u].key]
      BY <2>5, <3>1, <3>2
    <3>4. stateOf[turn[u].key] # Nil /\ stateOf[turn[u].key] \in allocated
      BY <3>1, <3>3 DEF EntryAgent, IInv, MapOK
    <3>5. EntryAgent(turn[u].key) # Nil
      BY <2>2, <3>1, <3>3, <3>4 DEF EntryAgent, IInv, TypeOK, StateTypeOK
    <3>. QED BY <3>1, <3>3, <3>5 DEF OwnEntry
  <2>. QED BY <2>6, <2>7
<1>3. ASSUME UNCHANGED agentOf, \A l \in Key : stateOf'[l] \in {stateOf[l], Nil},
             \A u \in Turn : Stays(u)
      PROVE  OwnEntry'
  BY <1>3, OwnEntryKept DEF Stays, Running, InUse
<1>4. ASSUME NEW pc \in TurnPC, TurnGoto(t, pc), pc \in {"send", "loop", "prompt", "wait"} => InUse(t)
      PROVE  \A u \in Turn : Stays(u)
  BY <1>1, <1>4, ControlTyped DEF TurnGoto, TurnRecord, Stays, InUse, Running
<1>5. CASE BeginTurn(t) \/ EnterCreate(t) \/ SendFails(t) \/ ContextDone(t) \/ ResultEvent(t)
           \/ ErrorEvent(t) \/ SendPrompt(t) \/ SetPending(t)
  <2>1. UNCHANGED <<stateOf, agentOf>>
    BY <1>5 DEF BeginTurn, EnterCreate, SendFails, ContextDone, ResultEvent, ErrorEvent, SendPrompt, SetPending
  <2>2. \E pc \in TurnPC : TurnGoto(t, pc) /\ (pc \in {"send", "loop", "prompt", "wait"} => InUse(t))
    BY <1>5 DEF BeginTurn, EnterCreate, SendFails, ContextDone, ResultEvent, ErrorEvent, SendPrompt,
       SetPending, TurnPC, InUse
  <2>. QED BY <2>1, <2>2, <1>3, <1>4
<1>6. CASE ChannelClosed(t) \/ IdleTimeout(t)
  <2>1. CleanupInteractiveState(k) /\ TurnGoto(t, "unlock")
    BY <1>6 DEF ChannelClosed, IdleTimeout
  <2>. QED BY <2>1, <1>3, <1>4 DEF CleanupInteractiveState, TurnPC, IInv, TypeOK, StateTypeOK
<1>7. CASE RestartAgent(t)
  <2>1. CleanupInteractiveState(k)
        /\ turn' = [turn EXCEPT ![t].pc = "create", ![t].st = Nil, ![t].retried = TRUE]
    BY <1>7 DEF RestartAgent
  <2>2. \A u \in Turn : Stays(u)
    BY <1>1, <2>1, ControlTyped DEF TurnRecord, Stays, InUse, Running
  <2>. QED BY <2>1, <2>2, <1>3 DEF CleanupInteractiveState, IInv, TypeOK, StateTypeOK
<1>8. CASE TextEvent(t) \/ AutoApprove(t) \/ PromptUser(t) \/ PermissionResolved(t) \/ UnlockSession(t)
  <2>1. \A u \in Turn : Stays(u)
    BY <1>1, <1>8, ControlTyped DEF TextEvent, AutoApprove, PromptUser, Receive, PermissionResolved,
       UnlockSession, IdleTurn, TurnRecord, Stays, InUse, Running
  <2>. QED BY <1>3, <1>8, <2>1 DEF TextEvent, AutoApprove, PromptUser, PermissionResolved, UnlockSession
<1>9. CASE ReuseState(t)
  <2>1. UNCHANGED <<stateOf, agentOf>>
        /\ turn' = [turn EXCEPT ![t].pc = "send", ![t].st = stateOf[k]]
    BY <1>9 DEF ReuseState
  <2>2. turn'[t].key = k /\ turn'[t].st = stateOf[k] /\ \A u \in Turn \ {t} : turn'[u] = turn[u]
    BY <2>1, ControlTyped DEF TurnRecord
  <2>. QED BY <1>1, <2>1, <2>2, OwnEntryKept DEF InUse
<1>. QED BY <1>2, <1>5, <1>6, <1>7, <1>8, <1>9 DEF TurnStep

\* Without /new the entry of a key is the state of the turn that runs on it, or has
\* no agent, and what a turn holds has an owner.
THEOREM EntryInvariance == "new" \notin Input => (Spec => [](Owned /\ OwnEntry))
<1>. SUFFICES ASSUME "new" \notin Input PROVE Spec => [](Owned /\ OwnEntry)
  OBVIOUS
<1>1. Init => Owned /\ OwnEntry
  BY InitPermissions DEF Init, OwnEntry, InUse, IdleTurn
<1>2. ASSUME IInv, Owned, OwnEntry, [Next]_vars PROVE Owned' /\ OwnEntry'
  <2>1. ASSUME UNCHANGED <<agentOf, turn>>, \A k \in Key : stateOf'[k] \in {stateOf[k], Nil}
        PROVE  OwnEntry'
    BY <1>2, <2>1, OwnEntryKept DEF InUse
  <2>2. UNCHANGED vars \/ CancelContext \/ StopStates => OwnEntry'
    BY <2>1 DEF vars, CancelContext, StopStates
  <2>3. (\E a \in Agent : AgentStep(a)) => OwnEntry'
    BY <2>1 DEF AgentStep, AgentText, AgentAsk, AgentFinish, AgentExit, AgentCloseEvents
  <2>4. ASSUME NEW k \in Key, ExecuteCronJob(k) PROVE OwnEntry'
    <3>1. PICK s \in Session : TryStartTurn(k)!(s)
      BY <2>4 DEF ExecuteCronJob, TryStartTurn
    <3>2. \A t \in Turn : InUse(t)' => turn'[t] = turn[t]
      BY <1>2, <3>1, ControlTyped DEF IdleTurn, InUse
    <3>. QED BY <1>2, <2>4, <3>2, OwnEntryKept DEF ExecuteCronJob, InUse
  <2>. QED BY <1>2, <2>2, <2>3, <2>4, NextOwned, HandlerKeepsEntry, TurnKeepsEntry DEF Next
<1>. QED BY <1>1, <1>2, Invariance, PTL DEF Spec

\* Without /new, a turn that finds its agent session dead or silent closes that
\* one and no other, however many handlers and cron jobs there are.
THEOREM ClosesOwn == "new" \notin Input => (Spec => TurnClosesOwnAgent)
<1>. SUFFICES ASSUME "new" \notin Input PROVE Spec => TurnClosesOwnAgent
  OBVIOUS
<1>1. ASSUME IInv, OwnEntry, NEW t \in Turn, ChannelClosed(t) \/ IdleTimeout(t) \/ RestartAgent(t),
             NEW a \in Agent, closes'[a] # closes[a]
      PROVE  a = TurnAgent(t)
  <2>1. InUse(t) /\ CleanupInteractiveState(turn[t].key)
    BY <1>1 DEF ChannelClosed, IdleTimeout, RestartAgent, InUse
  <2>2. a = EntryAgent(turn[t].key) /\ a # Nil
    BY <1>1, <2>1, NilAssumption DEF CleanupInteractiveState
  <2>3. stateOf[turn[t].key] = turn[t].st /\ stateOf[turn[t].key] # Nil
    BY <1>1, <2>1, <2>2 DEF OwnEntry, EntryAgent
  <2>. QED BY <2>2, <2>3 DEF EntryAgent, TurnAgent
<1>2. IInv /\ OwnEntry =>
        [\A t \in Turn :
          (ChannelClosed(t) \/ IdleTimeout(t) \/ RestartAgent(t)) =>
            \A a \in Agent : closes'[a] # closes[a] => a = TurnAgent(t)]_vars
  BY <1>1
<1>. QED BY <1>2, Invariance, EntryInvariance, PTL DEF TurnClosesOwnAgent

-----------------------------------------------------------------------------
(* The refinement of AgentService, and no agent process is forgotten.      *)

\* interactiveMu is held while an agent session starts; the entry it was
\* started for still needs one, and the engine has not been stopped.
StartOK(t) ==
  turn[t].pc = "starting" =>
    interactiveMu = t /\ NeedsAgent(turn[t].key) /\ engine # "stopped"

LockOK == \A t \in Turn : StartOK(t)

\* A step that leaves the starting turns alone and the map, where it is locked.
Steady ==
  /\ interactiveMu' = interactiveMu
  /\ \A t \in Turn :
       turn'[t].pc = "starting" => turn[t].pc = "starting" /\ turn'[t].key = turn[t].key
  /\ interactiveMu # Nil =>
       /\ UNCHANGED <<stateOf, agentOf>>
       /\ \A a \in Agent : proc'[a] = "alive" => proc[a] = "alive"
       /\ engine' = "stopped" => engine = "stopped"

\* A step that starts and ends no turn, opens and closes no agent session and
\* does not stop the engine.
Silent ==
  /\ TurnsHold
  /\ UNCHANGED closes
  /\ \A a \in Agent : proc'[a] = "unborn" <=> proc[a] = "unborn"
  /\ engine' = "stopped" <=> engine = "stopped"

-----------------------------------------------------------------------------
(* The lock.                                                               *)

LEMMA SteadyKeepsLock == ASSUME IInv, LockOK, Steady PROVE LockOK'
<1>. SUFFICES ASSUME NEW t \in Turn, turn'[t].pc = "starting"
              PROVE  interactiveMu' = t /\ NeedsAgent(turn[t].key)' /\ engine' # "stopped"
  BY DEF LockOK, StartOK
<1>1. /\ turn[t].pc = "starting" /\ turn'[t].key = turn[t].key
      /\ interactiveMu = t /\ NeedsAgent(turn[t].key) /\ engine # "stopped"
  BY DEF LockOK, StartOK, Steady
<1>2. interactiveMu # Nil
  BY <1>1, NilAssumption
<1>3. turn[t].key \in Key
  BY <1>1 DEF IInv, TurnsOK, TurnOK
<1>4. EntryAgent(turn[t].key) \in Agent \union {Nil}
  BY <1>3 DEF EntryAgent, IInv, TypeOK, StateTypeOK
<1>5. EntryAgent(turn[t].key)' = EntryAgent(turn[t].key)
  BY <1>1, <1>2 DEF Steady, EntryAgent
<1>6. NeedsAgent(turn[t].key)'
  BY <1>1, <1>2, <1>4, <1>5 DEF Steady, NeedsAgent
<1>. QED BY <1>1, <1>2, <1>6 DEF Steady

\* A command that starts.
LEMMA ReceiveIsSteady ==
  ASSUME IInv, NEW h \in Handler, NEW k \in Key, HandlerReceive(h, k)
  PROVE  Steady
BY DEF HandlerReceive, ReceiveMessage, CommandCleanup, ReceiveStop, ReceiveQuiet, ReceiveCompress,
       CleanupInteractiveState, Steady

LEMMA StartTurnIsSteady ==
  ASSUME IInv, NEW k \in Key, TryStartTurn(k),
         UNCHANGED <<interactiveMu, stateVars, proc, engine>>
  PROVE  Steady
BY ControlTyped DEF TryStartTurn, IdleTurn, Steady, TurnRecord

LEMMA HandlerIsSteady ==
  ASSUME IInv, NEW h \in Handler, HandlerStep(h)
  PROVE  Steady
<1>1. CASE LockSession(h)
  <2>1. handler[h].key \in Key
    BY <1>1 DEF LockSession, IInv, HandlersOK, HandlerOK
  <2>. QED BY <1>1, <2>1, StartTurnIsSteady DEF LockSession
<1>2. CASE ReadPending(h) \/ ClearPending(h) \/ FinishNew(h) \/ FinishSwitch(h) \/ FinishModel(h)
  BY <1>2 DEF ReadPending, ClearPending, FinishNew, FinishSwitch, FinishModel, Steady
<1>3. CASE RespondToAgent(h)
  BY <1>3 DEF RespondToAgent, RespondPermission, Steady
<1>4. CASE StopResolve(h) \/ StopCleanup(h)
  BY <1>4 DEF StopResolve, StopCleanup, CleanupInteractiveState, Steady
<1>5. CASE FinishStop(h)
  BY <1>5 DEF FinishStop, Steady
<1>6. CASE ToggleQuiet(h)
  BY <1>6 DEF ToggleQuiet, Steady
<1>. QED BY <1>1, <1>2, <1>3, <1>4, <1>5, <1>6 DEF HandlerStep

\* A turn that moves on, or stays where it is, and does not start an agent.
LEMMA TurnMoves ==
  ASSUME IInv, NEW t \in Turn, turn[t].pc # "idle",
         NEW pc \in TurnPC \ {"idle", "starting"}, TurnGoto(t, pc)
  PROVE  /\ TurnsHold
         /\ \A u \in Turn :
              turn'[u].pc = "starting" => turn[u].pc = "starting" /\ turn'[u].key = turn[u].key
BY TurnGoes

LEMMA TurnIsSteady ==
  ASSUME IInv, NEW t \in Turn, TurnStep(t),
         ~EnterCreate(t), ~StartSession(t), ~StartSessionFails(t)
  PROVE  Steady
<1>1. CASE BeginTurn(t)
  BY <1>1, TurnMoves DEF BeginTurn, TurnPC, Steady
<1>2. CASE ReuseState(t)
  BY <1>2, ControlTyped DEF ReuseState, TurnRecord, Steady
<1>3. CASE SkipCreate(t)
  BY <1>3, ControlTyped DEF SkipCreate, TurnRecord, Steady
<1>4. CASE SendPrompt(t) \/ SendFails(t) \/ ContextDone(t)
  BY <1>4, TurnMoves DEF SendPrompt, SendFails, ContextDone, TurnPC, Steady
<1>5. CASE RestartAgent(t)
  BY <1>5, ControlTyped DEF RestartAgent, CleanupInteractiveState, TurnRecord, Steady
<1>6. CASE ChannelClosed(t) \/ IdleTimeout(t)
  BY <1>6, TurnMoves DEF ChannelClosed, IdleTimeout, CleanupInteractiveState, TurnPC, Steady
<1>7. CASE TextEvent(t) \/ AutoApprove(t)
  BY <1>7 DEF TextEvent, AutoApprove, Steady
<1>8. CASE PromptUser(t) \/ PermissionResolved(t)
  BY <1>8, ControlTyped DEF PromptUser, PermissionResolved, TurnRecord, Steady
<1>9. CASE SetPending(t)
  BY <1>9, TurnMoves DEF SetPending, TurnPC, Steady
<1>10. CASE ResultEvent(t) \/ ErrorEvent(t)
  BY <1>10, TurnMoves DEF ResultEvent, ErrorEvent, Receive, TurnPC, Steady
<1>11. CASE UnlockSession(t)
  BY <1>11, ControlTyped DEF UnlockSession, IdleTurn, TurnRecord, Steady
<1>. QED
  BY <1>1, <1>2, <1>3, <1>4, <1>5, <1>6, <1>7, <1>8, <1>9, <1>10, <1>11 DEF TurnStep

LEMMA AgentIsSteady ==
  ASSUME NEW a \in Agent, AgentStep(a), IInv
  PROVE  Steady
BY DEF AgentStep, AgentText, AgentAsk, AgentFinish, AgentExit, AgentCloseEvents, Steady,
       IInv, TypeOK, AgentTypeOK

\* The three steps that take and release the lock.
LEMMA StartKeepsLock ==
  ASSUME IInv, LockOK, NEW t \in Turn,
         EnterCreate(t) \/ StartSession(t) \/ StartSessionFails(t)
  PROVE  LockOK'
<1>1. CASE EnterCreate(t)
  <2>1. \A u \in Turn : turn[u].pc # "starting"
    BY <1>1, NilAssumption DEF EnterCreate, LockOK, StartOK
  <2>2. /\ turn'[t].key = turn[t].key
        /\ \A u \in Turn \ {t} : turn'[u] = turn[u]
    BY <1>1, TurnGoes DEF EnterCreate, TurnPC
  <2>3. \A u \in Turn : turn'[u].pc = "starting" => u = t
    BY <2>1, <2>2
  <2>4. NeedsAgent(turn[t].key)'
    BY <1>1, <2>2 DEF EnterCreate, NeedsAgent, EntryAgent
  <2>. QED BY <1>1, <2>3, <2>4 DEF EnterCreate, LockOK, StartOK
<1>2. CASE StartSession(t) \/ StartSessionFails(t)
  <2>1. turn[t].pc = "starting"
    BY <1>2 DEF StartSession, StartSessionFails
  <2>2. \A u \in Turn \ {t} : turn[u].pc # "starting"
    BY <2>1 DEF LockOK, StartOK
  <2>3. PICK x \in State : turn' = [turn EXCEPT ![t].pc = "send", ![t].st = x]
    BY <1>2 DEF StartSession, StartSessionFails
  <2>4. turn'[t].pc = "send" /\ \A u \in Turn \ {t} : turn'[u] = turn[u]
    BY <2>1, <2>3, TurnGetsState
  <2>5. \A u \in Turn : turn'[u].pc # "starting"
    BY <2>2, <2>4
  <2>. QED BY <2>5 DEF LockOK, StartOK
<1>. QED BY <1>1, <1>2

LEMMA LockKept == IInv /\ LockOK /\ [Next]_vars => LockOK'
<1>. SUFFICES ASSUME IInv, LockOK, [Next]_vars PROVE LockOK'
  OBVIOUS
<1>1. ASSUME NEW h \in Handler, NEW k \in Key, HandlerReceive(h, k) PROVE LockOK'
  BY <1>1, ReceiveIsSteady, SteadyKeepsLock
<1>2. ASSUME NEW h \in Handler, HandlerStep(h) PROVE LockOK'
  BY <1>2, HandlerIsSteady, SteadyKeepsLock
<1>3. ASSUME NEW k \in Key, ExecuteCronJob(k) PROVE LockOK'
  BY <1>3, StartTurnIsSteady, SteadyKeepsLock DEF ExecuteCronJob
<1>4. ASSUME NEW t \in Turn, TurnStep(t) PROVE LockOK'
  BY <1>4, TurnIsSteady, SteadyKeepsLock, StartKeepsLock
<1>5. ASSUME NEW a \in Agent, AgentStep(a) PROVE LockOK'
  BY <1>5, AgentIsSteady, SteadyKeepsLock
<1>6. CASE CancelContext \/ StopStates
  <2>1. Steady
    BY <1>6 DEF CancelContext, StopStates, Steady
  <2>. QED BY <2>1, SteadyKeepsLock
<1>7. CASE UNCHANGED vars
  <2>1. Steady
    BY <1>7 DEF vars, Steady
  <2>. QED BY <2>1, SteadyKeepsLock
<1>. QED BY <1>1, <1>2, <1>3, <1>4, <1>5, <1>6, <1>7 DEF Next

\* A turn that starts an agent session holds interactiveMu.
THEOREM StartsUnderLock == Spec => []LockOK
<1>1. Init => LockOK
  BY DEF Init, LockOK, StartOK, IdleTurn
<1>. QED BY <1>1, LockKept, Invariance, PTL DEF Spec

-----------------------------------------------------------------------------
(* The refinement.                                                         *)

\* What HolderOf says of a Session and a turn, before and after a step.
LEMMA HolderIs ==
  ASSUME OneTurnPerSession, NEW s \in Session
  PROVE  /\ HolderOf(s) \in Turn \union {Nil}
         /\ \A t \in Turn : HolderOf(s) = t <=> Running(t) /\ turn[t].sess = s
         /\ HolderOf(s) = Nil <=> ~busy[s]
BY NilAssumption DEF HolderOf, OneTurnPerSession

LEMMA HolderWillBe ==
  ASSUME OneTurnPerSession', NEW s \in Session
  PROVE  /\ HolderOf(s)' \in Turn \union {Nil}
         /\ \A t \in Turn : HolderOf(s)' = t <=> Running(t)' /\ turn'[t].sess = s
         /\ HolderOf(s)' = Nil <=> ~busy'[s]
BY NilAssumption DEF HolderOf, OneTurnPerSession

LEMMA HoldersStay ==
  ASSUME OneTurnPerSession, OneTurnPerSession', TurnsHold
  PROVE  [s \in Session |-> HolderOf(s)]' = [s \in Session |-> HolderOf(s)]
<1>1. ASSUME NEW s \in Session PROVE HolderOf(s)' = HolderOf(s)
  <2>1. \A t \in Turn : HolderOf(s)' = t <=> HolderOf(s) = t
    BY HolderIs, HolderWillBe DEF TurnsHold, Running
  <2>. QED BY <2>1, HolderIs, HolderWillBe
<1>. QED BY <1>1

LEMMA LivesStay ==
  ASSUME UNCHANGED closes, \A a \in Agent : proc'[a] = "unborn" <=> proc[a] = "unborn"
  PROVE  [a \in Agent |-> LifeOf(a)]' = [a \in Agent |-> LifeOf(a)]
<1>1. ASSUME NEW a \in Agent PROVE LifeOf(a)' = LifeOf(a)
  BY DEF LifeOf
<1>. QED BY <1>1

LEMMA SilentStutters ==
  ASSUME IInv, IInv', Silent
  PROVE  UNCHANGED Service!vars
BY HoldersStay, LivesStay DEF IInv, Silent, Service!vars

\* An agent session that is the entry of a key is open; it can be closed.
LEMMA EntriesAreOpen ==
  ASSUME IInv, NEW k \in Key, EntryAgent(k) # Nil
  PROVE  EntryAgent(k) \in Agent /\ proc[EntryAgent(k)] # "unborn" /\ closes[EntryAgent(k)] = 0
BY NilAssumption DEF IInv, TypeOK, StateTypeOK, ClosesOK, EntryAgent

LEMMA CleanupIsClose ==
  ASSUME IInv, IInv', NEW k \in Key, CleanupInteractiveState(k), TurnsHold, UNCHANGED engine
  PROVE  [Service!Next]_(Service!vars)
<1>1. CASE EntryAgent(k) = Nil
  <2>1. UNCHANGED <<closes, proc>>
    BY <1>1, NilAssumption DEF CleanupInteractiveState, IInv, TypeOK, AgentTypeOK
  <2>. QED BY <2>1, SilentStutters DEF Silent
<1>2. CASE EntryAgent(k) # Nil
  <2>1. PICK c \in Agent : c = EntryAgent(k) /\ proc[c] # "unborn" /\ closes[c] = 0
    BY <1>2, EntriesAreOpen
  <2>2. UNCHANGED proc /\ closes' = [a \in Agent |-> IF a = c THEN closes[a] + 1 ELSE closes[a]]
    BY <2>1 DEF CleanupInteractiveState
  <2>3. LifeOf(c) = "open" /\ LifeOf(c)' = "closed"
    BY <2>1, <2>2 DEF LifeOf
  <2>4. \A a \in Agent \ {c} : LifeOf(a)' = LifeOf(a)
    BY <2>2 DEF LifeOf, IInv, TypeOK, AgentTypeOK
  <2>5. Service!Close(c)
    BY <2>1, <2>3, <2>4, HoldersStay DEF Service!Close, Service!CloseAll, IInv
  <2>. QED BY <2>1, <2>5 DEF Service!Next
<1>. QED BY <1>1, <1>2

LEMMA StartTurnIsAcquire ==
  ASSUME IInv, IInv', NEW k \in Key, TryStartTurn(k), UNCHANGED <<proc, closes, engine>>
  PROVE  [Service!Next]_(Service!vars)
<1>1. CASE UNCHANGED turn
  BY <1>1, SilentStutters DEF Silent, TurnsHold
<1>2. ASSUME NEW s \in Session, NEW t \in Turn, ~busy[s], turn[t].pc = "idle",
             turn' = [turn EXCEPT ![t] =
                        [IdleTurn EXCEPT !.pc = "start", !.key = k, !.sess = s]]
      PROVE  Service!Acquire(s, t)
  <2>1. HolderOf(s) = Nil /\ \A o \in Session : HolderOf(o) # t
    BY <1>2, HolderIs DEF IInv, Running
  <2>2. /\ turn'[t].pc = "start" /\ turn'[t].sess = s
        /\ \A u \in Turn \ {t} : turn'[u] = turn[u]
    BY <1>2, ControlTyped DEF IdleTurn
  <2>3. HolderOf(s)' = t
    BY <2>2, HolderWillBe DEF IInv, Running
  <2>4. ASSUME NEW o \in Session \ {s} PROVE HolderOf(o)' = HolderOf(o)
    <3>1. \A u \in Turn : HolderOf(o)' = u <=> HolderOf(o) = u
      BY <1>2, <2>2, HolderIs, HolderWillBe DEF IInv, Running
    <3>. QED BY <3>1, HolderIs, HolderWillBe DEF IInv
  <2>. QED BY <2>1, <2>3, <2>4, LivesStay DEF Service!Acquire
<1>. QED BY <1>1, <1>2 DEF TryStartTurn, Service!Next

LEMMA UnlockIsRelease ==
  ASSUME IInv, IInv', NEW t \in Turn, UnlockSession(t)
  PROVE  Service!Next
<1>1. PICK s \in Session : s = turn[t].sess /\ Running(t)
  BY DEF UnlockSession, IInv, TurnsOK, TurnOK, Running
<1>2. turn'[t].pc = "idle" /\ \A u \in Turn \ {t} : turn'[u] = turn[u]
  BY ControlTyped DEF UnlockSession, IdleTurn
<1>3. HolderOf(s) = t /\ HolderOf(s) # Nil
  BY <1>1, NilAssumption, HolderIs DEF IInv
<1>4. HolderOf(s)' = Nil
  BY <1>1, HolderWillBe DEF UnlockSession, IInv, TypeOK, SessionTypeOK
<1>5. ASSUME NEW o \in Session \ {s} PROVE HolderOf(o)' = HolderOf(o)
  <2>1. \A u \in Turn : HolderOf(o)' = u <=> HolderOf(o) = u
    BY <1>1, <1>2, HolderIs, HolderWillBe DEF IInv, Running
  <2>. QED BY <2>1, HolderIs, HolderWillBe DEF IInv
<1>6. UNCHANGED <<closes, proc, engine>>
  BY DEF UnlockSession
<1>7. Service!Release(s)
  BY <1>1, <1>3, <1>4, <1>5, <1>6, LivesStay DEF Service!Release
<1>. QED BY <1>1, <1>7 DEF Service!Next

LEMMA StartIsOpen ==
  ASSUME IInv, IInv', LockOK, NEW t \in Turn, StartSession(t)
  PROVE  Service!Next
<1>1. PICK a \in Agent :
        /\ proc[a] = "unborn"
        /\ proc' = [proc EXCEPT ![a] = "alive"]
  BY DEF StartSession, Fresh
<1>2. PICK x \in State : turn' = [turn EXCEPT ![t].pc = "send", ![t].st = x]
  BY DEF StartSession
<1>3. turn[t].pc = "starting"
  BY DEF StartSession
<1>4. TurnsHold
  BY <1>2, <1>3, TurnGetsState
<1>5. UNCHANGED <<closes, engine>> /\ engine # "stopped"
  BY <1>3 DEF StartSession, LockOK, StartOK
<1>6. LifeOf(a) = "none" /\ LifeOf(a)' = "open"
  BY <1>1, <1>5 DEF LifeOf, IInv, TypeOK, AgentTypeOK, ClosesOK
<1>7. \A b \in Agent \ {a} : LifeOf(b)' = LifeOf(b)
  BY <1>1, <1>5 DEF LifeOf, IInv, TypeOK, AgentTypeOK
<1>8. Service!Open(a)
  BY <1>4, <1>5, <1>6, <1>7, HoldersStay DEF Service!Open, IInv
<1>. QED BY <1>1, <1>8 DEF Service!Next

LEMMA StopIsShutdown ==
  ASSUME IInv, IInv', StopStates
  PROVE  Service!Next
<1>. DEFINE closing == {a \in Agent : \E k \in Key : EntryAgent(k) = a}
<1>1. \A a \in closing : proc[a] # "unborn" /\ closes[a] = 0
  BY NilAssumption, EntriesAreOpen
<1>2. /\ UNCHANGED <<proc, turn>> /\ engine # "stopped" /\ engine' = "stopped"
      /\ closes' = [a \in Agent |-> IF a \in closing THEN closes[a] + 1 ELSE closes[a]]
  BY DEF StopStates
<1>3. closing \in SUBSET Agent
  OBVIOUS
<1>. HIDE DEF closing
<1>4. \A a \in closing : LifeOf(a) = "open" /\ LifeOf(a)' = "closed"
  BY <1>1, <1>2, <1>3 DEF LifeOf
<1>5. \A a \in Agent \ closing : LifeOf(a)' = LifeOf(a)
  BY <1>2 DEF LifeOf, IInv, TypeOK, AgentTypeOK
<1>6. UNCHANGED [s \in Session |-> HolderOf(s)]
  BY <1>2, HoldersStay DEF TurnsHold, IInv
<1>7. Service!Shutdown(closing)
  BY <1>2, <1>3, <1>4, <1>5, <1>6 DEF Service!Shutdown, Service!CloseAll
<1>. QED BY <1>3, <1>7 DEF Service!Next

\* The steps of a turn that the abstract service does not see.
LEMMA TurnIsSilent ==
  ASSUME IInv, NEW t \in Turn,
         \/ BeginTurn(t) \/ ReuseState(t) \/ EnterCreate(t) \/ SkipCreate(t)
         \/ StartSessionFails(t) \/ SendPrompt(t) \/ SendFails(t) \/ TextEvent(t)
         \/ AutoApprove(t) \/ PromptUser(t) \/ SetPending(t) \/ PermissionResolved(t)
         \/ ResultEvent(t) \/ ErrorEvent(t) \/ ContextDone(t)
  PROVE  Silent
<1>1. CASE BeginTurn(t)
  BY <1>1, TurnMoves DEF BeginTurn, TurnPC, Silent
<1>2. CASE ReuseState(t)
  BY <1>2, ControlTyped DEF ReuseState, TurnRecord, TurnsHold, Silent
<1>3. CASE EnterCreate(t)
  BY <1>3, TurnGoes DEF EnterCreate, TurnPC, Silent
<1>4. CASE SkipCreate(t) \/ StartSessionFails(t)
  BY <1>4, ControlTyped DEF SkipCreate, StartSessionFails, TurnRecord, TurnsHold, Silent
<1>5. CASE SendPrompt(t) \/ SendFails(t) \/ ContextDone(t)
  BY <1>5, TurnMoves DEF SendPrompt, SendFails, ContextDone, TurnPC, Silent
<1>6. CASE TextEvent(t) \/ AutoApprove(t)
  BY <1>6 DEF TextEvent, AutoApprove, TurnsHold, Silent
<1>7. CASE PromptUser(t) \/ PermissionResolved(t)
  BY <1>7, ControlTyped DEF PromptUser, PermissionResolved, Receive, TurnRecord, TurnsHold, Silent
<1>8. CASE SetPending(t)
  BY <1>8, TurnMoves DEF SetPending, TurnPC, Silent
<1>9. CASE ResultEvent(t) \/ ErrorEvent(t)
  BY <1>9, TurnMoves DEF ResultEvent, ErrorEvent, Receive, TurnPC, Silent
<1>. QED BY <1>1, <1>2, <1>3, <1>4, <1>5, <1>6, <1>7, <1>8, <1>9

LEMMA TurnRefines ==
  ASSUME IInv, IInv', LockOK, NEW t \in Turn, TurnStep(t)
  PROVE  [Service!Next]_(Service!vars)
<1>1. CASE StartSession(t)
  BY <1>1, StartIsOpen
<1>2. CASE UnlockSession(t)
  BY <1>2, UnlockIsRelease
<1>3. CASE RestartAgent(t) \/ ChannelClosed(t) \/ IdleTimeout(t)
  <2>1. turn[t].pc \in {"send", "loop"}
    BY <1>3 DEF RestartAgent, ChannelClosed, IdleTimeout
  <2>2. turn[t].key \in Key
    BY <2>1 DEF IInv, TurnsOK, TurnOK
  <2>3. CleanupInteractiveState(turn[t].key) /\ UNCHANGED engine
    BY <1>3 DEF RestartAgent, ChannelClosed, IdleTimeout
  <2>4. TurnsHold
    <3>1. CASE RestartAgent(t)
      BY <2>1, <3>1, ControlTyped DEF RestartAgent, TurnRecord, TurnsHold
    <3>2. CASE ChannelClosed(t) \/ IdleTimeout(t)
      BY <2>1, <3>2, TurnMoves DEF ChannelClosed, IdleTimeout, TurnPC
    <3>. QED BY <1>3, <3>1, <3>2
  <2>. QED BY <2>2, <2>3, <2>4, CleanupIsClose
<1>. QED BY <1>1, <1>2, <1>3, TurnIsSilent, SilentStutters DEF TurnStep

LEMMA HandlerRefines ==
  ASSUME IInv, IInv', NEW h \in Handler, HandlerStep(h)
  PROVE  [Service!Next]_(Service!vars)
<1>1. CASE LockSession(h)
  <2>1. handler[h].key \in Key
    BY <1>1 DEF LockSession, IInv, HandlersOK, HandlerOK
  <2>. QED BY <1>1, <2>1, StartTurnIsAcquire DEF LockSession
<1>2. CASE StopCleanup(h)
  <2>1. handler[h].key \in Key
    BY <1>2 DEF StopCleanup, IInv, HandlersOK, HandlerOK
  <2>. QED BY <1>2, <2>1, CleanupIsClose DEF StopCleanup, TurnsHold
<1>3. CASE ~LockSession(h) /\ ~StopCleanup(h)
  <2>1. UNCHANGED <<turn, closes, proc, engine>>
    BY <1>3 DEF HandlerStep, ReadPending, RespondToAgent, RespondPermission, ClearPending, FinishNew,
       FinishSwitch, FinishModel, StopResolve, FinishStop, ToggleQuiet
  <2>. QED BY <2>1, SilentStutters DEF Silent, TurnsHold
<1>. QED BY <1>1, <1>2, <1>3

LEMMA ReceiveRefines ==
  ASSUME IInv, IInv', NEW h \in Handler, NEW k \in Key, HandlerReceive(h, k)
  PROVE  [Service!Next]_(Service!vars)
<1>1. ASSUME NEW cmd \in Input, CommandCleanup(h, k, cmd) PROVE [Service!Next]_(Service!vars)
  BY <1>1, CleanupIsClose DEF CommandCleanup, TurnsHold
<1>2. CASE UNCHANGED <<turn, closes, proc, engine>>
  BY <1>2, SilentStutters DEF Silent, TurnsHold
<1>3. \/ \E cmd \in Input : CommandCleanup(h, k, cmd)
      \/ UNCHANGED <<turn, closes, proc, engine>>
  BY DEF HandlerReceive, ReceiveMessage, ReceiveStop, ReceiveQuiet, ReceiveCompress
<1>. QED BY <1>1, <1>2, <1>3

LEMMA AgentRefines ==
  ASSUME IInv, IInv', NEW a \in Agent, AgentStep(a)
  PROVE  UNCHANGED Service!vars
<1>1. Silent
  BY DEF AgentStep, AgentText, AgentAsk, AgentFinish, AgentExit, AgentCloseEvents, TurnsHold, Silent,
     IInv, TypeOK, AgentTypeOK
<1>. QED BY <1>1, SilentStutters

LEMMA StepRefines ==
  IInv /\ IInv' /\ LockOK /\ [Next]_vars => [Service!Next]_(Service!vars)
<1>. SUFFICES ASSUME IInv, IInv', LockOK, [Next]_vars PROVE [Service!Next]_(Service!vars)
  OBVIOUS
<1>1. ASSUME NEW k \in Key, ExecuteCronJob(k) PROVE [Service!Next]_(Service!vars)
  BY <1>1, StartTurnIsAcquire DEF ExecuteCronJob
<1>2. CASE CancelContext \/ UNCHANGED vars
  <2>1. Silent
    BY <1>2 DEF CancelContext, vars, Silent, TurnsHold
  <2>. QED BY <2>1, SilentStutters
<1>. QED
  BY <1>1, <1>2, ReceiveRefines, HandlerRefines, TurnRefines, AgentRefines, StopIsShutdown DEF Next

\* The engine implements AgentService: a Session is worked on by one turn at a
\* time, an agent session is opened once and closed at most once, and nothing
\* is opened after Engine.Stop.
THEOREM Refinement == Spec => ImplementsService
<1>1. Init => Service!Init
  <2>. SUFFICES ASSUME Init PROVE Service!Init
    OBVIOUS
  <2>1. \A s \in Session : HolderOf(s) = Nil
    BY DEF Init, HolderOf, Running, IdleTurn
  <2>2. \A a \in Agent : LifeOf(a) = "none"
    BY DEF Init, LifeOf
  <2>. QED BY <2>1, <2>2 DEF Init, Service!Init
<1>. QED BY <1>1, StepRefines, Invariance, StartsUnderLock, PTL DEF Spec, ImplementsService, Service!Spec

-----------------------------------------------------------------------------
(* No agent process is forgotten.                                          *)

\* Nobody is between the two critical sections of cmdQuiet.
NoQuiet == \A h \in Handler : handler[h].pc # "quiet"

\* A step that changes no entry forgets none.
LEMMA EntriesStay ==
  ASSUME NoForgottenAgent, UNCHANGED <<stateOf, agentOf, closes>>,
         \A a \in Agent : proc'[a] = "alive" => proc[a] = "alive"
  PROVE  NoForgottenAgent'
BY DEF NoForgottenAgent, EntryAgent

\* cleanupInteractiveState closes what it takes out of the map.
LEMMA CleanupForgetsNone ==
  ASSUME IInv, NoForgottenAgent, NEW k \in Key, CleanupInteractiveState(k)
  PROVE  NoForgottenAgent'
<1>. SUFFICES ASSUME NEW a \in Agent, proc'[a] = "alive", closes'[a] = 0
              PROVE  \E l \in Key : EntryAgent(l)' = a
  BY DEF NoForgottenAgent
<1>1. a # EntryAgent(k) /\ closes[a] = 0 /\ proc[a] = "alive"
  BY DEF CleanupInteractiveState, IInv, TypeOK, AgentTypeOK
<1>2. PICK l \in Key : EntryAgent(l) = a
  BY <1>1 DEF NoForgottenAgent
<1>3. EntryAgent(l)' = a
  BY <1>1, <1>2 DEF CleanupInteractiveState, EntryAgent, IInv, TypeOK, StateTypeOK
<1>. QED BY <1>3

\* A new state replaces only an entry that has no live agent session.
LEMMA StoreForgetsNone ==
  ASSUME IInv, NoForgottenAgent, NEW k \in Key, NEW x \in State, NEW b, NEW q,
         NeedsAgent(k), StoreState(k, x, b, q), UNCHANGED closes,
         \A a \in Agent : proc'[a] = "alive" => proc[a] = "alive" \/ a = b
  PROVE  NoForgottenAgent'
<1>. SUFFICES ASSUME NEW a \in Agent, proc'[a] = "alive", closes'[a] = 0
              PROVE  \E l \in Key : EntryAgent(l)' = a
  BY DEF NoForgottenAgent
<1>1. x \notin allocated /\ stateOf' = [stateOf EXCEPT ![k] = x] /\ agentOf' = [agentOf EXCEPT ![x] = b]
  BY DEF StoreState, Fresh
<1>2. CASE a = b
  <2>1. EntryAgent(k)' = a
    BY <1>1, <1>2, NilAssumption DEF EntryAgent, IInv, TypeOK, StateTypeOK
  <2>. QED BY <2>1
<1>3. CASE a # b
  <2>1. PICK l \in Key : EntryAgent(l) = a
    BY <1>3 DEF NoForgottenAgent
  <2>2. l # k
    BY <1>3, <2>1, NilAssumption DEF NeedsAgent
  <2>3. EntryAgent(l)' = a
    BY <1>1, <2>1, <2>2, NilAssumption DEF EntryAgent, IInv, TypeOK, StateTypeOK, MapOK
  <2>. QED BY <2>3
<1>. QED BY <1>2, <1>3

LEMMA TurnForgetsNone ==
  ASSUME IInv, LockOK, NoForgottenAgent, NEW t \in Turn, TurnStep(t)
  PROVE  NoForgottenAgent'
<1>. DEFINE k == turn[t].key
<1>1. turn[t].pc # "idle" => k \in Key
  BY DEF IInv, TurnsOK, TurnOK
<1>2. CASE SkipCreate(t)
  <2>1. PICK x \in State : StoreState(k, x, Nil, EntryQuiet(k))
    BY <1>2 DEF SkipCreate
  <2>2. k \in Key /\ NeedsAgent(k) /\ UNCHANGED <<closes, proc>>
    BY <1>1, <1>2 DEF SkipCreate
  <2>. QED BY <2>1, <2>2, StoreForgetsNone
<1>3. CASE StartSession(t) \/ StartSessionFails(t)
  <2>1. k \in Key /\ NeedsAgent(k) /\ UNCHANGED closes
    BY <1>1, <1>3 DEF StartSession, StartSessionFails, LockOK, StartOK
  <2>2. PICK x \in State, b \in Agent \union {Nil} :
          /\ StoreState(k, x, b, EntryQuiet(k))
          /\ UNCHANGED proc \/ proc' = [proc EXCEPT ![b] = "alive"]
    BY <1>3 DEF StartSession, StartSessionFails
  <2>3. \A a \in Agent : proc'[a] = "alive" => proc[a] = "alive" \/ a = b
    BY <2>2 DEF IInv, TypeOK, AgentTypeOK
  <2>. QED BY <2>1, <2>2, <2>3, StoreForgetsNone
<1>4. CASE RestartAgent(t) \/ ChannelClosed(t) \/ IdleTimeout(t)
  <2>1. k \in Key /\ CleanupInteractiveState(k)
    BY <1>1, <1>4 DEF RestartAgent, ChannelClosed, IdleTimeout
  <2>. QED BY <2>1, CleanupForgetsNone
<1>5. CASE UNCHANGED <<stateOf, agentOf, closes, proc>>
  BY <1>5, EntriesStay
<1>6. \/ SkipCreate(t) \/ StartSession(t) \/ StartSessionFails(t)
      \/ RestartAgent(t) \/ ChannelClosed(t) \/ IdleTimeout(t)
      \/ UNCHANGED <<stateOf, agentOf, closes, proc>>
  BY DEF TurnStep, BeginTurn, ReuseState, EnterCreate, SendPrompt, SendFails, TextEvent, AutoApprove,
     PromptUser, SetPending, PermissionResolved, ResultEvent, ErrorEvent, ContextDone, UnlockSession
<1>. QED BY <1>2, <1>3, <1>4, <1>5, <1>6

LEMMA HandlerForgetsNone ==
  ASSUME IInv, NoQuiet, NoForgottenAgent, NEW h \in Handler, HandlerStep(h)
  PROVE  NoForgottenAgent'
<1>. DEFINE k == handler[h].key
<1>1. handler[h].pc # "idle" => k \in Key
  BY DEF IInv, HandlersOK, HandlerOK
<1>2. CASE StopCleanup(h)
  BY <1>1, <1>2, CleanupForgetsNone DEF StopCleanup
<1>3. CASE FinishStop(h) /\ stateOf[k] = Nil /\ \E y \in State : StoreState(k, y, Nil, TRUE)
  <2>1. k \in Key /\ NeedsAgent(k) /\ UNCHANGED <<closes, proc>>
    BY <1>1, <1>3 DEF FinishStop, NeedsAgent, EntryAgent
  <2>. QED BY <1>3, <2>1, StoreForgetsNone
<1>4. CASE UNCHANGED <<stateOf, agentOf, closes, proc>>
  BY <1>4, EntriesStay
<1>5. \/ StopCleanup(h)
      \/ FinishStop(h) /\ stateOf[k] = Nil /\ \E y \in State : StoreState(k, y, Nil, TRUE)
      \/ UNCHANGED <<stateOf, agentOf, closes, proc>>
  BY DEF HandlerStep, ReadPending, RespondToAgent, RespondPermission, ClearPending, LockSession,
     FinishNew, FinishSwitch, FinishModel, StopResolve, FinishStop, ToggleQuiet, NoQuiet
<1>. QED BY <1>2, <1>3, <1>4, <1>5

LEMMA NextForgetsNone ==
  IInv /\ LockOK /\ NoQuiet /\ NoForgottenAgent /\ [Next]_vars => NoForgottenAgent'
<1>. SUFFICES ASSUME IInv, LockOK, NoQuiet, NoForgottenAgent, [Next]_vars PROVE NoForgottenAgent'
  OBVIOUS
<1>1. ASSUME NEW h \in Handler, NEW k \in Key, HandlerReceive(h, k) PROVE NoForgottenAgent'
  <2>1. CleanupInteractiveState(k) \/ UNCHANGED <<stateOf, agentOf, closes, proc>>
    BY <1>1 DEF HandlerReceive, ReceiveMessage, CommandCleanup, ReceiveStop, ReceiveQuiet, ReceiveCompress
  <2>. QED BY <2>1, CleanupForgetsNone, EntriesStay
<1>2. ASSUME NEW a \in Agent, AgentStep(a) PROVE NoForgottenAgent'
  <2>1. /\ UNCHANGED <<stateOf, agentOf, closes>>
        /\ \A b \in Agent : proc'[b] = "alive" => proc[b] = "alive"
    BY <1>2 DEF AgentStep, AgentText, AgentAsk, AgentFinish, AgentExit, AgentCloseEvents,
       IInv, TypeOK, AgentTypeOK
  <2>. QED BY <2>1, EntriesStay
<1>3. CASE StopStates
  <2>. SUFFICES ASSUME NEW a \in Agent, proc'[a] = "alive", closes'[a] = 0 PROVE FALSE
    BY DEF NoForgottenAgent
  <2>1. proc[a] = "alive" /\ closes[a] = 0 /\ ~\E k \in Key : EntryAgent(k) = a
    BY <1>3 DEF StopStates, IInv, TypeOK, AgentTypeOK
  <2>. QED BY <2>1 DEF NoForgottenAgent
<1>4. CASE CancelContext \/ UNCHANGED vars \/ \E k \in Key : ExecuteCronJob(k)
  <2>1. UNCHANGED <<stateOf, agentOf, closes, proc>>
    BY <1>4 DEF CancelContext, vars, ExecuteCronJob
  <2>. QED BY <2>1, EntriesStay
<1>. QED BY <1>1, <1>2, <1>3, <1>4, TurnForgetsNone, HandlerForgetsNone DEF Next

LEMMA MovesNotQuiet ==
  ASSUME IInv, NoQuiet, NEW h \in Handler,
         \/ \E pc \in HandlerPC \ {"quiet"} : \E cmd, k, x : HandlerStart(h, pc, cmd, k, x)
         \/ \E pc \in HandlerPC \ {"quiet"} : HandlerGoto(h, pc)
         \/ HandlerDone(h)
  PROVE  NoQuiet'
<1>1. ASSUME NEW pc \in HandlerPC \ {"quiet"}, NEW cmd, NEW k, NEW x, HandlerStart(h, pc, cmd, k, x)
      PROVE  NoQuiet'
  BY <1>1, ControlTyped DEF HandlerStart, IdleHandler, NoQuiet
<1>2. ASSUME NEW pc \in HandlerPC \ {"quiet"}, HandlerGoto(h, pc) PROVE NoQuiet'
  BY <1>2, ControlTyped DEF HandlerGoto, HandlerRecord, NoQuiet
<1>3. CASE HandlerDone(h)
  BY <1>3, ControlTyped DEF HandlerDone, IdleHandler, NoQuiet
<1>. QED BY <1>1, <1>2, <1>3

LEMMA NextNoQuiet ==
  "quiet" \notin Input /\ IInv /\ NoQuiet /\ [Next]_vars => NoQuiet'
<1>. SUFFICES ASSUME "quiet" \notin Input, IInv, NoQuiet, [Next]_vars PROVE NoQuiet'
  OBVIOUS
<1>1. ASSUME NEW h \in Handler, NEW k \in Key, HandlerReceive(h, k) PROVE NoQuiet'
  <2>1. ~ReceiveQuiet(h, k)
    BY DEF ReceiveQuiet, Arrive
  <2>2. \/ \E pc \in HandlerPC \ {"quiet"} : \E cmd, l, x : HandlerStart(h, pc, cmd, l, x)
        \/ HandlerDone(h)
    <3>1. ASSUME NEW cmd \in Input, ReceiveMessage(h, k, cmd)
          PROVE  \E pc \in HandlerPC \ {"quiet"} : \E c, l, x : HandlerStart(h, pc, c, l, x)
      BY <3>1 DEF ReceiveMessage, HandlerLock, HandlerPC
    <3>2. ASSUME NEW cmd \in Input, CommandCleanup(h, k, cmd)
          PROVE  \/ \E pc \in HandlerPC \ {"quiet"} : \E c, l, x : HandlerStart(h, pc, c, l, x)
                 \/ HandlerDone(h)
      BY <3>2 DEF CommandCleanup, HandlerPC
    <3>3. ASSUME ReceiveStop(h, k) \/ ReceiveCompress(h, k)
          PROVE  \E pc \in HandlerPC \ {"quiet"} : \E c, l, x : HandlerStart(h, pc, c, l, x)
      BY <3>3 DEF ReceiveStop, ReceiveCompress, HandlerLock, HandlerPC
    <3>. QED BY <1>1, <2>1, <3>1, <3>2, <3>3 DEF HandlerReceive
  <2>. QED BY <2>2, MovesNotQuiet
<1>2. ASSUME NEW h \in Handler, HandlerStep(h) PROVE NoQuiet'
  <2>1. CASE RespondToAgent(h) \/ StopCleanup(h)
    BY <2>1, MovesNotQuiet DEF RespondToAgent, StopCleanup, HandlerPC
  <2>2. CASE ReadPending(h)
    <3>1. CASE HandlerLock(h, handler[h].key) \/ HandlerDone(h)
      BY <3>1, MovesNotQuiet DEF HandlerLock, HandlerPC
    <3>2. CASE handler' = [handler EXCEPT ![h].pc = "respond", ![h].req = pending[handler[h].st]]
      BY <3>2, ControlTyped DEF HandlerRecord, NoQuiet
    <3>. QED BY <2>2, <3>1, <3>2 DEF ReadPending
  <2>3. CASE StopResolve(h)
    BY <2>3, ControlTyped DEF StopResolve, HandlerRecord, NoQuiet
  <2>4. CASE \/ ClearPending(h) \/ LockSession(h) \/ FinishNew(h) \/ FinishSwitch(h)
             \/ FinishModel(h) \/ FinishStop(h) \/ ToggleQuiet(h)
    <3>1. HandlerDone(h)
      BY <2>4 DEF ClearPending, LockSession, FinishNew, FinishSwitch, FinishModel, FinishStop, ToggleQuiet
    <3>. QED BY <3>1, MovesNotQuiet
  <2>. QED BY <1>2, <2>1, <2>2, <2>3, <2>4 DEF HandlerStep
<1>3. CASE UNCHANGED handler
  BY <1>3 DEF NoQuiet
<1>4. \/ \E h \in Handler, k \in Key : HandlerReceive(h, k)
      \/ \E h \in Handler : HandlerStep(h)
      \/ UNCHANGED handler
  BY DEF Next, vars, ExecuteCronJob, TurnStep, BeginTurn, ReuseState, EnterCreate, SkipCreate,
     StartSession, StartSessionFails, SendPrompt, SendFails, RestartAgent, TextEvent, AutoApprove,
     PromptUser, SetPending, PermissionResolved, ResultEvent, ErrorEvent, ChannelClosed, IdleTimeout,
     ContextDone, UnlockSession, AgentStep, AgentText, AgentAsk, AgentFinish, AgentExit,
     AgentCloseEvents, CancelContext, StopStates
<1>. QED BY <1>1, <1>2, <1>3, <1>4

\* No agent process is forgotten when nobody uses /quiet: one that was never
\* closed is the entry of a key, also when commands, turns, timeouts and the
\* shutdown replace entries in any order. (cmdQuiet stores a state over
\* whatever the map holds by then.)
THEOREM NoneForgotten == "quiet" \notin Input => (Spec => []NoForgottenAgent)
<1>. SUFFICES ASSUME "quiet" \notin Input PROVE Spec => []NoForgottenAgent
  OBVIOUS
<1>1. Init => NoQuiet /\ NoForgottenAgent
  BY DEF Init, NoQuiet, IdleHandler, NoForgottenAgent
<1>2. IInv /\ NoQuiet /\ [Next]_vars => NoQuiet'
  BY NextNoQuiet
<1>. QED BY <1>1, <1>2, NextForgetsNone, Invariance, StartsUnderLock, PTL DEF Spec
=============================================================================
