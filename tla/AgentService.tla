---------------------------- MODULE AgentService ----------------------------
(***************************************************************************)
(* What the interactive core of core/engine.go promises, without saying    *)
(* how: a Session (one conversation of a user with the agent) is worked on *)
(* by one turn at a time; an agent session is opened once and closed at    *)
(* most once; after the shutdown nothing is opened any more.               *)
(* Engine implements this specification.                                   *)
(***************************************************************************)
CONSTANTS
  Session,  \* conversations of users
  Turn,     \* goroutines that may work on one
  Agent,    \* agent sessions
  Nil

VARIABLES
  holder,   \* the turn that works on a Session, or Nil
  life,     \* "none", "open" or "closed" for each agent session
  down      \* the service has been shut down

vars == <<holder, life, down>>

Init ==
  /\ holder = [s \in Session |-> Nil]
  /\ life = [a \in Agent |-> "none"]
  /\ down = FALSE

\* TryLock: a turn that works on nothing takes a free Session.
Acquire(s, t) ==
  /\ holder[s] = Nil
  /\ \A o \in Session : holder[o] # t
  /\ holder' = [holder EXCEPT ![s] = t]
  /\ UNCHANGED <<life, down>>

\* The turn ends.
Release(s) ==
  /\ holder[s] # Nil
  /\ holder' = [holder EXCEPT ![s] = Nil]
  /\ UNCHANGED <<life, down>>

\* An agent session is started for a turn.
Open(a) ==
  /\ ~down
  /\ life[a] = "none"
  /\ life' = [life EXCEPT ![a] = "open"]
  /\ UNCHANGED <<holder, down>>

CloseAll(closing) ==
  /\ \A a \in closing : life[a] = "open"
  /\ life' = [a \in Agent |-> IF a \in closing THEN "closed" ELSE life[a]]

\* A command, a turn or a timeout closes an agent session.
Close(a) == CloseAll({a}) /\ UNCHANGED <<holder, down>>

\* The shutdown closes agent sessions that are open.
Shutdown(closing) == ~down /\ down' = TRUE /\ CloseAll(closing) /\ UNCHANGED holder

Next ==
  \/ \E s \in Session, t \in Turn : Acquire(s, t)
  \/ \E s \in Session : Release(s)
  \/ \E a \in Agent : Open(a) \/ Close(a)
  \/ \E closing \in SUBSET Agent : Shutdown(closing)

Spec == Init /\ [][Next]_vars
=============================================================================
