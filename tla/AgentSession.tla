---------------------------- MODULE AgentSession ----------------------------
(***************************************************************************)
(* What the AgentSession of core/interfaces.go promises the engine, for    *)
(* every agent alike. A worker is a process of the agent with the          *)
(* goroutines that read it. Workers start only on a session that was not   *)
(* stopped; an event comes from a worker and goes into a channel that is   *)
(* open; the channel closes when the last worker is done or when Close     *)
(* returns, and stays closed. A send on a closed channel ends the program: *)
(* it can only come from a worker that Close has left behind, and a Close  *)
(* that waits as long as it takes leaves none behind.                      *)
(* PromptSession, ClaudeSession and IFlowSession implement this.           *)
(***************************************************************************)
EXTENDS Naturals

CONSTANTS
  Worker,
  Room,     \* of the events channel
  Patient   \* Close waits as long as it takes

VARIABLES
  working,  \* the workers under way
  stopped,  \* the context of the session is done
  waiting,  \* events in the channel
  open,     \* the channel is open
  returned, \* Close has returned
  panicked  \* a worker sent on the closed channel

vars == <<working, stopped, waiting, open, returned, panicked>>

\* An agent starts its process with the session or with each prompt.
Init ==
  /\ working \subseteq Worker
  /\ stopped = FALSE
  /\ waiting = 0
  /\ open = TRUE
  /\ returned = FALSE
  /\ panicked = FALSE

Start(w) ==
  /\ ~stopped /\ open
  /\ w \notin working
  /\ working' = working \union {w}
  /\ UNCHANGED <<stopped, waiting, open, returned, panicked>>

\* A worker puts an event into the channel or does not, and goes on, or is done; the
\* last one may close the channel.
Work(w) ==
  /\ w \in working
  /\ \/ UNCHANGED waiting
     \/ open /\ waiting < Room /\ waiting' = waiting + 1
  /\ \/ UNCHANGED <<working, open>>
     \/ working' = working \ {w} /\ UNCHANGED open
     \/ working = {w} /\ working' = {} /\ open' = FALSE
  /\ UNCHANGED <<stopped, returned, panicked>>

\* The engine takes an event, also from a channel that is closed.
Take ==
  /\ waiting > 0
  /\ waiting' = waiting - 1
  /\ UNCHANGED <<working, stopped, open, returned, panicked>>

\* Close begins, or the engine stops.
Stop ==
  /\ stopped' = TRUE
  /\ UNCHANGED <<working, waiting, open, returned, panicked>>

Return ==
  /\ stopped /\ ~returned
  /\ Patient => working = {}
  /\ returned' = TRUE
  /\ open' = FALSE
  /\ UNCHANGED <<working, stopped, waiting, panicked>>

Panic(w) ==
  /\ w \in working
  /\ returned /\ ~open
  /\ panicked' = TRUE
  /\ working' \in {working, working \ {w}}
  /\ UNCHANGED <<stopped, waiting, open, returned>>

Next ==
  \/ \E w \in Worker : Start(w) \/ Work(w) \/ Panic(w)
  \/ Take \/ Stop \/ Return

Spec == Init /\ [][Next]_vars
=============================================================================
