--------------------------- MODULE PromptSession ---------------------------
(***************************************************************************)
(* The AgentSession of the agents that start one process per prompt:       *)
(* agent/codex, cursor, gemini, opencode and qoder. Their Send, readLoop   *)
(* and Close are the same code; they differ in the lines they understand.  *)
(*                                                                         *)
(* The turn of the engine calls Send and takes events; each process has a  *)
(* readLoop goroutine that puts events into the channel they all share;    *)
(* Close comes from a command, a timeout or the shutdown, at any time. A   *)
(* send on the closed channel panics and ends the program.                 *)
(***************************************************************************)
EXTENDS Naturals, Sequences, FiniteSets

CONSTANTS
  MaxCall,    \* bound on the prompts
  Capacity,   \* of the events channel
  NoConv      \* "", no conversation

Call == 1..MaxCall
Conv == 0..MaxCall \union {NoConv}  \* named after the call that opened it, 0 for an old one

ASSUME PromptAssumption == MaxCall \in Nat /\ Capacity \in Nat /\ NoConv \notin 0..MaxCall

VARIABLES
  adapter,
  alive,
  cancelled, \* the context of the session is done
  sessionID, \* threadID, chatID or sessionID of the adapter
  events,    \* the channel
  closed,    \* the channel is closed
  sender,    \* the turn: "idle", inside Send or taking events, and its prompt
  resume,    \* the conversation a process was told to resume
  proc,      \* the process of each prompt
  reader,    \* its readLoop
  closer,    \* Close: "no", "waiting" or "done"
  abandoned, \* Close gave its wait up
  crossed,   \* processes whose Send was between Start and wg.Add when the wait ended
  crash,     \* the readLoop that panicked, or 0
  overtaken  \* a turn ended with an error of the process of an earlier prompt

promptVars == <<adapter, alive, cancelled, sessionID, events, closed, sender, resume, proc,
                reader, closer, abandoned, crossed, crash, overtaken>>

EventRecord == [from : Call, type : {"text", "result", "error"}, sid : Conv]
NoEvent == <<>>
NoReader == [pc |-> "none", hand |-> NoEvent, named |-> FALSE, done |-> FALSE]

PromptTypeOK ==
  /\ adapter \in {"codex", "cursor", "gemini", "opencode", "qoder"}
  /\ alive \in BOOLEAN
  /\ cancelled \in BOOLEAN
  /\ sessionID \in Conv
  /\ events \in Seq(EventRecord) /\ Len(events) <= Capacity
  /\ closed \in BOOLEAN
  /\ sender \in [pc : {"idle", "start", "count", "loop"}, call : 0..MaxCall]
  /\ resume \in [Call -> Conv]
  /\ proc \in [Call -> {"none", "running", "ended"}]
  /\ \A p \in Call :
       /\ reader[p].pc \in {"none", "scan", "emit", "last", "wait", "report", "gone"}
       /\ reader[p].hand \in {NoEvent} \union EventRecord
       /\ reader[p].named \in BOOLEAN /\ reader[p].done \in BOOLEAN
  /\ closer \in {"no", "waiting", "done"}
  /\ abandoned \in BOOLEAN
  /\ crossed \subseteq Call
  /\ crash \in 0..MaxCall
  /\ overtaken \in BOOLEAN

\* new...Session, with a conversation to resume or without.
PromptInit ==
  /\ adapter \in {"codex", "cursor", "gemini", "opencode", "qoder"}
  /\ alive = TRUE
  /\ cancelled = FALSE
  /\ sessionID \in {0, NoConv}
  /\ events = <<>>
  /\ closed = FALSE
  /\ sender = [pc |-> "idle", call |-> 0]
  /\ resume = [p \in Call |-> NoConv]
  /\ proc = [p \in Call |-> "none"]
  /\ reader = [p \in Call |-> NoReader]
  /\ closer = "no"
  /\ abandoned = FALSE
  /\ crossed = {}
  /\ crash = 0
  /\ overtaken = FALSE

-----------------------------------------------------------------------------
(* What the adapters make of a line: does it name the conversation, and    *)
(* which event does it become?                                             *)

Line(stores, type) == [stores |-> stores, type |-> type]

\* thread.started only names the thread; error lines only reach the log.
CodexLines == {Line(TRUE, "none"), Line(FALSE, "text"), Line(FALSE, "result")}
CursorLines == {Line(TRUE, "text"), Line(FALSE, "text"), Line(TRUE, "result")}
\* An error line is an event of its own, whatever its severity.
GeminiLines ==
  {Line(TRUE, "text"), Line(FALSE, "text"), Line(FALSE, "error"), Line(FALSE, "result")}
\* Each step_finish is a result.
OpenCodeLines == {Line(TRUE, "none"), Line(FALSE, "text"), Line(FALSE, "result")}
QoderLines == {Line(TRUE, "none"), Line(TRUE, "text"), Line(TRUE, "result")}

Lines ==
  CASE adapter = "codex" -> CodexLines
    [] adapter = "cursor" -> CursorLines
    [] adapter = "gemini" -> GeminiLines
    [] adapter = "opencode" -> OpenCodeLines
    [] adapter = "qoder" -> QoderLines

\* A resumed conversation keeps its name.
ConvOf(p) == IF resume[p] = NoConv THEN p ELSE resume[p]

\* What the processes write: the result is the last line and comes when the
\* conversation has its name, but opencode goes on after a step.
Writes(p, line) ==
  /\ ~reader[p].done \/ adapter = "opencode"
  /\ line.type = "result" => line.stores \/ reader[p].named

-----------------------------------------------------------------------------
(* Send and the turn that calls it.                                        *)

\* Send: alive and the conversation are read ...
BeginSend(p) ==
  /\ sender.pc = "idle"
  /\ p = sender.call + 1
  /\ alive
  /\ sender' = [pc |-> "start", call |-> p]
  /\ resume' = [resume EXCEPT ![p] = sessionID]
  /\ UNCHANGED <<adapter, alive, cancelled, sessionID, events, closed, proc, reader, closer,
                 abandoned, crossed, crash, overtaken>>

\* ... the process starts, unless the context is done ...
StartProcess ==
  /\ sender.pc = "start"
  /\ ~cancelled
  /\ proc' = [proc EXCEPT ![sender.call] = "running"]
  /\ sender' = [sender EXCEPT !.pc = "count"]
  /\ UNCHANGED <<adapter, alive, cancelled, sessionID, events, closed, resume, reader,
                 closer, abandoned, crossed, crash, overtaken>>

StartFails ==
  /\ sender.pc = "start"
  /\ sender' = [sender EXCEPT !.pc = "idle"]
  /\ UNCHANGED <<adapter, alive, cancelled, sessionID, events, closed, resume, proc, reader,
                 closer, abandoned, crossed, crash, overtaken>>

\* ... and its readLoop, which the WaitGroup counts from here on.
StartReader ==
  /\ sender.pc = "count"
  /\ reader' = [reader EXCEPT ![sender.call].pc = "scan"]
  /\ sender' = [sender EXCEPT !.pc = "loop"]
  /\ UNCHANGED <<adapter, alive, cancelled, sessionID, events, closed, resume, proc, closer,
                 abandoned, crossed, crash, overtaken>>

\* The event loop of the turn takes the next event, whichever process it is
\* from; a result or an error ends the turn, also the error of a process that
\* failed after the result of an earlier prompt.
TakeEvent ==
  /\ sender.pc = "loop"
  /\ events # <<>>
  /\ overtaken' = (overtaken \/ (Head(events).type = "error" /\ Head(events).from # sender.call))
  /\ events' = Tail(events)
  /\ sender' = IF Head(events).type = "text" THEN sender ELSE [sender EXCEPT !.pc = "idle"]
  /\ UNCHANGED <<adapter, alive, cancelled, sessionID, closed, resume, proc, reader, closer,
                 abandoned, crossed, crash>>

-----------------------------------------------------------------------------
(* The process and its readLoop.                                           *)

\* The process exits, or is killed because the context is done.
ProcessEnds(p) ==
  /\ proc[p] = "running"
  /\ proc' = [proc EXCEPT ![p] = "ended"]
  /\ UNCHANGED <<adapter, alive, cancelled, sessionID, events, closed, sender, resume,
                 reader, closer, abandoned, crossed, crash, overtaken>>

\* The name of the conversation is followed only in results.
Event(p, type, sid) ==
  [from |-> p, type |-> type, sid |-> IF type = "result" THEN sid ELSE NoConv]

\* Mutant of ReadLine: a result takes the name it had before its own line.
ReadLineLate(p, line) ==
  /\ reader[p].pc = "scan"
  /\ Writes(p, line)
  /\ sessionID' = IF line.stores THEN ConvOf(p) ELSE sessionID
  /\ reader' = [reader EXCEPT ![p] =
       [pc |-> IF line.type = "none" THEN "scan" ELSE "emit",
        hand |-> IF line.type = "none" THEN NoEvent ELSE Event(p, line.type, sessionID),
        named |-> @.named \/ line.stores,
        done |-> @.done \/ line.type = "result"]]
  /\ UNCHANGED <<adapter, alive, cancelled, events, closed, sender, resume, proc, closer,
                 abandoned, crossed, crash, overtaken>>

\* A line is read, also one that was in the pipe when the process ended, or
\* that a child which inherited the pipe has written.
ReadLine(p, line) ==
  /\ reader[p].pc = "scan"
  /\ Writes(p, line)
  /\ sessionID' = IF line.stores THEN ConvOf(p) ELSE sessionID
  /\ reader' = [reader EXCEPT ![p] =
       [pc |-> IF line.type = "none" THEN "scan" ELSE "emit",
        hand |-> IF line.type = "none" THEN NoEvent ELSE Event(p, line.type, sessionID'),
        named |-> @.named \/ line.stores,
        done |-> @.done \/ line.type = "result"]]
  /\ UNCHANGED <<adapter, alive, cancelled, events, closed, sender, resume, proc, closer,
                 abandoned, crossed, crash, overtaken>>

\* The end of the output, or a line that is too long for the scanner.
EndOfOutput(p) ==
  /\ reader[p].pc = "scan"
  /\ \/ /\ proc[p] = "ended"
        /\ reader' = [reader EXCEPT ![p].pc = "wait"]
     \/ reader' = [reader EXCEPT ![p].pc = "last", ![p].hand = Event(p, "error", NoConv)]
  /\ UNCHANGED <<adapter, alive, cancelled, sessionID, events, closed, sender, resume, proc,
                 closer, abandoned, crossed, crash, overtaken>>

\* Mutant of NextPC: the loop goes on after an error of the scanner.
NextPCScansOn(pc) ==
  CASE pc \in {"emit", "last"} -> "scan" [] pc = "report" -> "gone"

\* Where a readLoop is after the event it has in hand.
NextPC(pc) == CASE pc = "emit" -> "scan" [] pc = "last" -> "wait" [] pc = "report" -> "gone"

\* The select of every event: it goes into the channel ...
Deliver(p) ==
  /\ reader[p].hand # NoEvent
  /\ ~closed
  /\ Len(events) < Capacity
  /\ events' = Append(events, reader[p].hand)
  /\ reader' = [reader EXCEPT ![p].pc = NextPC(@), ![p].hand = NoEvent]
  /\ UNCHANGED <<adapter, alive, cancelled, sessionID, closed, sender, resume, proc, closer,
                 abandoned, crossed, crash, overtaken>>

\* ... which panics when it is closed ...
SendPanics(p) ==
  /\ reader[p].hand # NoEvent
  /\ closed
  /\ crash' = p
  /\ UNCHANGED <<adapter, alive, cancelled, sessionID, events, closed, sender, resume, proc,
                 reader, closer, abandoned, crossed, overtaken>>

\* ... or is dropped when the context is done.
DropEvent(p) ==
  /\ reader[p].hand # NoEvent
  /\ cancelled
  /\ reader' = [reader EXCEPT ![p].pc = NextPC(@), ![p].hand = NoEvent]
  /\ UNCHANGED <<adapter, alive, cancelled, sessionID, events, closed, sender, resume, proc,
                 closer, abandoned, crossed, crash, overtaken>>

\* cmd.Wait: a process that failed and left something on stderr is reported;
\* then wg.Done.
WaitProcess(p) ==
  /\ reader[p].pc = "wait"
  /\ proc[p] = "ended"
  /\ \/ reader' = [reader EXCEPT ![p].pc = "gone"]
     \/ reader' = [reader EXCEPT ![p].pc = "report", ![p].hand = Event(p, "error", NoConv)]
  /\ UNCHANGED <<adapter, alive, cancelled, sessionID, events, closed, sender, resume, proc,
                 closer, abandoned, crossed, crash, overtaken>>

-----------------------------------------------------------------------------
(* Close.                                                                  *)

\* Engine.Stop cancels the context the session was made from.
CancelParent ==
  /\ ~cancelled
  /\ cancelled' = TRUE
  /\ UNCHANGED <<adapter, alive, sessionID, events, closed, sender, resume, proc, reader,
                 closer, abandoned, crossed, crash, overtaken>>

\* Close is called once: not alive any more, the context is cancelled.
BeginClose ==
  /\ closer = "no"
  /\ closer' = "waiting"
  /\ alive' = FALSE
  /\ cancelled' = TRUE
  /\ UNCHANGED <<adapter, sessionID, events, closed, sender, resume, proc, reader,
                 abandoned, crossed, crash, overtaken>>

\* Mutant of Counted: the WaitGroup counts nobody.
CountedNobody == {}

\* The readLoops the WaitGroup counts.
Counted == {p \in Call : reader[p].pc \notin {"none", "gone"}}

CloseEvents ==
  /\ closer = "waiting"
  /\ closer' = "done"
  /\ closed' = TRUE
  /\ crossed' = IF sender.pc = "count" THEN {sender.call} ELSE {}
  /\ UNCHANGED <<adapter, alive, cancelled, sessionID, events, sender, resume, proc, reader,
                 crash, overtaken>>

\* wg.Wait has returned ...
CloseAfterWait == Counted = {} /\ CloseEvents /\ UNCHANGED abandoned

\* ... or 8 seconds have passed, with a process that cannot be killed or
\* whose children keep the pipe.
CloseAfterTimeout == Counted # {} /\ CloseEvents /\ abandoned' = TRUE

PromptNext ==
  /\ crash = 0
  /\ \/ \E p \in Call :
          \/ BeginSend(p)
          \/ ProcessEnds(p)
          \/ \E line \in Lines : ReadLine(p, line)
          \/ EndOfOutput(p) \/ Deliver(p) \/ SendPanics(p) \/ DropEvent(p) \/ WaitProcess(p)
     \/ StartProcess \/ StartFails \/ StartReader \/ TakeEvent
     \/ CancelParent \/ BeginClose \/ CloseAfterWait \/ CloseAfterTimeout

PromptSpec == PromptInit /\ [][PromptNext]_promptVars

-----------------------------------------------------------------------------
\* Close "terminates the session and its underlying process", and the channel
\* is closed only when nobody sends to it any more. Two ways lead around it,
\* and no third: Close gave up after 8 seconds, or a Send that had started its
\* process before Close cancelled the context counted it after the wait.
ClosedIsQuiet ==
  /\ closed /\ ~abandoned =>
       \A p \in Call \ crossed : proc[p] # "running" /\ p \notin Counted
  /\ crash # 0 => abandoned \/ crash \in crossed

\* A result names the conversation of its own process, which the Session will
\* resume: the name is stored before the result is built, and no process of
\* another prompt changes it, unless two prompts opened a conversation each
\* because the first name was not known yet.
ResultNamesConversation ==
  \A i \in DOMAIN events :
    events[i].type = "result" =>
      \/ events[i].sid = ConvOf(events[i].from)
      \/ Cardinality({p \in 1..sender.call : resume[p] = NoConv}) > 1

\* The channel outlives a prompt, and yet a turn takes the text and the result of
\* its own process only: a process has nothing to say after its result or its
\* error. Not so once a process fails after its result: its error ends the turn of
\* a later prompt, whose text and result then go to the turn after that. Nor so
\* opencode, which reports a result for each step, and gemini, which goes on after
\* an error line.
HearsOwnProcess ==
  [][TakeEvent /\ ~overtaken /\ adapter \notin {"opencode", "gemini"} /\ Head(events).type # "error"
       => Head(events).from = sender.call]_promptVars

-----------------------------------------------------------------------------
(* What every AgentSession promises, and how the state above maps to it.   *)

\* A worker is there from the start of its process until its readLoop is done.
PromptWorking ==
  {p \in Call : proc[p] = "running" \/ p \in Counted \/ (sender.pc = "count" /\ sender.call = p)}

PromptContract == INSTANCE AgentSession WITH
  Worker <- Call,
  Room <- Capacity,
  Patient <- FALSE,
  working <- PromptWorking,
  stopped <- cancelled,
  waiting <- Len(events),
  open <- ~closed,
  returned <- (closer = "done"),
  panicked <- (crash # 0)

\* The agents of one process per prompt keep the promises of AgentSession, although
\* processes of several prompts share the channel and Close crosses a Send: no process
\* starts on a session that was stopped, no event comes from a readLoop that is done,
\* and only one that Close left behind can send on the closed channel.
PromptKeepsContract == PromptContract!Spec
=============================================================================
