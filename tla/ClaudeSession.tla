--------------------------- MODULE ClaudeSession ---------------------------
(***************************************************************************)
(* The AgentSession of agent/claudecode: one process for all the prompts   *)
(* of a conversation, which asks for permissions on its output and gets    *)
(* prompts and decisions on its input. The turn of the engine calls Send   *)
(* and takes events, a handler gives decisions, readLoop is a goroutine of *)
(* the session, and Close comes at any time from a command, a timeout or   *)
(* the shutdown. Every send of readLoop is a select with ctx.Done, in      *)
(* which Go takes any case that is ready.                                  *)
(***************************************************************************)
EXTENDS Naturals, Sequences

CONSTANTS
  MaxAsk,      \* bound on the permission requests
  ChannelSize, \* of the events channel
  Pipe         \* bound on the lines of the output that are not read yet

ASSUME ClaudeAssumption == MaxAsk \in Nat /\ ChannelSize \in Nat /\ Pipe \in Nat

Ask == 1..MaxAsk

VARIABLES
  autoApprove,
  claudeCancelled, \* cs.ctx is done
  claudeAlive,
  process,         \* "running" or "exited"
  failure,         \* it exited with an error and text on stderr
  working,         \* it has a prompt it has not answered yet
  waiting,         \* the request it waits for, or 0
  asked,           \* the requests it made
  stdout,          \* lines that are not read yet
  loop,            \* readLoop and the event it wants to send
  channel,         \* cs.events
  claudeClosed,    \* cs.events and cs.done are closed
  listening,       \* a turn takes events
  heard,           \* requests the engine knows of and did not decide yet
  claudeCloser     \* Close: "no", "graceful", "killed" or "returned"

processVars == <<process, failure, working, waiting, asked, stdout>>
engineVars  == <<listening, heard, claudeCloser>>
claudeVars  == <<autoApprove, claudeCancelled, claudeAlive, processVars, loop, channel,
                 claudeClosed, engineVars>>

\* What a line is, and what the event it becomes is.
Item == [type : {"text", "ask", "cancel", "result", "error"}, ask : 0..MaxAsk]
Plain(type) == [type |-> type, ask |-> 0]
NoItem == <<>>

ClaudeTypeOK ==
  /\ autoApprove \in BOOLEAN /\ claudeCancelled \in BOOLEAN /\ claudeAlive \in BOOLEAN
  /\ process \in {"running", "exited"}
  /\ failure \in BOOLEAN /\ working \in BOOLEAN
  /\ waiting \in 0..asked /\ asked \in 0..MaxAsk
  /\ stdout \in Seq(Item) /\ Len(stdout) <= Pipe
  /\ loop \in [pc : {"scan", "emit", "broken", "wait", "report", "gone"},
                 hand : Item \union {NoItem}]
  /\ channel \in Seq(Item) /\ Len(channel) <= ChannelSize
  /\ claudeClosed \in BOOLEAN /\ listening \in BOOLEAN
  /\ heard \subseteq Ask
  /\ claudeCloser \in {"no", "graceful", "killed", "returned"}

\* newClaudeSession, with mode bypassPermissions or another.
ClaudeInit ==
  /\ autoApprove \in BOOLEAN
  /\ claudeCancelled = FALSE
  /\ claudeAlive = TRUE
  /\ process = "running"
  /\ failure = FALSE
  /\ working = FALSE
  /\ waiting = 0
  /\ asked = 0
  /\ stdout = <<>>
  /\ loop = [pc |-> "scan", hand |-> NoItem]
  /\ channel = <<>>
  /\ claudeClosed = FALSE
  /\ listening = FALSE
  /\ heard = {}
  /\ claudeCloser = "no"

Reads(pc, item) == loop' = [pc |-> pc, hand |-> item]

-----------------------------------------------------------------------------
(* The process.                                                            *)

\* A line of the answer to a prompt, or the result.
WriteLine(type) ==
  /\ process = "running" /\ working /\ waiting = 0
  /\ Len(stdout) < Pipe
  /\ stdout' = Append(stdout, Plain(type))
  /\ working' = (type # "result")
  /\ UNCHANGED <<autoApprove, claudeCancelled, claudeAlive, process, failure, waiting,
                 asked, loop, channel, claudeClosed, engineVars>>

\* control_request: the process waits for a decision ...
AskPermission ==
  /\ process = "running" /\ working /\ waiting = 0
  /\ Len(stdout) < Pipe
  /\ asked < MaxAsk
  /\ asked' = asked + 1
  /\ waiting' = asked'
  /\ stdout' = Append(stdout, [type |-> "ask", ask |-> asked'])
  /\ UNCHANGED <<autoApprove, claudeCancelled, claudeAlive, process, failure, working, loop,
                 channel, claudeClosed, engineVars>>

\* ... or takes the request back with control_cancel_request.
CancelRequest ==
  /\ process = "running" /\ waiting # 0
  /\ Len(stdout) < Pipe
  /\ waiting' = 0
  /\ stdout' = Append(stdout, [type |-> "cancel", ask |-> waiting])
  /\ UNCHANGED <<autoApprove, claudeCancelled, claudeAlive, process, failure, working,
                 asked, loop, channel, claudeClosed, engineVars>>

\* The process ends, by itself or killed when the context is done.
Exit ==
  /\ process = "running"
  /\ process' = "exited"
  /\ failure' \in BOOLEAN
  /\ working' = FALSE
  /\ waiting' = 0
  /\ UNCHANGED <<autoApprove, claudeCancelled, claudeAlive, asked, stdout, loop, channel,
                 claudeClosed, engineVars>>

-----------------------------------------------------------------------------
(* The engine: turns and handlers.                                         *)

\* Send: a turn writes its prompt and takes events from then on.
Send ==
  /\ ~listening
  /\ claudeAlive /\ process = "running" /\ ~working
  /\ working' = TRUE
  /\ listening' = TRUE
  /\ UNCHANGED <<autoApprove, claudeCancelled, claudeAlive, process, failure, waiting,
                 asked, stdout, loop, channel, claudeClosed, heard, claudeCloser>>

\* The event loop takes an event: a result or an error ends the turn.
ClaudeTakeEvent ==
  /\ listening
  /\ channel # <<>>
  /\ channel' = Tail(channel)
  /\ listening' = (Head(channel).type \notin {"result", "error"})
  /\ heard' = IF Head(channel).type = "ask" THEN heard \union {Head(channel).ask} ELSE heard
  /\ UNCHANGED <<autoApprove, claudeCancelled, claudeAlive, processVars, loop, claudeClosed,
                 claudeCloser>>

\* The event loop finds the channel closed, or the turn is idle for too long, or
\* the engine stops.
EndTurn ==
  /\ listening
  /\ channel = <<>> \/ claudeCancelled
  /\ listening' = FALSE
  /\ UNCHANGED <<autoApprove, claudeCancelled, claudeAlive, processVars, loop, channel,
                 claudeClosed, heard, claudeCloser>>

\* What the process makes of a decision.
Decided(r) == IF process = "running" /\ waiting = r THEN 0 ELSE waiting

\* RespondPermission: the decision is written to the input of the process.
RespondPermission(r) ==
  /\ r \in heard
  /\ heard' = heard \ {r}
  /\ waiting' = IF claudeAlive THEN Decided(r) ELSE waiting
  /\ UNCHANGED <<autoApprove, claudeCancelled, claudeAlive, process, failure, working,
                 asked, stdout, loop, channel, claudeClosed, listening, claudeCloser>>

-----------------------------------------------------------------------------
(* readLoop.                                                               *)

\* Mutant of ClaudeReadLine: bypassPermissions answers nothing.
ReadLineSilent ==
  /\ loop.pc = "scan" /\ stdout # <<>>
  /\ stdout' = Tail(stdout)
  /\ LET line == Head(stdout) IN
       IF line.type = "cancel" \/ (line.type = "ask" /\ autoApprove)
       THEN Reads("scan", NoItem) ELSE Reads("emit", line)
  /\ UNCHANGED <<autoApprove, claudeCancelled, claudeAlive, process, failure, working,
                 waiting, asked, channel, claudeClosed, engineVars>>

\* A line becomes an event; with bypassPermissions a request is approved at
\* once instead, and a request that was taken back only reaches the log.
ClaudeReadLine ==
  /\ loop.pc = "scan" /\ stdout # <<>>
  /\ stdout' = Tail(stdout)
  /\ LET line == Head(stdout)
         approves == line.type = "ask" /\ autoApprove
     IN /\ IF approves \/ line.type = "cancel" THEN Reads("scan", NoItem) ELSE Reads("emit", line)
        /\ waiting' = IF approves THEN Decided(line.ask) ELSE waiting
  /\ UNCHANGED <<autoApprove, claudeCancelled, claudeAlive, process, failure, working,
                 asked, channel, claudeClosed, engineVars>>

\* A line is too long: the loop ends with an error.
ScanFails ==
  /\ loop.pc = "scan"
  /\ Reads("broken", Plain("error"))
  /\ UNCHANGED <<autoApprove, claudeCancelled, claudeAlive, processVars, channel,
                 claudeClosed, engineVars>>

\* The output ends: alive is cleared.
ClaudeEndOfOutput ==
  /\ loop.pc = "scan" /\ stdout = <<>> /\ process = "exited"
  /\ claudeAlive' = FALSE
  /\ Reads("wait", NoItem)
  /\ UNCHANGED <<autoApprove, claudeCancelled, processVars, channel, claudeClosed,
                 engineVars>>

\* Where readLoop goes on after an event, and what it has done on the way: the
\* deferred function clears alive first, and closes the channels last.
AfterEvent ==
  CASE loop.pc = "emit" -> Reads("scan", NoItem) /\ UNCHANGED claudeAlive
    [] loop.pc = "broken" -> Reads("wait", NoItem) /\ claudeAlive' = FALSE
    [] loop.pc = "report" -> Reads("gone", NoItem) /\ UNCHANGED claudeAlive

\* The event goes into the channel ...
ClaudeDeliver ==
  /\ loop.hand # NoItem
  /\ Len(channel) < ChannelSize
  /\ channel' = Append(channel, loop.hand)
  /\ AfterEvent
  /\ claudeClosed' = (loop.pc = "report")
  /\ UNCHANGED <<autoApprove, claudeCancelled, processVars, engineVars>>

\* Mutant of Drop: an event for which there is no room is dropped.
DropWhenFull ==
  /\ loop.hand # NoItem
  /\ claudeCancelled \/ Len(channel) = ChannelSize
  /\ AfterEvent
  /\ UNCHANGED <<autoApprove, claudeCancelled, processVars, channel, claudeClosed,
                 engineVars>>

\* ... or, when the context is done, nowhere: then the error of a process that
\* failed is followed by a return, and nothing is closed.
Drop ==
  /\ loop.hand # NoItem
  /\ claudeCancelled
  /\ AfterEvent
  /\ UNCHANGED <<autoApprove, claudeCancelled, processVars, channel, claudeClosed,
                 engineVars>>

\* cmd.Wait: what a process that failed left on stderr is reported.
ClaudeWaitProcess ==
  /\ loop.pc = "wait" /\ process = "exited"
  /\ IF failure THEN Reads("report", Plain("error")) /\ UNCHANGED claudeClosed
                ELSE Reads("gone", NoItem) /\ claudeClosed' = TRUE
  /\ UNCHANGED <<autoApprove, claudeCancelled, claudeAlive, processVars, channel,
                 engineVars>>

-----------------------------------------------------------------------------
(* Close and the shutdown.                                                 *)

\* Engine.Stop cancels the context the session was made from.
ClaudeCancelParent ==
  /\ ~claudeCancelled
  /\ claudeCancelled' = TRUE
  /\ UNCHANGED <<autoApprove, claudeAlive, processVars, loop, channel, claudeClosed,
                 engineVars>>

Closes(from, to) ==
  /\ claudeCloser \in from
  /\ claudeCloser' = to
  /\ UNCHANGED <<autoApprove, claudeAlive, processVars, loop, channel, claudeClosed,
                 listening, heard>>

ClaudeBeginClose == Closes({"no"}, "graceful") /\ claudeCancelled' = TRUE

\* After 8 seconds the process is killed (if it is not dead yet).
CloseKills == Closes({"graceful"}, "killed") /\ UNCHANGED claudeCancelled

\* Mutant of CloseReturns: after the kill nothing is waited for.
CloseReturnsEarly ==
  /\ claudeClosed \/ claudeCloser = "killed"
  /\ Closes({"graceful", "killed"}, "returned")
  /\ UNCHANGED claudeCancelled

\* Close returns when done is closed.
CloseReturns ==
  /\ claudeClosed
  /\ Closes({"graceful", "killed"}, "returned")
  /\ UNCHANGED claudeCancelled

ClaudeNext ==
  \/ \E type \in {"text", "result"} : WriteLine(type)
  \/ AskPermission \/ CancelRequest \/ Exit
  \/ Send \/ ClaudeTakeEvent \/ EndTurn
  \/ \E r \in Ask : RespondPermission(r)
  \/ ClaudeReadLine \/ ScanFails \/ ClaudeEndOfOutput
  \/ ClaudeDeliver \/ Drop \/ ClaudeWaitProcess
  \/ ClaudeCancelParent \/ ClaudeBeginClose \/ CloseKills \/ CloseReturns

ClaudeSpec == ClaudeInit /\ [][ClaudeNext]_claudeVars

-----------------------------------------------------------------------------
OnItsWay(r) ==
  \/ \E i \in DOMAIN stdout : stdout[i].type = "ask" /\ stdout[i].ask = r
  \/ loop.hand # NoItem /\ loop.hand.ask = r
  \/ \E i \in DOMAIN channel : channel[i].ask = r

\* While the session is alive the process never waits for a decision that
\* nobody was asked for: its request is on its way to the engine, or known
\* there, whatever was sent, read or taken back before.
AskedIsHeard ==
  waiting # 0 /\ claudeAlive /\ ~claudeCancelled => OnItsWay(waiting) \/ waiting \in heard

\* When Close has returned, the process is gone, its reader too, and whoever
\* still takes events finds the end of them.
CloseIsClean ==
  claudeCloser = "returned" =>
    process = "exited" /\ loop.pc = "gone" /\ claudeClosed /\ ~claudeAlive

\* Close "terminates the session": it waits for a reader that will end the
\* wait.
CloseIsAnswered == claudeCloser \in {"graceful", "killed"} => claudeClosed \/ loop.pc # "gone"

-----------------------------------------------------------------------------
(* What every AgentSession promises, and how the state above maps to it.   *)

\* The one worker is the process with readLoop.
ClaudeWorking == IF process = "running" \/ loop.pc # "gone" THEN {1} ELSE {}

ClaudeContract == INSTANCE AgentSession WITH
  Worker <- {1},
  Room <- ChannelSize,
  Patient <- TRUE,
  working <- ClaudeWorking,
  stopped <- claudeCancelled,
  waiting <- Len(channel),
  open <- ~claudeClosed,
  returned <- (claudeCloser = "returned"),
  panicked <- FALSE

\* Claude Code keeps the promises of AgentSession and two more: Close leaves nobody
\* behind, and no event is ever sent on the closed channel, since readLoop itself
\* closes it, after its last event and after the end of the process.
ClaudeKeepsContract == ClaudeContract!Spec
=============================================================================
