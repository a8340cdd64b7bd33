----------------------------- MODULE IFlowSession -----------------------------
(***************************************************************************)
(* A session of agent/iflow. Each Send starts `iflow -i` in a terminal; the *)
(* answer is read from the transcript the process writes into the directory *)
(* of the project. The process does not end by itself: a result timer (no   *)
(* text for 900 ms and no tool at work) or a tool timer (a tool that does   *)
(* not come back) kills it, and readLoop reports the turn once the process  *)
(* is gone and the transcript is read to its end.                           *)
(*                                                                          *)
(* Another chat of the project has its own session and transcript in the    *)
(* same directory. Images, arguments, tool inputs and the file that shrinks *)
(* are left out; a line is text, the use of a tool or the result of one,    *)
(* and a line with tools and text is two of them.                           *)
(***************************************************************************)
EXTENDS Naturals, Sequences

CONSTANTS
  MaxTurn,   \* bound on the prompts
  MaxLine,   \* bound on the lines of the session's processes
  MaxOther,  \* bound on the lines of the other chat's transcript
  MaxLate,   \* bound on the callbacks of a kind that nothing can stop any more
  Capacity,  \* of the events channel
  Tool

ASSUME IFlowAssumption ==
  /\ MaxTurn \in Nat /\ MaxLine \in Nat /\ MaxOther \in Nat /\ MaxLate \in Nat
  /\ Capacity \in Nat

VARIABLES
  alive, cancelled, turnActive,
  iflowID,        \* the conversation: its transcript, or "unknown"
  queued,         \* events in the channel
  sender,         \* Send: "no", "start", or "add" between pty.Start and wg.Add
  turns,          \* prompts so far
  transcriptPath, \* alike
  unread,         \* lines of each transcript that this turn did not read
  fresh,          \* the transcripts changed since this turn started
  process,        \* "none", "run" or how it ended: "ok", "fail", "canceled"
  missed,         \* the last poll of a turn failed, and its own transcript was not read since
  lines, used,    \* lines written to each transcript, tools the process used
  watcher,        \* watchTranscript: where it is, its line and processDone
  reader,         \* readLoop: "none", "wait", "join", "report"
  pendingTool, doneTool, \* pendingToolIDs, doneToolIDs
  timer,          \* the timers that run and whose handle the turn has
  late,           \* callbacks that fired, or whose handle is lost
  resultReady, killed,
  heard,          \* the transcripts the turn took text from
  reports,        \* results and errors of this turn
  closer, abandoned, iflowCrossed, crash

iflowVars == <<alive, cancelled, turnActive, iflowID, queued, sender, turns, transcriptPath,
               unread, fresh, missed, process, lines, used, watcher, reader, pendingTool, doneTool,
               timer, late, resultReady, killed, heard, reports, closer, abandoned,
               iflowCrossed, crash>>

turnVars == <<transcriptPath, process, watcher, reader, pendingTool, doneTool, timer, late,
              resultReady, killed, heard, reports>>
fileVars == <<unread, fresh, missed, lines, used>>
sessionVars == <<alive, cancelled, turnActive, iflowID, sender, turns>>
closeVars == <<closer, abandoned, iflowCrossed>>

File == {"own", "other"}
Line == [kind : {"text"}] \union [kind : {"use", "result"}, tool : Tool]
EventKind == {"result", "tool"}
NoWatcher == [pc |-> "none", line |-> [kind |-> "text"], exit |-> FALSE]

IFlowTypeOK ==
  /\ alive \in BOOLEAN /\ cancelled \in BOOLEAN /\ turnActive \in BOOLEAN /\ missed \in BOOLEAN
  /\ iflowID \in {"unknown", "own", "other"}
  /\ queued \in 0..Capacity
  /\ sender \in {"no", "start", "add"}
  /\ turns \in 0..MaxTurn
  /\ transcriptPath \in File \union {"unknown"}
  /\ unread \in [File -> Seq(Line)]
  /\ fresh \subseteq File
  /\ process \in {"none", "run", "ok", "fail", "canceled"}
  /\ lines \in [File -> 0..(MaxLine + MaxOther)]
  /\ used \subseteq Tool
  /\ watcher \in [pc : {"none", "find", "read", "emit", "wait", "gone"}, line : Line,
                  exit : BOOLEAN]
  /\ reader \in {"none", "wait", "join", "report"}
  /\ pendingTool \subseteq Tool /\ doneTool \subseteq Tool
  /\ timer \subseteq EventKind
  /\ late \in [EventKind -> 0..MaxLate]
  /\ resultReady \in BOOLEAN /\ killed \in BOOLEAN
  /\ heard \subseteq File /\ reports \in 0..1
  /\ closer \in {"no", "waiting", "done"}
  /\ abandoned \in BOOLEAN /\ iflowCrossed \in BOOLEAN /\ crash \in BOOLEAN

\* A new session, or one that resumes its conversation.
IFlowInit ==
  /\ alive = TRUE /\ cancelled = FALSE /\ turnActive = FALSE
  /\ iflowID \in {"unknown", "own"}
  /\ queued = 0 /\ sender = "no" /\ turns = 0
  /\ transcriptPath = "unknown"
  /\ unread = [f \in File |-> <<>>]
  /\ fresh = {} /\ missed = FALSE
  /\ process = "none" /\ lines = [f \in File |-> 0] /\ used = {}
  /\ watcher = NoWatcher /\ reader = "none"
  /\ pendingTool = {} /\ doneTool = {}
  /\ timer = {} /\ late = [k \in EventKind |-> 0]
  /\ resultReady = FALSE /\ killed = FALSE
  /\ heard = {} /\ reports = 0
  /\ closer = "no" /\ abandoned = FALSE /\ iflowCrossed = FALSE /\ crash = FALSE

-----------------------------------------------------------------------------
(* Send.                                                                   *)

\* A closed session and a turn that is not over refuse the prompt. A known
\* conversation is read from the end of its transcript on.
Send ==
  /\ sender = "no" /\ turns < MaxTurn
  /\ alive /\ ~turnActive
  /\ turnActive' = TRUE
  /\ sender' = "start"
  /\ turns' = turns + 1
  /\ transcriptPath' = iflowID
  /\ unread' = [f \in File |-> IF f = iflowID THEN <<>> ELSE unread[f]]
  /\ fresh' \in SUBSET fresh
  /\ process' = "none" /\ used' = {}
  /\ watcher' = NoWatcher
  /\ pendingTool' = {} /\ doneTool' = {}
  /\ timer' = {} /\ late' = [k \in EventKind |-> 0]
  /\ resultReady' = FALSE /\ killed' = FALSE
  /\ heard' = {} /\ reports' = 0
  /\ UNCHANGED <<alive, cancelled, iflowID, queued, missed, lines, reader, closer,
                 abandoned, iflowCrossed, crash>>

\* pty.Start, or its failure: a context that is done starts nothing.
StartProcess ==
  /\ sender = "start" /\ ~cancelled
  /\ process' = "run"
  /\ sender' = "add"
  /\ UNCHANGED <<alive, cancelled, turnActive, iflowID, queued, turns, transcriptPath,
                 fileVars, watcher, reader, pendingTool, doneTool, timer, late, resultReady,
                 killed, heard, reports, closeVars, crash>>

ProcessStartFails ==
  /\ sender = "start"
  /\ turnActive' = FALSE
  /\ sender' = "no"
  /\ UNCHANGED <<alive, cancelled, iflowID, queued, turns, turnVars, fileVars, closeVars,
                 crash>>

\* wg.Add and the goroutines: readLoop waits for the process, the watcher polls.
StartReader ==
  /\ sender = "add"
  /\ sender' = "no"
  /\ reader' = "wait"
  /\ watcher' = [NoWatcher EXCEPT !.pc = "find"]
  /\ UNCHANGED <<alive, cancelled, turnActive, iflowID, queued, turns, transcriptPath,
                 fileVars, process, pendingTool, doneTool, timer, late, resultReady, killed,
                 heard, reports, closeVars, crash>>

-----------------------------------------------------------------------------
(* The iflow processes.                                                    *)

\* A line of the answer: text, a tool that is used, a tool that comes back.
WriteLine(line) ==
  /\ process = "run" /\ lines["own"] < MaxLine
  /\ line.kind = "use" => line.tool \notin used
  /\ line.kind = "result" => line.tool \in used
  /\ used' = IF line.kind = "use" THEN used \union {line.tool} ELSE used
  /\ lines' = [lines EXCEPT !["own"] = @ + 1]
  /\ unread' = [unread EXCEPT !["own"] = Append(@, line)]
  /\ fresh' = fresh \union {"own"}
  /\ UNCHANGED <<missed, sessionVars, queued, turnVars, closeVars, crash>>

\* The other chat's process.
OtherWrites ==
  /\ lines["other"] < MaxOther
  /\ lines' = [lines EXCEPT !["other"] = @ + 1]
  /\ unread' = [unread EXCEPT !["other"] = Append(@, [kind |-> "text"])]
  /\ fresh' = fresh \union {"other"}
  /\ UNCHANGED <<used, missed, sessionVars, queued, turnVars, closeVars, crash>>

\* The process ends by itself, or by one of the contexts.
Exit(how) ==
  /\ process = "run"
  /\ how = "canceled" => killed \/ cancelled
  /\ process' = how
  /\ UNCHANGED <<transcriptPath, watcher, reader, pendingTool, doneTool, timer, late,
                 resultReady, killed, heard, reports, fileVars, sessionVars, queued,
                 closeVars, crash>>

\* The engine takes an event.
TakeEvent ==
  /\ queued > 0
  /\ queued' = queued - 1
  /\ UNCHANGED <<sessionVars, turnVars, fileVars, closeVars, crash>>

-----------------------------------------------------------------------------
(* watchTranscript and consumeTranscript.                                  *)

\* findIFlowTranscriptPath: the newest transcript of the project that changed
\* since the turn started; it stays with the turn. Any of them may be newest.
LooksFor ==
  /\ watcher.pc = "find"
  /\ IF transcriptPath = "unknown" /\ fresh # {}
       THEN transcriptPath' \in fresh
       ELSE UNCHANGED transcriptPath
  /\ UNCHANGED <<unread, fresh, lines, used, process, reader, pendingTool, doneTool, timer, late,
                 resultReady, killed, heard, reports, sessionVars, queued, closeVars, crash>>

FindTranscript ==
  /\ LooksFor
  /\ watcher' = [watcher EXCEPT !.pc = "read"]
  /\ missed' = (missed /\ transcriptPath' # "own")

\* The transcript cannot be opened or read: the poll is over without a line of it.
PollFails ==
  /\ LooksFor
  /\ transcriptPath' # "unknown"
  /\ watcher' = [watcher EXCEPT !.pc = IF watcher.exit THEN "gone" ELSE "wait"]
  /\ missed' = (missed \/ watcher.exit)

HasLine == transcriptPath # "unknown" /\ unread[transcriptPath] # <<>>

\* addPendingTools: tools not seen before start the tool timer anew and stop the
\* result timer.
AddPendingTools(tool) ==
  IF tool \in pendingTool \union doneTool
    THEN UNCHANGED <<pendingTool, timer>>
    ELSE /\ pendingTool' = pendingTool \union {tool}
         /\ timer' = {"tool"}

\* Mutant of CompleteTools: any result stops the tool timer.
CompleteToolsStops(tool) ==
  /\ pendingTool' = pendingTool \ {tool}
  /\ doneTool' = doneTool \union {tool}
  /\ timer' = timer \ {"tool"}

\* completeTools: the last one stops the tool timer.
CompleteTools(tool) ==
  /\ pendingTool' = pendingTool \ {tool}
  /\ doneTool' = doneTool \union {tool}
  /\ timer' = IF pendingTool' = {} THEN timer \ {"tool"} ELSE timer

\* handleTranscriptLine up to its event; the line names its conversation.
ReadLine ==
  LET line == Head(unread[transcriptPath]) IN
  /\ watcher.pc = "read" /\ HasLine
  /\ unread' = [unread EXCEPT ![transcriptPath] = Tail(@)]
  /\ iflowID' = transcriptPath
  /\ CASE line.kind = "text" ->
            /\ heard' = heard \union {transcriptPath}
            /\ watcher' = [watcher EXCEPT !.pc = "emit", !.line = line]
            /\ UNCHANGED <<pendingTool, doneTool, timer>>
       [] line.kind = "use" ->
            /\ AddPendingTools(line.tool)
            /\ watcher' = IF pendingTool' = pendingTool
                            THEN watcher ELSE [watcher EXCEPT !.pc = "emit", !.line = line]
            /\ UNCHANGED <<doneTool, heard>>
       [] line.kind = "result" ->
            /\ CompleteTools(line.tool)
            /\ UNCHANGED <<watcher, heard>>
  /\ UNCHANGED <<alive, cancelled, turnActive, sender, turns, queued, transcriptPath, fresh,
                 missed, lines, used, process, reader, late, resultReady, killed, reports,
                 closeVars, crash>>

\* emitEvent: the channel has room, or the context is done. On a closed channel
\* the send may be chosen, and panics.
Emitted ==
  \/ /\ closer # "done" /\ queued < Capacity
     /\ queued' = queued + 1
     /\ UNCHANGED crash
  \/ /\ cancelled
     /\ UNCHANGED <<queued, crash>>
  \/ /\ closer = "done"
     /\ crash' = TRUE
     /\ UNCHANGED queued

\* The event of the line; text with no tool at work restarts the result timer
\* (scheduleResult).
EmitLine ==
  /\ watcher.pc = "emit"
  /\ Emitted
  /\ timer' = IF watcher.line.kind = "text" /\ pendingTool = {} THEN {"result"} ELSE timer
  /\ watcher' = [watcher EXCEPT !.pc = "read"]
  /\ UNCHANGED <<transcriptPath, process, reader, pendingTool, doneTool, late, resultReady,
                 killed, heard, reports, fileVars, sessionVars, closeVars>>

\* The end of the transcript so far, which is its end once the process was gone
\* before the poll.
EndOfLines ==
  /\ watcher.pc = "read" /\ ~HasLine
  /\ watcher' = [watcher EXCEPT !.pc = IF watcher.exit THEN "gone" ELSE "wait"]
  /\ UNCHANGED <<transcriptPath, process, reader, pendingTool, doneTool, timer, late,
                 resultReady, killed, heard, reports, fileVars, sessionVars, queued,
                 closeVars, crash>>

\* Mutant of WatcherWakes: nothing is read after the process has ended.
WatcherWakesLast ==
  \/ /\ cancelled \/ reader = "join"
     /\ watcher' = [watcher EXCEPT !.pc = "gone"]
  \/ watcher' = [watcher EXCEPT !.pc = "find"]

\* The select: the session is cancelled, the process is gone, or a tick.
WatcherWakes ==
  \/ /\ cancelled
     /\ watcher' = [watcher EXCEPT !.pc = "gone"]
  \/ /\ reader = "join"
     /\ watcher' = [watcher EXCEPT !.pc = "find", !.exit = TRUE]
  \/ watcher' = [watcher EXCEPT !.pc = "find"]

Poll ==
  /\ watcher.pc = "wait"
  /\ WatcherWakes
  /\ UNCHANGED <<transcriptPath, process, reader, pendingTool, doneTool, timer, late,
                 resultReady, killed, heard, reports, fileVars, sessionVars, queued,
                 closeVars, crash>>

-----------------------------------------------------------------------------
(* The timers of the turn.                                                 *)

Fire(k) ==
  /\ k \in timer /\ late[k] < MaxLate
  /\ timer' = timer \ {k}
  /\ late' = [late EXCEPT ![k] = @ + 1]
  /\ UNCHANGED <<transcriptPath, process, watcher, reader, pendingTool, doneTool,
                 resultReady, killed, heard, reports, fileVars, sessionVars, queued,
                 closeVars, crash>>

\* A callback takes the lock, late or not. It sets its handle to nil, whatever
\* timer that is by now: one that runs cannot be stopped after that.
Callback(k) ==
  /\ late[k] > 0
  /\ timer' = timer \ {k}
  /\ late' = [late EXCEPT ![k] = IF k \in timer THEN @ ELSE @ - 1]
  /\ IF IF k = "result" THEN pendingTool # {} ELSE pendingTool = {}
       THEN UNCHANGED <<pendingTool, resultReady, killed>>
       ELSE /\ pendingTool' = {}
            /\ resultReady' = TRUE
            /\ killed' = TRUE
  /\ UNCHANGED <<transcriptPath, process, watcher, reader, doneTool, heard, reports,
                 fileVars, sessionVars, queued, closeVars, crash>>

-----------------------------------------------------------------------------
(* readLoop.                                                               *)

\* cmd.Wait returns, and processDone is closed.
WaitProcess ==
  /\ reader = "wait" /\ process \in {"ok", "fail", "canceled"}
  /\ reader' = "join"
  /\ UNCHANGED <<transcriptPath, process, watcher, pendingTool, doneTool, timer, late,
                 resultReady, killed, heard, reports, fileVars, sessionVars, queued,
                 closeVars, crash>>

\* The watcher is done; stopResultTimer.
Join ==
  /\ reader = "join" /\ watcher.pc = "gone"
  /\ timer' = {}
  /\ reader' = "report"
  /\ UNCHANGED <<transcriptPath, process, watcher, pendingTool, doneTool, late, resultReady,
                 killed, heard, reports, fileVars, sessionVars, queued, closeVars, crash>>

\* A process that the end of the session killed says nothing.
SaysNothing ==
  ~resultReady /\ (process = "canceled" \/ (process = "fail" /\ cancelled))

\* The deferred calls: turn.cancel, turnActive, wg.Done.
ReaderEnds ==
  /\ reader' = "none"
  /\ killed' = TRUE
  /\ turnActive' = FALSE

\* A result, the error of a process that failed, or an error of the API that the
\* terminal shows.
Report ==
  /\ reader = "report" /\ ~SaysNothing
  /\ Emitted
  /\ reports' = IF queued' > queued THEN reports + 1 ELSE reports
  /\ ReaderEnds
  /\ UNCHANGED <<alive, cancelled, iflowID, sender, turns, transcriptPath, process, watcher,
                 pendingTool, doneTool, timer, late, resultReady, heard, fileVars,
                 closeVars>>

Silent ==
  /\ reader = "report" /\ SaysNothing
  /\ ReaderEnds
  /\ UNCHANGED <<alive, cancelled, iflowID, sender, turns, transcriptPath, process, watcher,
                 pendingTool, doneTool, timer, late, resultReady, heard, reports, fileVars,
                 queued, closeVars, crash>>

-----------------------------------------------------------------------------
(* Close.                                                                  *)

BeginClose ==
  /\ closer = "no"
  /\ closer' = "waiting"
  /\ alive' = FALSE
  /\ cancelled' = TRUE
  /\ UNCHANGED <<turnActive, iflowID, sender, turns, queued, turnVars, fileVars, abandoned,
                 iflowCrossed, crash>>

\* The wait for the WaitGroup is over, or 8 seconds are; close(events).
CloseEvents ==
  /\ closer = "waiting"
  /\ closer' = "done"
  /\ abandoned' = (reader # "none")
  /\ iflowCrossed' = (sender = "add")
  /\ UNCHANGED <<sessionVars, queued, turnVars, fileVars, crash>>

IFlowNext ==
  /\ ~crash
  /\ \/ Send \/ StartProcess \/ ProcessStartFails \/ StartReader
     \/ \E line \in Line : WriteLine(line)
     \/ OtherWrites \/ TakeEvent
     \/ \E how \in {"ok", "fail", "canceled"} : Exit(how)
     \/ FindTranscript \/ PollFails \/ ReadLine \/ EmitLine \/ EndOfLines \/ Poll
     \/ \E k \in EventKind : Fire(k) \/ Callback(k)
     \/ WaitProcess \/ Join \/ Report \/ Silent
     \/ BeginClose \/ CloseEvents

IFlowSpec == IFlowInit /\ [][IFlowNext]_iflowVars

-----------------------------------------------------------------------------
(* What a session promises.                                                *)

\* While a turn waits for a tool, a timer or its callback is there to end the wait,
\* through tools that overlap, results that cross the callback and callbacks that
\* come late: a tool that never comes back does not hold the turn for ever.
PendingHasTimer ==
  reader = "wait" /\ pendingTool # {} => "tool" \in timer \/ late["tool"] > 0

\* A turn of a session that is not closed ends with one report, and not before every
\* line of its process was read; the exceptions are a transcript of another chat and
\* one that could not be read when the process had ended.
ReportIsComplete ==
  [][reader = "report" /\ reader' = "none" /\ ~cancelled =>
       /\ reports' = 1
       /\ unread["own"] = <<>> \/ transcriptPath = "other" \/ missed]_iflowVars

\* "Each user gets an independent session with full conversation context"
\* (README.md:678): a turn takes text only from the transcript of its own process.
OwnTranscript == "other" \notin heard

-----------------------------------------------------------------------------
(* What every AgentSession promises, and how the state above maps to it.   *)

\* The worker of a turn is there from the start of its process until readLoop is done,
\* and watchTranscript is a part of it.
IFlowWorking ==
  IF process = "run" \/ sender = "add" \/ reader # "none" \/ watcher.pc \notin {"none", "gone"}
  THEN {turns} ELSE {}

IFlowContract == INSTANCE AgentSession WITH
  Worker <- 1..MaxTurn,
  Room <- Capacity,
  Patient <- FALSE,
  working <- IFlowWorking,
  stopped <- cancelled,
  waiting <- queued,
  open <- (closer # "done"),
  returned <- (closer = "done"),
  panicked <- crash

\* iFlow keeps the promises of AgentSession: a turn is over before the next one starts,
\* with process, readLoop and watcher, and neither of the two goroutines has anything
\* to say afterwards, whatever its timers do.
IFlowKeepsContract == IFlowContract!Spec
=============================================================================
