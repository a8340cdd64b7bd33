----------------------------- MODULE AgentProofs ----------------------------
(***************************************************************************)
(* The sessions of the agents, for any number of prompts and any capacity  *)
(* of the channels.                                                        *)
(***************************************************************************)
EXTENDS PromptSession, ClaudeSession, SeqItems, FiniteSetTheorems, TLAPS

-----------------------------------------------------------------------------
(* codex, cursor, gemini, opencode, qoder: one process per prompt.

   Close of the agents that start one process per prompt, for any number
   of prompts and any capacity of the channel: when it has returned, no
   process runs and no readLoop sends, but for the two ways around its
   wait.

   The WaitGroup counts a readLoop until its process has ended, and a Send
   starts nothing once the context is done. So what is left when the wait
   is over is a Send between Start and wg.Add. *)

USE PromptAssumption

ReaderPC == {"none", "scan", "emit", "last", "wait", "report", "gone"}
ReaderRecord ==
  [pc : ReaderPC, hand : {NoEvent} \union EventRecord, named : BOOLEAN, done : BOOLEAN]

\* A Send works on a prompt that has no readLoop yet, and later prompts have none.
SendOK ==
  /\ sender.pc # "idle" => sender.call \in Call
  /\ \A p \in Call :
       /\ p > sender.call => proc[p] = "none" /\ reader[p].pc = "none"
       /\ p = sender.call /\ sender.pc = "start" => proc[p] = "none"
       /\ p = sender.call /\ sender.pc \in {"start", "count"} => reader[p].pc = "none"

\* A process that runs is waited for by its readLoop, or not counted yet; its readLoop
\* leaves only after it, and has an event in hand only where it sends.
ReaderOK(p) ==
  /\ proc[p] = "running" => p \in Counted \/ (sender.pc = "count" /\ sender.call = p)
  /\ reader[p].pc \in {"gone", "report"} => proc[p] = "ended"
  /\ reader[p].hand # NoEvent => reader[p].pc \in {"emit", "last", "report"}

\* The channel is closed after Close cancelled the context; a Send that is between
\* Start and wg.Add by then was there when the wait ended.
CloserOK ==
  /\ closer # "no" => cancelled /\ ~alive
  /\ closed <=> closer = "done"
  /\ closed /\ sender.pc = "count" => sender.call \in crossed
  /\ crash # 0 => closed

PromptInv ==
  /\ PromptTypeOK
  /\ reader \in [Call -> ReaderRecord]
  /\ SendOK
  /\ \A p \in Call : ReaderOK(p)
  /\ CloserOK
  /\ ClosedIsQuiet

-----------------------------------------------------------------------------
(* Steps of the turn.                                                      *)

LEMMA SendKeeps ==
  ASSUME PromptInv,
         (\E p \in Call : BeginSend(p)) \/ StartProcess \/ StartFails \/ TakeEvent
  PROVE  PromptInv'
<1>1. UNCHANGED <<reader, closer, closed, cancelled, alive, abandoned, crossed, crash>>
  BY DEF BeginSend, StartProcess, StartFails, TakeEvent
<1>5. overtaken' \in BOOLEAN
  <2>1. CASE TakeEvent
    BY <2>1, Zenon DEF TakeEvent
  <2>2. CASE (\E p \in Call : BeginSend(p)) \/ StartProcess \/ StartFails
    BY <2>2 DEF BeginSend, StartProcess, StartFails, PromptInv, PromptTypeOK
  <2>. QED BY <2>1, <2>2
<1>2. ASSUME NEW p \in Call, BeginSend(p) PROVE PromptInv'
  <2>1. sender.pc = "idle" /\ p = sender.call + 1 /\ alive /\ sender' = [pc |-> "start", call |-> p]
        /\ resume' = [resume EXCEPT ![p] = sessionID] /\ UNCHANGED <<adapter, sessionID,
                                                                     events, proc>>
    BY <1>2 DEF BeginSend
  <2>2. PromptTypeOK'
    BY <1>1, <1>5, <2>1 DEF PromptInv, PromptTypeOK, Call
  <2>3. SendOK'
    BY <1>1, <2>1 DEF PromptInv, PromptTypeOK, SendOK, Call
  <2>4. ~closed
    BY <2>1 DEF PromptInv, CloserOK
  <2>. QED BY <1>1, <2>1, <2>2, <2>3, <2>4
         DEF PromptInv, ReaderOK, CloserOK, ClosedIsQuiet, Counted
<1>3. CASE StartProcess
  <2>. DEFINE c == sender.call
  <2>1. /\ sender.pc = "start" /\ ~cancelled /\ proc' = [proc EXCEPT ![c] = "running"]
        /\ sender' = [sender EXCEPT !.pc = "count"] /\ UNCHANGED <<adapter, sessionID,
                                                                   events, resume>>
    BY <1>3 DEF StartProcess
  <2>2. c \in Call /\ sender'.pc = "count" /\ sender'.call = c
    BY <2>1 DEF PromptInv, PromptTypeOK, SendOK
  <2>3. \A p \in Call : proc'[p] = IF p = c THEN "running" ELSE proc[p]
    BY <2>1 DEF PromptInv, PromptTypeOK
  <2>4. PromptTypeOK'
    BY <1>1, <1>5, <2>1 DEF PromptInv, PromptTypeOK
  <2>5. SendOK'
    BY <1>1, <2>1, <2>2, <2>3 DEF PromptInv, SendOK, Call
  <2>6. ~closed
    BY <2>1 DEF PromptInv, CloserOK
  <2>7. \A p \in Call : ReaderOK(p)'
    BY <1>1, <2>1, <2>2, <2>3 DEF PromptInv, ReaderOK, SendOK, Counted
  <2>. QED BY <1>1, <2>4, <2>5, <2>6, <2>7 DEF PromptInv, CloserOK, ClosedIsQuiet
<1>4. CASE StartFails \/ TakeEvent
  <2>1. /\ sender.pc \in {"start", "loop"} /\ UNCHANGED <<adapter, sessionID, resume, proc>>
        /\ sender' = sender \/ sender' = [sender EXCEPT !.pc = "idle"]
        /\ events' = events \/ (events # <<>> /\ events' = Tail(events))
    BY <1>4 DEF StartFails, TakeEvent
  <2>2. sender'.call = sender.call /\ sender'.pc \in {sender.pc, "idle"}
    BY <2>1 DEF PromptInv, PromptTypeOK
  <2>3. events' \in Seq(EventRecord) /\ Len(events') <= Capacity
    <3>1. CASE events' = events
      BY <3>1 DEF PromptInv, PromptTypeOK
    <3>2. CASE events # <<>> /\ events' = Tail(events)
      <4>1. Tail(events) \in Seq(EventRecord) /\ Len(Tail(events)) = Len(events) - 1
        BY <3>2, HeadTailProperties DEF PromptInv, PromptTypeOK
      <4>2. Len(events) \in Nat /\ Len(events) <= Capacity
        BY LenProperties DEF PromptInv, PromptTypeOK
      <4>. QED BY <3>2, <4>1, <4>2
    <3>. QED BY <2>1, <3>1, <3>2
  <2>4. PromptTypeOK'
    BY <1>1, <1>5, <2>1, <2>3 DEF PromptInv, PromptTypeOK
  <2>. QED BY <1>1, <2>1, <2>2, <2>4
         DEF PromptInv, SendOK, ReaderOK, CloserOK, ClosedIsQuiet, Counted
<1>. QED BY <1>2, <1>3, <1>4

\* wg.Add comes after Start: a Send that the wait has missed stays the exception.
LEMMA StartReaderKeeps == ASSUME PromptInv, StartReader PROVE PromptInv'
<1>. DEFINE c == sender.call
<1>1. /\ sender.pc = "count" /\ reader' = [reader EXCEPT ![c].pc = "scan"]
      /\ sender' = [sender EXCEPT !.pc = "loop"]
      /\ UNCHANGED <<adapter, alive, cancelled, sessionID, events, closed, resume, proc,
                     closer, abandoned, crossed, crash, overtaken>>
  BY DEF StartReader
<1>2. c \in Call /\ sender'.pc = "loop" /\ sender'.call = c
  BY <1>1 DEF PromptInv, PromptTypeOK, SendOK
<1>3. /\ reader'[c].pc = "scan" /\ reader'[c].hand = reader[c].hand
      /\ \A p \in Call \ {c} : reader'[p] = reader[p]
      /\ reader' \in [Call -> ReaderRecord]
  BY <1>1, <1>2 DEF PromptInv, ReaderRecord, ReaderPC
<1>4. PromptTypeOK'
  BY <1>1, <1>3 DEF PromptInv, PromptTypeOK, ReaderRecord, ReaderPC
<1>5. SendOK'
  BY <1>1, <1>2, <1>3 DEF PromptInv, PromptTypeOK, SendOK, Call
<1>6. \A p \in Call : ReaderOK(p)'
  BY <1>1, <1>2, <1>3 DEF PromptInv, ReaderOK, SendOK, Counted
<1>7. CloserOK' /\ ClosedIsQuiet'
  BY <1>1, <1>2, <1>3 DEF PromptInv, CloserOK, ClosedIsQuiet, Counted
<1>. QED BY <1>3, <1>4, <1>5, <1>6, <1>7 DEF PromptInv

-----------------------------------------------------------------------------
(* Steps of the process and its readLoop.                                  *)

\* A readLoop goes on: it is counted until it is gone.
LEMMA ReaderGoes ==
  ASSUME PromptInv, NEW p \in Call, NEW rec \in ReaderRecord,
         reader[p].pc \notin {"none", "gone"}, rec.pc # "none",
         rec.pc \in {"gone", "report"} => proc[p] = "ended",
         rec.hand # NoEvent => rec.pc \in {"emit", "last", "report"},
         reader' = [reader EXCEPT ![p] = rec],
         UNCHANGED <<adapter, alive, cancelled, closed, sender, resume, proc, closer,
                     abandoned, crossed, crash, overtaken>>,
         sessionID' \in Conv, events' \in Seq(EventRecord), Len(events') <= Capacity
  PROVE  PromptInv'
<1>1. reader'[p] = rec /\ \A q \in Call \ {p} : reader'[q] = reader[q]
  BY DEF PromptInv
<1>2. reader' \in [Call -> ReaderRecord]
  BY DEF PromptInv
<1>3. PromptTypeOK'
  BY <1>2 DEF PromptInv, PromptTypeOK, ReaderRecord, ReaderPC
<1>4. SendOK'
  BY <1>1 DEF PromptInv, SendOK
<1>5. \A q \in Call : ReaderOK(q)'
  BY <1>1 DEF PromptInv, ReaderOK, Counted
<1>6. CloserOK' /\ ClosedIsQuiet'
  BY <1>1 DEF PromptInv, CloserOK, ClosedIsQuiet, Counted
<1>. QED BY <1>2, <1>3, <1>4, <1>5, <1>6 DEF PromptInv

LEMMA ReadKeeps ==
  ASSUME PromptInv, NEW p \in Call, NEW line \in Lines, ReadLine(p, line)
  PROVE  PromptInv'
<1>. DEFINE rec == [pc |-> IF line.type = "none" THEN "scan" ELSE "emit",
                    hand |-> IF line.type = "none" THEN NoEvent ELSE Event(p, line.type, sessionID'),
                    named |-> reader[p].named \/ line.stores,
                    done |-> reader[p].done \/ line.type = "result"]
<1>1. /\ reader[p].pc = "scan" /\ reader' = [reader EXCEPT ![p] = rec]
      /\ sessionID' = IF line.stores THEN ConvOf(p) ELSE sessionID
      /\ UNCHANGED <<adapter, alive, cancelled, closed, sender, resume, proc, closer,
                     abandoned, crossed, crash, overtaken, events>>
  BY DEF ReadLine
<1>2. line.stores \in BOOLEAN /\ line.type \in {"none", "text", "result", "error"}
  <2>1. line \in CodexLines \union CursorLines \union GeminiLines \union OpenCodeLines \union QoderLines
    BY DEF Lines, PromptInv, PromptTypeOK
  <2>2. \A stores \in BOOLEAN, type \in {"none", "text", "result", "error"} :
          Line(stores, type).stores \in BOOLEAN
          /\ Line(stores, type).type \in {"none", "text", "result", "error"}
    BY DEF Line
  <2>3. PICK stores \in BOOLEAN, type \in {"none", "text", "result", "error"} : line = Line(stores, type)
    BY <2>1 DEF CodexLines, CursorLines, GeminiLines, OpenCodeLines, QoderLines
  <2>. QED BY <2>2, <2>3
<1>3. sessionID' \in Conv
  BY <1>1 DEF PromptInv, PromptTypeOK, ConvOf, Conv, Call
<1>4. line.type # "none" => Event(p, line.type, sessionID') \in EventRecord
  BY <1>2, <1>3 DEF Event, EventRecord, Conv
<1>5. rec \in ReaderRecord
  BY <1>2, <1>4 DEF ReaderRecord, ReaderPC, PromptInv, PromptTypeOK
<1>6. events' \in Seq(EventRecord) /\ Len(events') <= Capacity
  BY <1>1 DEF PromptInv, PromptTypeOK
<1>. QED BY <1>1, <1>3, <1>5, <1>6, ReaderGoes

LEMMA ReaderKeeps ==
  ASSUME PromptInv, NEW p \in Call,
         EndOfOutput(p) \/ Deliver(p) \/ DropEvent(p) \/ WaitProcess(p)
  PROVE  PromptInv'
<1>1. UNCHANGED <<adapter, alive, cancelled, sessionID, closed, sender, resume, proc,
                  closer, abandoned, crossed, crash, overtaken>>
  BY DEF EndOfOutput, Deliver, DropEvent, WaitProcess
<1>2. reader[p] \in ReaderRecord /\ sessionID' \in Conv
      /\ events \in Seq(EventRecord) /\ Len(events) <= Capacity
  BY <1>1 DEF PromptInv, PromptTypeOK
<1>3. Event(p, "error", NoConv) \in EventRecord
  BY DEF Event, EventRecord, Conv
<1>4. CASE EndOfOutput(p) \/ WaitProcess(p)
  <2>1. PICK pc \in ReaderPC, hand \in {reader[p].hand, Event(p, "error", NoConv)} :
          /\ reader[p].pc \in {"scan", "wait"} /\ pc \in {"wait", "last", "gone", "report"}
          /\ reader' = [reader EXCEPT ![p] = [reader[p] EXCEPT !.pc = pc, !.hand = hand]]
          /\ pc \in {"gone", "report"} => proc[p] = "ended"
          /\ hand # reader[p].hand => pc \in {"last", "report"}
    <3>1. CASE proc[p] = "ended" /\ reader[p].pc \in {"scan", "wait"}
               /\ \E pc \in {"wait", "gone"} : reader' = [reader EXCEPT ![p].pc = pc]
      BY <1>2, <3>1 DEF ReaderPC, ReaderRecord
    <3>. QED BY <1>2, <1>4, <3>1 DEF EndOfOutput, WaitProcess, ReaderPC
  <2>. DEFINE rec == [reader[p] EXCEPT !.pc = pc, !.hand = hand]
  <2>2. rec \in ReaderRecord /\ rec.pc = pc /\ rec.hand = hand
    BY <1>2, <1>3, <2>1 DEF ReaderRecord
  <2>3. reader[p].hand = NoEvent
    BY <2>1 DEF PromptInv, ReaderOK
  <2>4. UNCHANGED events
    BY <1>4 DEF EndOfOutput, WaitProcess
  <2>. QED BY <1>1, <1>2, <2>1, <2>2, <2>3, <2>4, ReaderGoes
<1>5. CASE Deliver(p) \/ DropEvent(p)
  <2>. DEFINE rec == [reader[p] EXCEPT !.pc = NextPC(@), !.hand = NoEvent]
  <2>1. reader[p].hand # NoEvent /\ reader' = [reader EXCEPT ![p] = rec]
    BY <1>2, <1>5 DEF Deliver, DropEvent, ReaderRecord
  <2>2. reader[p].pc \in {"emit", "last", "report"}
    BY <2>1 DEF PromptInv, ReaderOK
  <2>3. NextPC(reader[p].pc) \in {"scan", "wait", "gone"}
        /\ (NextPC(reader[p].pc) = "gone" => reader[p].pc = "report")
    BY <2>2 DEF NextPC
  <2>4. rec \in ReaderRecord /\ rec.pc = NextPC(reader[p].pc) /\ rec.hand = NoEvent
    BY <1>2, <2>3 DEF ReaderRecord, ReaderPC
  <2>5. reader[p].pc = "report" => proc[p] = "ended"
    BY DEF PromptInv, ReaderOK
  <2>6. events' \in Seq(EventRecord) /\ Len(events') <= Capacity
    <3>1. CASE Len(events) < Capacity /\ events' = Append(events, reader[p].hand)
      <4>1. reader[p].hand \in EventRecord
        BY <1>2, <2>1 DEF ReaderRecord
      <4>2. Len(events') = Len(events) + 1 /\ events' \in Seq(EventRecord)
        BY <1>2, <3>1, <4>1, AppendProperties
      <4>3. Len(events) \in Nat
        BY <1>2, LenProperties
      <4>. QED BY <3>1, <4>2, <4>3
    <3>2. CASE events' = events
      BY <1>2, <3>2
    <3>. QED BY <1>5, <3>1, <3>2 DEF Deliver, DropEvent
  <2>. QED BY <1>1, <1>2, <2>1, <2>2, <2>3, <2>4, <2>5, <2>6, ReaderGoes
<1>. QED BY <1>4, <1>5

\* A send on the closed channel is one of a readLoop the wait gave up on, or missed.
LEMMA PanicKeeps == ASSUME PromptInv, NEW p \in Call, SendPanics(p) PROVE PromptInv'
<1>1. /\ reader[p].hand # NoEvent /\ closed /\ crash' = p
      /\ UNCHANGED <<adapter, alive, cancelled, sessionID, events, closed, sender, resume,
                     proc, reader, closer, abandoned, crossed, overtaken>>
  BY DEF SendPanics
<1>2. p \in Counted
  BY <1>1 DEF PromptInv, ReaderOK, Counted
<1>3. abandoned \/ p \in crossed
  BY <1>1, <1>2 DEF PromptInv, ClosedIsQuiet
<1>4. PromptTypeOK'
  BY <1>1 DEF PromptInv, PromptTypeOK, Call
<1>. QED BY <1>1, <1>3, <1>4 DEF PromptInv, SendOK, ReaderOK, CloserOK, ClosedIsQuiet, Counted

LEMMA ProcessKeeps == ASSUME PromptInv, NEW p \in Call, ProcessEnds(p) PROVE PromptInv'
<1>1. /\ proc[p] = "running" /\ proc' = [proc EXCEPT ![p] = "ended"]
      /\ UNCHANGED <<adapter, alive, cancelled, sessionID, events, closed, sender, resume,
                     reader, closer, abandoned, crossed, crash, overtaken>>
  BY DEF ProcessEnds
<1>2. \A q \in Call : proc'[q] = IF q = p THEN "ended" ELSE proc[q]
  BY <1>1 DEF PromptInv, PromptTypeOK
<1>3. PromptTypeOK'
  BY <1>1 DEF PromptInv, PromptTypeOK
<1>. QED BY <1>1, <1>2, <1>3 DEF PromptInv, SendOK, ReaderOK, CloserOK, ClosedIsQuiet, Counted

-----------------------------------------------------------------------------
(* Close.                                                                  *)

\* Where the wait has returned no readLoop is counted, and a process that runs is
\* the one of a Send that did not count its readLoop yet.
LEMMA CloseKeeps ==
  ASSUME PromptInv, CancelParent \/ BeginClose \/ CloseAfterWait \/ CloseAfterTimeout
  PROVE  PromptInv'
<1>1. UNCHANGED <<adapter, sessionID, events, sender, resume, proc, reader, crash, overtaken>>
  BY DEF CancelParent, BeginClose, CloseAfterWait, CloseAfterTimeout, CloseEvents
<1>2. SendOK' /\ (\A p \in Call : ReaderOK(p)') /\ Counted' = Counted
  BY <1>1 DEF PromptInv, SendOK, ReaderOK, Counted
<1>3. CASE CancelParent \/ BeginClose
  <2>1. PromptTypeOK'
    BY <1>1, <1>3 DEF CancelParent, BeginClose, PromptInv, PromptTypeOK
  <2>2. CloserOK'
    <3>1. CASE CancelParent
      BY <1>1, <3>1 DEF CancelParent, PromptInv, CloserOK
    <3>2. CASE BeginClose
      BY <1>1, <3>2 DEF BeginClose, PromptInv, CloserOK
    <3>. QED BY <1>3, <3>1, <3>2
  <2>3. ClosedIsQuiet'
    BY <1>1, <1>2, <1>3 DEF CancelParent, BeginClose, PromptInv, ClosedIsQuiet
  <2>. QED BY <1>1, <1>2, <2>1, <2>2, <2>3 DEF PromptInv
<1>4. CASE CloseAfterWait \/ CloseAfterTimeout
  <2>1. /\ closer = "waiting" /\ closer' = "done" /\ closed' = TRUE /\ UNCHANGED <<alive,
                                                                                   cancelled>>
        /\ crossed' = IF sender.pc = "count" THEN {sender.call} ELSE {}
    BY <1>4 DEF CloseAfterWait, CloseAfterTimeout, CloseEvents
  <2>2. abandoned' \/ (Counted = {} /\ UNCHANGED abandoned)
    BY <1>4 DEF CloseAfterWait, CloseAfterTimeout
  <2>3. abandoned' \in BOOLEAN /\ crossed' \subseteq Call
    BY <1>4, <2>1 DEF CloseAfterWait, CloseAfterTimeout, PromptInv, PromptTypeOK, SendOK
  <2>4. PromptTypeOK'
    BY <1>1, <2>1, <2>3 DEF PromptInv, PromptTypeOK
  <2>5. CloserOK'
    BY <1>1, <2>1 DEF PromptInv, CloserOK
  <2>6. crash = 0
    BY <2>1 DEF PromptInv, CloserOK
  <2>7. ClosedIsQuiet'
    BY <1>1, <1>2, <2>1, <2>2, <2>6 DEF PromptInv, ReaderOK, ClosedIsQuiet
  <2>. QED BY <1>1, <1>2, <2>4, <2>5, <2>7 DEF PromptInv
<1>. QED BY <1>3, <1>4

-----------------------------------------------------------------------------
(* The theorems.                                                           *)

\* PromptInv holds in every state: what Close waits for covers every reader.
THEOREM PromptInvariance == PromptSpec => []PromptInv
<1>1. PromptInit => PromptInv
  <2>. SUFFICES ASSUME PromptInit PROVE PromptInv
    OBVIOUS
  <2>1. reader \in [Call -> ReaderRecord] /\ \A p \in Call : reader[p] = NoReader
    BY DEF PromptInit, NoReader, ReaderRecord, ReaderPC
  <2>2. events \in Seq(EventRecord) /\ Len(events) <= Capacity
    BY EmptySeq DEF PromptInit
  <2>3. PromptTypeOK
    <3>1. 0 \in 0..MaxCall
      OBVIOUS
    <3>2. sessionID \in Conv /\ resume \in [Call -> Conv] /\ crash \in 0..MaxCall
          /\ sender \in [pc : {"idle", "start", "count", "loop"}, call : 0..MaxCall]
      BY <3>1 DEF PromptInit, Conv
    <3>3. \A p \in Call :
            /\ reader[p].pc \in ReaderPC /\ reader[p].hand \in {NoEvent} \union EventRecord
            /\ reader[p].named \in BOOLEAN /\ reader[p].done \in BOOLEAN
      BY <2>1 DEF ReaderRecord
    <3>. QED BY <2>2, <3>2, <3>3 DEF PromptInit, PromptTypeOK, ReaderPC
  <2>. QED BY <2>1, <2>3
         DEF PromptInit, PromptInv, SendOK, ReaderOK, CloserOK, ClosedIsQuiet, NoReader
<1>2. PromptInv /\ [PromptNext]_promptVars => PromptInv'
  <2>. SUFFICES ASSUME PromptInv, [PromptNext]_promptVars PROVE PromptInv'
    OBVIOUS
  <2>1. CASE UNCHANGED promptVars
    BY <2>1 DEF promptVars, PromptInv, PromptTypeOK, SendOK, ReaderOK, CloserOK, ClosedIsQuiet, Counted
  <2>2. CASE PromptNext
    BY <2>2, SendKeeps, StartReaderKeeps, ReadKeeps, ReaderKeeps, PanicKeeps, ProcessKeeps, CloseKeeps
       DEF PromptNext
  <2>. QED BY <2>1, <2>2
<1>. QED BY <1>1, <1>2, PTL DEF PromptSpec

\* Every variable of the session has its type, and the channel keeps to its capacity.
THEOREM PromptTypeCorrect == PromptSpec => []PromptTypeOK
<1>1. PromptInv => PromptTypeOK
  BY DEF PromptInv
<1>. QED BY <1>1, PromptInvariance, PTL

\* Close: when it has returned no process runs and no readLoop is left, and none
\* sends on the closed channel, unless Close gave up its wait or the wait missed a
\* Send between Start and wg.Add.
THEOREM CloseIsQuiet == PromptSpec => []ClosedIsQuiet
<1>1. PromptInv => ClosedIsQuiet
  BY DEF PromptInv
<1>. QED BY <1>1, PromptInvariance, PTL

-----------------------------------------------------------------------------
(* What the turns hear.

   A conversation is opened by the first prompt and has one name from then on,
   unless a second prompt came before the name was known. And what a process
   says ends with its result or its error: only errors of it come later. *)

\* The events say whose they are; a prompt without a readLoop has said nothing; and
\* the name of the conversation is not forgotten.
NamesOK ==
  /\ \A p \in Call : reader[p].pc = "none" =>
       reader[p].hand = NoEvent /\ ~reader[p].named /\ ~reader[p].done
  /\ \A p \in Call : reader[p].hand # NoEvent => reader[p].hand.from = p
  /\ \A i \in DOMAIN events : reader[events[i].from].pc # "none"
  /\ sessionID = NoConv => \A p \in 1..sender.call : resume[p] = NoConv

\* No second prompt opened a conversation.
OneOpened == \A p, q \in 1..sender.call : resume[p] = NoConv /\ resume[q] = NoConv => p = q

\* Everybody means conversation c.
OneName(c) ==
  /\ sessionID \in {NoConv, c}
  /\ \A p \in 1..sender.call :
       /\ ConvOf(p) = c
       /\ reader[p].named => sessionID = c
       /\ reader[p].hand # NoEvent /\ reader[p].hand.type = "result" => reader[p].hand.sid = c
  /\ \A i \in DOMAIN events : events[i].type = "result" => events[i].sid = c

NamesInv == NamesOK /\ (OneOpened => \E c \in 0..MaxCall : OneName(c))

\* The process of p says nothing more, but that it failed.
Over(p) ==
  /\ reader[p].done \/ reader[p].pc \notin {"scan", "emit"}
  /\ reader[p].hand # NoEvent => reader[p].hand.type = "error"

EndsSpeech(i) == events[i].type # "text"

\* After a result or an error a process says nothing more, and no turn is over
\* before its process is.
TurnOK ==
  /\ \A p \in Call : reader[p].hand # NoEvent =>
       /\ reader[p].pc = "emit" <=> reader[p].hand.type # "error"
       /\ reader[p].hand.type = "result" => reader[p].done
  /\ \A i \in DOMAIN events : EndsSpeech(i) => Over(events[i].from)
  /\ \A i, j \in DOMAIN events :
       i < j /\ EndsSpeech(i) /\ events[i].from = events[j].from => events[j].type = "error"
  /\ ~overtaken =>
       \A p \in 1..sender.call : p # sender.call \/ sender.pc = "idle" =>
         /\ Over(p)
         /\ \A i \in DOMAIN events : events[i].from = p => events[i].type = "error"

TurnInv == adapter \notin {"opencode", "gemini"} => TurnOK

TalkInv == PromptInv /\ NamesInv /\ TurnInv

LEMMA EventsFrom ==
  ASSUME PromptInv PROVE \A i \in DOMAIN events : events[i] \in EventRecord /\ events[i].from \in Call
<1>1. events \in Seq(EventRecord)
  BY DEF PromptInv, PromptTypeOK
<1>2. \A i \in DOMAIN events : events[i] \in EventRecord
  BY <1>1, LenProperties, ElementOfSeq
<1>. QED BY <1>2 DEF EventRecord

\* What a prompt or the end of one changes for the turns.
LEMMA SenderTalks ==
  ASSUME TalkInv, NEW s \in [pc : {"idle", "start", "count", "loop"}, call : 0..MaxCall],
         sender' = s, s.call = sender.call, s.pc # "idle" \/ sender.pc = "start",
         UNCHANGED <<adapter, sessionID, resume, reader, events, overtaken>>
  PROVE  NamesInv' /\ TurnInv'
<1>1. NamesInv'
  BY DEF TalkInv, NamesInv, NamesOK, OneOpened, OneName, ConvOf
<1>2. ASSUME adapter \notin {"opencode", "gemini"} PROVE TurnOK'
  <2>1. TurnOK
    BY <1>2 DEF TalkInv, TurnInv
  <2>2. sender.pc = "start" =>
          /\ sender.call \in Call /\ Over(sender.call)
          /\ \A i \in DOMAIN events : events[i].from # sender.call
    BY DEF TalkInv, PromptInv, SendOK, NamesInv, NamesOK, Over
  <2>. QED BY <2>1, <2>2 DEF TurnOK, Over, EndsSpeech
<1>. QED BY <1>1, <1>2 DEF TurnInv

\* The first prompt opens the conversation, or resumes an old one; a later one
\* resumes it too, unless it opens a second one.
LEMMA BeginTalks == ASSUME TalkInv, NEW p \in Call, BeginSend(p) PROVE NamesInv' /\ TurnInv'
<1>1. /\ sender.pc = "idle" /\ p = sender.call + 1 /\ sender' = [pc |-> "start", call |-> p]
      /\ resume' = [resume EXCEPT ![p] = sessionID]
      /\ UNCHANGED <<adapter, sessionID, reader, events, overtaken>>
  BY DEF BeginSend
<1>2. /\ sender.call \in Nat /\ sender'.call = p /\ sender'.pc = "start"
      /\ resume'[p] = sessionID /\ \A q \in Call \ {p} : resume'[q] = resume[q]
      /\ 1..sender.call \subseteq Call \ {p} /\ \A q \in 1..p : q = p \/ q \in 1..sender.call
      /\ 1..sender.call \subseteq 1..p /\ p \in 1..p
  BY <1>1 DEF TalkInv, PromptInv, PromptTypeOK, Call
<1>3. NamesOK'
  BY <1>1, <1>2 DEF TalkInv, NamesInv, NamesOK
<1>4. /\ reader[p].pc = "none" /\ reader[p].hand = NoEvent /\ ~reader[p].named
      /\ \A i \in DOMAIN events : events[i].from # p
  <2>1. reader[p].pc = "none"
    BY <1>1, <1>2 DEF TalkInv, PromptInv, SendOK
  <2>. QED BY <2>1 DEF TalkInv, NamesInv, NamesOK
<1>5. ASSUME OneOpened' PROVE \E c \in 0..MaxCall : OneName(c)'
  <2>1. OneOpened
    BY <1>2, <1>5 DEF OneOpened
  <2>2. PICK c \in 0..MaxCall : OneName(c)
    BY <2>1 DEF TalkInv, NamesInv
  <2>3. \A q \in 1..sender.call : ConvOf(q)' = ConvOf(q)
    BY <1>2 DEF ConvOf
  <2>4. NoConv \notin 0..MaxCall
    BY DEF PromptAssumption
  <2>5. CASE sessionID # NoConv
    <3>1. ConvOf(p)' = c
      BY <1>2, <2>2, <2>5 DEF ConvOf, OneName
    <3>. QED BY <1>1, <1>2, <1>4, <2>2, <2>3, <3>1 DEF OneName
  <2>6. CASE sessionID = NoConv
    <3>1. \A q \in 1..sender.call : resume'[q] = NoConv
      BY <1>2, <2>6 DEF TalkInv, NamesInv, NamesOK
    <3>2. 1..sender.call = {}
      BY <1>2, <1>5, <2>6, <3>1 DEF OneOpened
    <3>3. ConvOf(p)' = p /\ p \in 0..MaxCall
      BY <1>2, <2>6 DEF ConvOf, Call
    <3>4. \A i \in DOMAIN events : FALSE
      <4>1. ASSUME NEW i \in DOMAIN events PROVE FALSE
        <5>1. events[i].from \in Call
          BY EventsFrom DEF TalkInv
        <5>2. reader[events[i].from].pc # "none"
          BY DEF TalkInv, NamesInv, NamesOK
        <5>3. events[i].from \in 1..sender.call
          BY <1>2, <5>1, <5>2 DEF TalkInv, PromptInv, SendOK, Call
        <5>. QED BY <3>2, <5>3
      <4>. QED BY <4>1
    <3>5. OneName(p)'
      BY <1>1, <1>2, <1>4, <2>6, <3>2, <3>3, <3>4 DEF OneName
    <3>. QED BY <3>3, <3>5
  <2>. QED BY <2>5, <2>6
<1>6. ASSUME adapter \notin {"opencode", "gemini"} PROVE TurnOK'
  <2>1. TurnOK
    BY <1>6 DEF TalkInv, TurnInv
  <2>. QED BY <1>1, <1>2, <2>1 DEF TurnOK, Over, EndsSpeech
<1>. QED BY <1>1, <1>3, <1>5, <1>6 DEF NamesInv, TurnInv

\* wg.Add and the readLoop: it has said nothing yet.
LEMMA StartReaderTalks == ASSUME TalkInv, StartReader PROVE NamesInv' /\ TurnInv'
<1>. DEFINE c == sender.call
<1>1. /\ sender.pc = "count" /\ reader' = [reader EXCEPT ![c].pc = "scan"]
      /\ sender' = [sender EXCEPT !.pc = "loop"]
      /\ UNCHANGED <<adapter, sessionID, events, resume, overtaken>>
  BY DEF StartReader
<1>2. c \in Call /\ sender'.pc = "loop" /\ sender'.call = c /\ reader[c].pc = "none"
  BY <1>1 DEF TalkInv, PromptInv, PromptTypeOK, SendOK
<1>3. /\ reader'[c] = [reader[c] EXCEPT !.pc = "scan"] /\ reader'[c].pc = "scan"
      /\ reader'[c].hand = reader[c].hand /\ reader'[c].named = reader[c].named
      /\ reader'[c].done = reader[c].done
      /\ \A p \in Call \ {c} : reader'[p] = reader[p]
  BY <1>1, <1>2 DEF TalkInv, PromptInv, ReaderRecord
<1>4. /\ reader[c].hand = NoEvent /\ ~reader[c].named /\ ~reader[c].done
      /\ \A i \in DOMAIN events : events[i].from # c
  BY <1>2 DEF TalkInv, NamesInv, NamesOK
<1>5. \A i \in DOMAIN events : events[i].from \in Call
  BY EventsFrom DEF TalkInv
<1>6. NamesOK'
  BY <1>1, <1>2, <1>3, <1>4, <1>5 DEF TalkInv, NamesInv, NamesOK
<1>7. c = sender.call /\ 1..c \subseteq Call
  BY <1>2 DEF Call
<1>8. \A d : OneName(d) => OneName(d)'
  BY <1>1, <1>2, <1>3, <1>7 DEF OneName, ConvOf
<1>9. OneOpened' <=> OneOpened
  BY <1>1, <1>2 DEF OneOpened
<1>10. ASSUME adapter \notin {"opencode", "gemini"} PROVE TurnOK'
  <2>1. TurnOK
    BY <1>10 DEF TalkInv, TurnInv
  <2>2. \A p \in Call : p # c => (Over(p)' <=> Over(p))
    BY <1>3 DEF Over
  <2>. QED BY <1>1, <1>2, <1>3, <1>4, <1>5, <1>7, <2>1, <2>2 DEF TurnOK, EndsSpeech
<1>. QED BY <1>1, <1>6, <1>8, <1>9, <1>10 DEF TalkInv, NamesInv, TurnInv

LEMMA EventsOfPrompts ==
  ASSUME TalkInv PROVE \A i \in DOMAIN events : events[i].from \in 1..sender.call
<1>1. ASSUME NEW i \in DOMAIN events PROVE events[i].from \in 1..sender.call
  <2>1. events[i].from \in Call /\ reader[events[i].from].pc # "none"
    BY EventsFrom DEF TalkInv, NamesInv, NamesOK
  <2>. QED BY <2>1 DEF TalkInv, PromptInv, PromptTypeOK, SendOK, Call
<1>. QED BY <1>1

\* A turn takes an event: if it ends with it, then its own process is over, or it was
\* overtaken.
LEMMA TakeTalks == ASSUME TalkInv, TakeEvent PROVE NamesInv' /\ TurnInv'
<1>1. /\ sender.pc = "loop" /\ events # <<>> /\ events' = Tail(events)
      /\ UNCHANGED <<adapter, sessionID, resume, reader>>
      /\ ~overtaken' => ~overtaken /\ (Head(events).type = "error" => Head(events).from = sender.call)
      /\ sender' = IF Head(events).type = "text" THEN sender ELSE [sender EXCEPT !.pc = "idle"]
  BY DEF TakeEvent
<1>2. sender'.call = sender.call /\ (sender'.pc = "idle" => Head(events).type # "text")
  BY <1>1 DEF TalkInv, PromptInv, PromptTypeOK
<1>3. events \in Seq(EventRecord)
  BY DEF TalkInv, PromptInv, PromptTypeOK
<1>4. /\ Head(events) = events[1] /\ 1 \in DOMAIN events
      /\ \A j \in DOMAIN events' :
           j \in Nat \ {0} /\ j + 1 \in DOMAIN events /\ events'[j] = events[j + 1]
  BY <1>1, <1>3, TailItems
<1>5. NamesInv'
  BY <1>1, <1>2, <1>4 DEF TalkInv, NamesInv, NamesOK, OneOpened, OneName, ConvOf
<1>6. ASSUME adapter \notin {"opencode", "gemini"} PROVE TurnOK'
  <2>1. TurnOK
    BY <1>6 DEF TalkInv, TurnInv
  <2>5. \A q : Over(q)' <=> Over(q)
    BY <1>1 DEF Over
  <2>2. (\A i \in DOMAIN events : EndsSpeech(i) => Over(events[i].from))'
    BY <1>4, <2>1, <2>5 DEF TurnOK, EndsSpeech
  <2>3. \A i, j \in DOMAIN events' :
          i < j /\ EndsSpeech(i)' /\ events'[i].from = events'[j].from => events'[j].type = "error"
    BY <1>4, <2>1 DEF TurnOK, EndsSpeech
  <2>4. ASSUME ~overtaken', NEW p \in 1..sender.call, p # sender.call \/ sender'.pc = "idle"
        PROVE  Over(p) /\ \A j \in DOMAIN events' : events'[j].from = p => events'[j].type = "error"
    <3>1. CASE p # sender.call
      BY <1>1, <1>4, <2>1, <2>4, <3>1 DEF TurnOK
    <3>2. CASE p = sender.call
      <4>1. EndsSpeech(1)
        BY <1>2, <1>4, <2>4, <3>2 DEF EndsSpeech
      <4>2. events[1].from = p
        BY <1>1, <1>4, <2>1, <2>4, <3>2, EventsOfPrompts DEF TurnOK
      <4>3. \A j \in DOMAIN events' : 1 < j + 1
        BY <1>4
      <4>. QED BY <1>4, <2>1, <4>1, <4>2, <4>3 DEF TurnOK
    <3>. QED BY <3>1, <3>2
  <2>. QED BY <1>1, <1>2, <2>1, <2>2, <2>3, <2>4, <2>5 DEF TurnOK
<1>. QED BY <1>1, <1>5, <1>6 DEF TurnInv

\* What a readLoop does to its own record and to the channel leaves the names in order.
LEMMA NamesStay ==
  ASSUME NamesOK, NEW p \in Call, reader'[p].pc # "none",
         \A q \in Call \ {p} : reader'[q] = reader[q],
         reader'[p].hand # NoEvent => reader'[p].hand.from = p,
         \A i \in DOMAIN events' : /\ events'[i].from \in Call
                                  /\ \/ events'[i].from = p
                                     \/ i \in DOMAIN events /\ events'[i] = events[i],
         sessionID' = NoConv => sessionID = NoConv,
         UNCHANGED <<sender, resume>>
  PROVE  NamesOK'
<1>1. \A q \in Call : reader'[q].pc = "none" =>
        reader'[q].hand = NoEvent /\ ~reader'[q].named /\ ~reader'[q].done
  <2>1. ASSUME NEW q \in Call, reader'[q].pc = "none" PROVE q \in Call \ {p} /\ reader[q].pc = "none"
    BY <2>1
  <2>. QED BY <2>1 DEF NamesOK
<1>2. \A q \in Call : reader'[q].hand # NoEvent => reader'[q].hand.from = q
  BY DEF NamesOK
<1>3. \A i \in DOMAIN events' : reader'[events'[i].from].pc # "none"
  <2>1. ASSUME NEW i \in DOMAIN events', events'[i].from # p
        PROVE  reader'[events'[i].from].pc # "none"
    <3>1. events'[i].from \in Call \ {p} /\ i \in DOMAIN events /\ events'[i] = events[i]
      BY <2>1
    <3>2. reader[events[i].from].pc # "none"
      BY <3>1 DEF NamesOK
    <3>. QED BY <3>1, <3>2
  <2>. QED BY <2>1
<1>4. sessionID' = NoConv => \A q \in 1..sender'.call : resume'[q] = NoConv
  BY DEF NamesOK
<1>. QED BY <1>1, <1>2, <1>3, <1>4 DEF NamesOK

\* A line is read: it is the process's own name that a result carries.
LEMMA ReadTalks ==
  ASSUME TalkInv, NEW p \in Call, NEW line \in Lines, ReadLine(p, line)
  PROVE  NamesInv' /\ TurnInv'
<1>. DEFINE hand == IF line.type = "none" THEN NoEvent ELSE Event(p, line.type, sessionID')
<1>1. /\ reader[p].pc = "scan" /\ Writes(p, line)
      /\ sessionID' = IF line.stores THEN ConvOf(p) ELSE sessionID
      /\ reader' = [reader EXCEPT ![p] = [pc |-> IF line.type = "none" THEN "scan" ELSE "emit",
                                          hand |-> hand, named |-> reader[p].named \/ line.stores,
                                          done |-> reader[p].done \/ line.type = "result"]]
      /\ UNCHANGED <<adapter, sender, resume, events, overtaken>>
  BY DEF ReadLine
<1>2. /\ reader'[p].pc = IF line.type = "none" THEN "scan" ELSE "emit"
      /\ reader'[p].hand = hand
      /\ reader'[p].named <=> reader[p].named \/ line.stores
      /\ reader'[p].done <=> reader[p].done \/ line.type = "result"
      /\ \A q \in Call \ {p} : reader'[q] = reader[q]
  BY <1>1 DEF TalkInv, PromptInv
<1>3. /\ p \in 1..sender.call /\ 1..sender.call \subseteq Call /\ p # NoConv
      /\ \A i \in DOMAIN events : events[i].from \in Call
  BY <1>1, EventsFrom DEF TalkInv, PromptInv, PromptTypeOK, SendOK, Call, PromptAssumption
<1>4. /\ Event(p, line.type, sessionID').from = p /\ Event(p, line.type, sessionID').type = line.type
      /\ line.type = "result" => Event(p, line.type, sessionID').sid = sessionID'
  BY DEF Event
<1>5. NamesOK'
  <2>1. ConvOf(p) # NoConv
    BY <1>3 DEF ConvOf
  <2>2. sessionID' = NoConv => sessionID = NoConv
    BY <1>1, <2>1
  <2>3. reader'[p].pc # "none" /\ (hand # NoEvent => hand.from = p)
    BY <1>2, <1>4
  <2>4. NamesOK
    BY DEF TalkInv, NamesInv
  <2>5. \A i \in DOMAIN events' : events'[i].from \in Call /\ i \in DOMAIN events /\ events'[i] = events[i]
    BY <1>1, <1>3
  <2>6. \A q \in Call \ {p} : reader'[q] = reader[q]
    BY <1>2
  <2>7. reader'[p].hand # NoEvent => reader'[p].hand.from = p
    BY <1>2, <2>3
  <2>8. UNCHANGED <<sender, resume>>
    BY <1>1
  <2>. QED BY <2>2, <2>3, <2>4, <2>5, <2>6, <2>7, <2>8, NamesStay
<1>6. \A c : OneName(c) => OneName(c)'
  <2>1. ASSUME NEW c, OneName(c) PROVE OneName(c)'
    <3>1. ConvOf(p) = c /\ sessionID' \in {sessionID, c}
      BY <1>1, <1>3, <2>1 DEF OneName
    <3>2. line.stores \/ reader[p].named => sessionID' = c
      BY <1>1, <1>3, <2>1, <3>1 DEF OneName
    <3>3. \A q \in 1..sender.call : ConvOf(q)' = ConvOf(q)
      BY <1>1 DEF ConvOf
    <3>4. line.type = "result" => sessionID' = c
      BY <1>1, <3>2 DEF Writes
    <3>. QED BY <1>1, <1>2, <1>3, <1>4, <2>1, <3>1, <3>2, <3>3, <3>4 DEF OneName
  <2>. QED BY <2>1
<1>7. OneOpened' <=> OneOpened
  BY <1>1 DEF OneOpened
<1>8. ASSUME adapter \notin {"opencode", "gemini"} PROVE TurnOK'
  <2>1. TurnOK
    BY <1>8 DEF TalkInv, TurnInv
  <2>2. line.type \in {"none", "text", "result"}
    BY <1>8 DEF Lines, CodexLines, CursorLines, QoderLines, Line, TalkInv, PromptInv, PromptTypeOK
  <2>3. ~Over(p)
    BY <1>1, <1>8 DEF Over, Writes
  <2>4. \A q \in Call : Over(q) => Over(q)'
    BY <1>2, <2>3 DEF Over
  <2>5. reader'[p].hand # NoEvent =>
          /\ reader'[p].pc = "emit" /\ reader'[p].hand.type # "error"
          /\ reader'[p].hand.type = "result" => reader'[p].done
    BY <1>2, <1>4, <2>2
  <2>6. \A q \in Call : reader'[q].hand # NoEvent =>
          /\ reader'[q].pc = "emit" <=> reader'[q].hand.type # "error"
          /\ reader'[q].hand.type = "result" => reader'[q].done
    BY <1>2, <2>1, <2>5 DEF TurnOK
  <2>. QED BY <1>1, <1>3, <2>1, <2>4, <2>6 DEF TurnOK, EndsSpeech
<1>. QED BY <1>1, <1>5, <1>6, <1>7, <1>8 DEF TalkInv, NamesInv, TurnInv

\* The output ends, or the process: an error is all that may be said now.
LEMMA EndTalks ==
  ASSUME TalkInv, NEW p \in Call, EndOfOutput(p) \/ WaitProcess(p)
  PROVE  NamesInv' /\ TurnInv'
<1>. DEFINE err == Event(p, "error", NoConv)
<1>1. /\ reader[p].pc \in {"scan", "wait"}
      /\ \/ \E pc \in {"wait", "gone"} : reader' = [reader EXCEPT ![p].pc = pc]
         \/ \E pc \in {"last", "report"} : reader' = [reader EXCEPT ![p].pc = pc, ![p].hand = err]
      /\ UNCHANGED <<adapter, sender, sessionID, resume, events, overtaken>>
  BY DEF EndOfOutput, WaitProcess
<1>2. reader[p] \in ReaderRecord /\ reader[p].hand = NoEvent
  BY <1>1 DEF TalkInv, PromptInv, ReaderOK
<1>3. /\ reader'[p].pc \in {"wait", "gone", "last", "report"}
      /\ \/ reader'[p].hand = NoEvent
         \/ reader'[p].hand = err /\ reader'[p].pc \in {"last", "report"}
      /\ reader'[p].named = reader[p].named /\ reader'[p].done = reader[p].done
      /\ \A q \in Call \ {p} : reader'[q] = reader[q]
  BY <1>1, <1>2 DEF TalkInv, PromptInv, ReaderRecord
<1>4. /\ err.from = p /\ err.type = "error" /\ 1..sender.call \subseteq Call
      /\ \A i \in DOMAIN events : events[i].from \in Call
  BY EventsFrom DEF Event, TalkInv, PromptInv, PromptTypeOK, Call
<1>5. NamesInv'
  <2>1. NamesOK'
    <3>1. NamesOK /\ reader'[p].pc # "none" /\ (reader'[p].hand # NoEvent => reader'[p].hand.from = p)
      BY <1>3, <1>4 DEF TalkInv, NamesInv
    <3>2. \A q \in Call \ {p} : reader'[q] = reader[q]
      BY <1>3
    <3>3. \A i \in DOMAIN events' :
            events'[i].from \in Call /\ i \in DOMAIN events /\ events'[i] = events[i]
      BY <1>1, <1>4
    <3>4. UNCHANGED <<sender, sessionID, resume>>
      BY <1>1
    <3>. QED BY <3>1, <3>2, <3>3, <3>4, NamesStay
  <2>2. \A c : OneName(c) => OneName(c)'
    <3>1. ASSUME NEW c, OneName(c) PROVE OneName(c)'
      <4>1. \A q \in 1..sender.call : ConvOf(q)' = c
        BY <1>1, <3>1 DEF OneName, ConvOf
      <4>2. \A q \in 1..sender.call : reader'[q].named => sessionID' = c
        BY <1>1, <1>3, <1>4, <3>1 DEF OneName
      <4>3. \A q \in 1..sender.call :
              reader'[q].hand # NoEvent /\ reader'[q].hand.type = "result" => reader'[q].hand.sid = c
        BY <1>1, <1>3, <1>4, <3>1 DEF OneName
      <4>. QED BY <1>1, <3>1, <4>1, <4>2, <4>3 DEF OneName
    <3>. QED BY <3>1
  <2>. QED BY <1>1, <2>1, <2>2 DEF TalkInv, NamesInv, OneOpened
<1>6. ASSUME adapter \notin {"opencode", "gemini"} PROVE TurnOK'
  <2>1. TurnOK
    BY <1>6 DEF TalkInv, TurnInv
  <2>2. \A q \in Call : Over(q) => Over(q)'
    BY <1>3, <1>4 DEF Over
  <2>. QED BY <1>1, <1>3, <1>4, <2>1, <2>2 DEF TurnOK, EndsSpeech
<1>. QED BY <1>1, <1>5, <1>6 DEF TurnInv

\* An event goes into the channel, or is dropped.
LEMMA DeliverTalks ==
  ASSUME TalkInv, NEW p \in Call, Deliver(p) \/ DropEvent(p)
  PROVE  NamesInv' /\ TurnInv'
<1>. DEFINE e == reader[p].hand
<1>1. /\ e # NoEvent /\ reader' = [reader EXCEPT ![p].pc = NextPC(@), ![p].hand = NoEvent]
      /\ events' = Append(events, e) \/ events' = events
      /\ UNCHANGED <<adapter, sender, sessionID, resume, overtaken>>
  BY DEF Deliver, DropEvent
<1>2. /\ reader[p] \in ReaderRecord /\ e \in EventRecord /\ events \in Seq(EventRecord)
      /\ reader[p].pc \in {"emit", "last", "report"}
  BY <1>1 DEF TalkInv, PromptInv, PromptTypeOK, ReaderOK, ReaderRecord
<1>3. /\ reader'[p].pc = NextPC(reader[p].pc) /\ reader'[p].hand = NoEvent
      /\ reader'[p].named = reader[p].named /\ reader'[p].done = reader[p].done
      /\ \A q \in Call \ {p} : reader'[q] = reader[q]
  BY <1>1, <1>2 DEF TalkInv, PromptInv, ReaderRecord
<1>4. /\ NextPC(reader[p].pc) \in {"scan", "wait", "gone"}
      /\ NextPC(reader[p].pc) = "scan" => reader[p].pc = "emit"
  BY <1>2 DEF NextPC
<1>5. /\ 1..sender.call \subseteq Call /\ p \in 1..sender.call
      /\ \A i \in DOMAIN events : events[i].from \in Call
  <2>1. reader[p].pc # "none"
    BY <1>2
  <2>. QED BY <2>1, EventsFrom DEF TalkInv, PromptInv, PromptTypeOK, SendOK, Call
<1>6. \A j \in DOMAIN events' :
        /\ events'[j] = e \/ (j \in DOMAIN events /\ events'[j] = events[j])
        /\ \A i \in DOMAIN events' : i < j => i \in DOMAIN events /\ events'[i] = events[i]
  <2>1. CASE events' = events
    BY <2>1
  <2>2. CASE events' = Append(events, e)
    <3>1. /\ Append(events, e) \in Seq(EventRecord) /\ Len(Append(events, e)) = Len(events) + 1
          /\ \A i \in 1..Len(events) : Append(events, e)[i] = events[i]
          /\ Append(events, e)[Len(events) + 1] = e
      BY <1>2, AppendProperties
    <3>2. /\ Len(events) \in Nat /\ DOMAIN events = 1..Len(events)
          /\ DOMAIN events' = 1..(Len(events) + 1)
      BY <1>2, <2>2, <3>1, LenProperties
    <3>. QED BY <2>2, <3>1, <3>2
  <2>. QED BY <1>1, <2>1, <2>2
<1>7. e.from = p
  BY <1>1 DEF TalkInv, NamesInv, NamesOK
<1>8. NamesInv'
  <2>3. \A j \in DOMAIN events' : events'[j] = e \/ (j \in DOMAIN events /\ events'[j] = events[j])
    BY <1>6
  <2>4. reader'[p].pc # "none" /\ reader[p].pc # "none"
    BY <1>2, <1>3, <1>4
  <2>1. NamesOK'
    <3>1. NamesOK
      BY DEF TalkInv, NamesInv
    <3>2. \A i \in DOMAIN events' :
            /\ events'[i].from \in Call
            /\ events'[i].from = p \/ (i \in DOMAIN events /\ events'[i] = events[i])
      BY <1>5, <1>7, <2>3
    <3>3. \A q \in Call \ {p} : reader'[q] = reader[q]
      BY <1>3
    <3>4. UNCHANGED <<sender, sessionID, resume>> /\ reader'[p].hand = NoEvent
      BY <1>1, <1>3
    <3>. QED BY <2>4, <3>1, <3>2, <3>3, <3>4, NamesStay
  <2>2. \A c : OneName(c) => OneName(c)'
    <3>1. ASSUME NEW c, OneName(c) PROVE OneName(c)'
      <4>1. \A q \in 1..sender.call : ConvOf(q)' = c
        BY <1>1, <3>1 DEF OneName, ConvOf
      <4>2. \A q \in 1..sender.call : reader'[q].named => sessionID' = c
        BY <1>1, <1>3, <1>5, <3>1 DEF OneName
      <4>3. \A q \in 1..sender.call :
              reader'[q].hand # NoEvent /\ reader'[q].hand.type = "result" => reader'[q].hand.sid = c
        BY <1>1, <1>3, <1>5, <3>1 DEF OneName
      <4>4. e.type = "result" => e.sid = c
        BY <1>1, <1>5, <3>1 DEF OneName
      <4>5. \A i \in DOMAIN events' : events'[i].type = "result" => events'[i].sid = c
        BY <2>3, <3>1, <4>4 DEF OneName
      <4>. QED BY <1>1, <3>1, <4>1, <4>2, <4>3, <4>5 DEF OneName
    <3>. QED BY <3>1
  <2>. QED BY <1>1, <2>1, <2>2 DEF TalkInv, NamesInv, OneOpened
<1>9. ASSUME adapter \notin {"opencode", "gemini"} PROVE TurnOK'
  <2>1. TurnOK
    BY <1>9 DEF TalkInv, TurnInv
  <2>2. /\ reader[p].pc = "emit" <=> e.type # "error"
        /\ e.type = "result" => reader[p].done
    BY <1>1, <2>1 DEF TurnOK
  <2>3. e.type # "text" => Over(p)'
    BY <1>2, <1>3, <1>4, <2>2 DEF Over, EventRecord
  <2>4. Over(p) => e.type = "error"
    BY <1>1 DEF Over
  <2>5. \A q \in Call : Over(q) => Over(q)'
    BY <1>3, <1>4, <2>3, <2>4 DEF Over
  <2>10. \A j \in DOMAIN events' : events'[j] = e \/ (j \in DOMAIN events /\ events'[j] = events[j])
    BY <1>6
  <2>6. (\A i \in DOMAIN events : EndsSpeech(i) => Over(events[i].from))'
    BY <1>5, <1>7, <2>1, <2>3, <2>5, <2>10 DEF TurnOK, EndsSpeech
  <2>7. \A i, j \in DOMAIN events' :
          i < j /\ EndsSpeech(i)' /\ events'[i].from = events'[j].from => events'[j].type = "error"
    <3>1. SUFFICES ASSUME NEW i \in DOMAIN events', NEW j \in DOMAIN events',
                          i < j, EndsSpeech(i)', events'[i].from = events'[j].from
                   PROVE  events'[j].type = "error"
      OBVIOUS
    <3>2. i \in DOMAIN events /\ events'[i] = events[i]
      BY <1>6, <3>1
    <3>3. CASE j \in DOMAIN events /\ events'[j] = events[j]
      BY <2>1, <3>1, <3>2, <3>3 DEF TurnOK, EndsSpeech
    <3>4. CASE events'[j] = e
      BY <1>7, <2>1, <2>4, <3>1, <3>2, <3>4 DEF TurnOK, EndsSpeech
    <3>. QED BY <2>10, <3>3, <3>4
  <2>8. \A q \in Call : reader'[q].hand # NoEvent =>
          /\ reader'[q].pc = "emit" <=> reader'[q].hand.type # "error"
          /\ reader'[q].hand.type = "result" => reader'[q].done
    BY <1>3, <2>1 DEF TurnOK
  <2>9. ~overtaken' => \A q \in 1..sender'.call : q # sender'.call \/ sender'.pc = "idle" =>
          /\ Over(q)'
          /\ \A i \in DOMAIN events' : events'[i].from = q => events'[i].type = "error"
    BY <1>1, <1>5, <1>7, <2>1, <2>4, <2>5, <2>10 DEF TurnOK
  <2>. QED BY <2>6, <2>7, <2>8, <2>9 DEF TurnOK
<1>. QED BY <1>1, <1>8, <1>9 DEF TurnInv

\* Steps that say nothing and begin or end no turn.
LEMMA OthersTalk ==
  ASSUME TalkInv,
         UNCHANGED <<adapter, sessionID, resume, reader, events, sender, overtaken>>
  PROVE  NamesInv' /\ TurnInv'
<1>1. NamesInv'
  BY DEF TalkInv, NamesInv, NamesOK, OneOpened, OneName, ConvOf
<1>2. TurnInv'
  BY DEF TalkInv, TurnInv, TurnOK, Over, EndsSpeech
<1>. QED BY <1>1, <1>2

LEMMA StepTalks == ASSUME TalkInv, PromptNext PROVE NamesInv' /\ TurnInv'
<1>1. ASSUME NEW p \in Call,
             EndOfOutput(p) \/ WaitProcess(p) \/ Deliver(p) \/ DropEvent(p) \/ BeginSend(p)
               \/ \E line \in Lines : ReadLine(p, line)
      PROVE  NamesInv' /\ TurnInv'
  BY <1>1, EndTalks, DeliverTalks, BeginTalks, ReadTalks
<1>2. CASE StartProcess
  BY <1>2, SenderTalks DEF StartProcess, TalkInv, PromptInv, PromptTypeOK
<1>3. CASE StartFails
  BY <1>3, SenderTalks DEF StartFails, TalkInv, PromptInv, PromptTypeOK
<1>4. ASSUME NEW p \in Call, ProcessEnds(p) \/ SendPanics(p) PROVE NamesInv' /\ TurnInv'
  BY <1>4, OthersTalk DEF ProcessEnds, SendPanics
<1>5. CASE CancelParent \/ BeginClose \/ CloseAfterWait \/ CloseAfterTimeout
  BY <1>5, OthersTalk DEF CancelParent, BeginClose, CloseAfterWait, CloseAfterTimeout, CloseEvents
<1>. QED BY <1>1, <1>2, <1>3, <1>4, <1>5, StartReaderTalks, TakeTalks DEF PromptNext

THEOREM TalkInvariance == PromptSpec => []TalkInv
<1>1. PromptInit /\ PromptInv => TalkInv
  <2>. SUFFICES ASSUME PromptInit, PromptInv PROVE NamesInv /\ TurnInv
    BY DEF TalkInv
  <2>1. /\ DOMAIN events = {} /\ sender.call = 0 /\ 1..sender.call = {} /\ 0 \in 0..MaxCall
        /\ \A p \in Call : reader[p] = NoReader
    BY DEF PromptInit
  <2>2. sessionID \in {NoConv, 0}
    BY DEF PromptInit
  <2>3. NamesOK /\ OneName(0)
    BY <2>1, <2>2 DEF NamesOK, OneName, NoReader
  <2>4. TurnOK
    BY <2>1 DEF TurnOK, NoReader
  <2>. QED BY <2>1, <2>3, <2>4 DEF NamesInv, TurnInv
<1>2. TalkInv /\ PromptInv' /\ [PromptNext]_promptVars => TalkInv'
  <2>. SUFFICES ASSUME TalkInv, PromptInv', [PromptNext]_promptVars PROVE TalkInv'
    OBVIOUS
  <2>1. CASE UNCHANGED promptVars
    BY <2>1, OthersTalk DEF promptVars, TalkInv
  <2>. QED BY <2>1, StepTalks DEF TalkInv
<1>. QED BY <1>1, <1>2, PromptInvariance, PTL DEF PromptSpec

\* The conversation of a result is the one its process worked in, so that the Session
\* resumes the right one: unless two prompts opened one each.
THEOREM ResultsNameTheirs == PromptSpec => []ResultNamesConversation
<1>1. TalkInv => ResultNamesConversation
  <2>. SUFFICES ASSUME TalkInv, NEW i \in DOMAIN events, events[i].type = "result"
               PROVE  \/ events[i].sid = ConvOf(events[i].from)
                      \/ Cardinality({p \in 1..sender.call : resume[p] = NoConv}) > 1
    BY DEF ResultNamesConversation
  <2>1. CASE OneOpened
    <3>1. PICK c \in 0..MaxCall : OneName(c)
      BY <2>1 DEF TalkInv, NamesInv
    <3>. QED BY <3>1, EventsOfPrompts DEF OneName
  <2>2. CASE ~OneOpened
    <3>. DEFINE Opened == {p \in 1..sender.call : resume[p] = NoConv}
    <3>1. PICK p \in Opened, q \in Opened : p # q
      BY <2>2 DEF OneOpened
    <3>2. IsFiniteSet(1..sender.call)
      BY FS_Interval DEF TalkInv, PromptInv, PromptTypeOK
    <3>3. IsFiniteSet(Opened)
      BY <3>2, FS_Subset
    <3>4. IsFiniteSet({p, q}) /\ Cardinality({p, q}) = 2
      <4>1. {p, q} = {p} \union {q} /\ q \notin {p}
        BY <3>1
      <4>2. IsFiniteSet({p}) /\ Cardinality({p}) = 1
        BY FS_Singleton
      <4>3. /\ IsFiniteSet({p} \union {q})
            /\ Cardinality({p} \union {q}) = Cardinality({p}) + 1
        BY <4>1, <4>2, FS_AddElement
      <4>. QED BY <4>1, <4>2, <4>3
    <3>5. Cardinality({p, q}) <= Cardinality(Opened)
      BY <3>1, <3>3, FS_Subset
    <3>. QED BY <3>3, <3>4, <3>5, FS_CardinalityType
  <2>. QED BY <2>1, <2>2
<1>. QED BY <1>1, TalkInvariance, PTL

\* A turn hears its own process only, whatever late errors are in the channel, as long
\* as none of them has ended a turn, for the agents that stop at their result.
THEOREM OwnProcessHeard == PromptSpec => HearsOwnProcess
<1>1. ASSUME TalkInv, TakeEvent, ~overtaken, adapter \notin {"opencode", "gemini"},
             Head(events).type # "error"
      PROVE  Head(events).from = sender.call
  <2>1. events \in Seq(EventRecord) /\ events # <<>> /\ sender.pc = "loop"
    BY <1>1 DEF TakeEvent, TalkInv, PromptInv, PromptTypeOK
  <2>2. Head(events) = events[1] /\ 1 \in DOMAIN events
    BY <2>1, TailItems
  <2>. QED BY <1>1, <2>2, EventsOfPrompts DEF TalkInv, TurnInv, TurnOK
<1>. QED BY <1>1, TalkInvariance, PTL DEF PromptSpec, HearsOwnProcess

-----------------------------------------------------------------------------
(* Each step of an agent of one process per prompt is a step of            *)
(* AgentSession, or changes nothing there.                                 *)

\* A step of one readLoop takes no other worker away, and brings none.
LEMMA OneWorkerAtMost ==
  ASSUME NEW p \in Call, p \in PromptWorking, UNCHANGED <<proc, sender>>,
         \A q \in Call : q # p => reader'[q] = reader[q]
  PROVE  PromptWorking' = PromptWorking \/ PromptWorking' = PromptWorking \ {p}
<1>1. \A q \in Call : q # p => (q \in PromptWorking' <=> q \in PromptWorking)
  BY DEF PromptWorking, Counted
<1>2. PromptWorking \subseteq Call /\ PromptWorking' \subseteq Call
  BY DEF PromptWorking
<1>. HIDE DEF PromptWorking
<1>. QED BY <1>1, <1>2

\* A step of the turn or of a process that changes no worker.
LEMMA WorkersStay ==
  ASSUME PromptInv,
         (\E p \in Call : BeginSend(p) \/ ProcessEnds(p)) \/ StartFails \/ StartReader \/ TakeEvent
  PROVE  PromptWorking' = PromptWorking
<1>1. \A q \in Call : ReaderOK(q)
  BY DEF PromptInv
<1>2. ASSUME NEW p \in Call, BeginSend(p)
      PROVE  PromptWorking' = PromptWorking
  <2>1. UNCHANGED <<proc, reader>> /\ sender.pc # "count" /\ sender'.pc # "count"
    BY <1>2 DEF BeginSend
  <2>. QED BY <2>1 DEF PromptWorking, Counted
<1>3. CASE StartFails \/ TakeEvent
  <2>1. UNCHANGED <<proc, reader>> /\ sender.pc # "count" /\ sender'.pc # "count"
    BY <1>3 DEF StartFails, TakeEvent, PromptInv, PromptTypeOK
  <2>. QED BY <2>1 DEF PromptWorking, Counted
<1>4. CASE StartReader
  <2>. DEFINE c == sender.call
  <2>1. /\ UNCHANGED proc /\ sender.pc = "count" /\ sender'.pc # "count"
        /\ reader' = [reader EXCEPT ![c].pc = "scan"]
    BY <1>4 DEF StartReader, PromptInv, PromptTypeOK
  <2>2. c \in Call /\ reader[c] \in ReaderRecord
    BY <2>1 DEF PromptInv, SendOK
  <2>3. /\ reader'[c].pc = "scan"
        /\ \A q \in Call : q # c => reader'[q] = reader[q]
    BY <2>1, <2>2 DEF PromptInv, ReaderRecord
  <2>4. c \in PromptWorking /\ c \in PromptWorking'
    BY <2>1, <2>2, <2>3 DEF PromptWorking, Counted
  <2>5. \A q \in Call : q # c => (q \in PromptWorking' <=> q \in PromptWorking)
    BY <2>1, <2>3 DEF PromptWorking, Counted
  <2>6. PromptWorking \subseteq Call /\ PromptWorking' \subseteq Call
    BY DEF PromptWorking
  <2>. HIDE DEF PromptWorking
  <2>. QED BY <2>4, <2>5, <2>6
<1>5. ASSUME NEW p \in Call, ProcessEnds(p)
      PROVE  PromptWorking' = PromptWorking
  <2>1. /\ UNCHANGED <<reader, sender>> /\ proc[p] = "running"
        /\ \A q \in Call : proc'[q] = IF q = p THEN "ended" ELSE proc[q]
    BY <1>5 DEF ProcessEnds, PromptInv, PromptTypeOK
  <2>. QED BY <1>1, <2>1 DEF PromptWorking, Counted, ReaderOK
<1>. QED BY <1>2, <1>3, <1>4, <1>5

\* The steps of a readLoop.
LEMMA ReaderWorks ==
  ASSUME PromptInv, NEW p \in Call,
         \/ (\E line \in Lines : ReadLine(p, line)) \/ EndOfOutput(p)
         \/ Deliver(p) \/ SendPanics(p) \/ DropEvent(p) \/ WaitProcess(p)
  PROVE  PromptContract!Work(p) \/ PromptContract!Panic(p)
<1>1. reader[p] \in ReaderRecord /\ events \in Seq(EventRecord) /\ Len(events) \in Nat
  BY LenProperties DEF PromptInv, PromptTypeOK
<1>2. reader[p].pc \in {"scan", "emit", "last", "wait", "report"}
  BY DEF ReadLine, EndOfOutput, Deliver, SendPanics, DropEvent, WaitProcess, PromptInv, ReaderOK
<1>3. p \in PromptWorking
  BY <1>2 DEF PromptWorking, Counted
<1>4. UNCHANGED <<proc, sender, cancelled, closed, closer>>
  BY DEF ReadLine, EndOfOutput, Deliver, SendPanics, DropEvent, WaitProcess
<1>5. \A q \in Call : q # p => reader'[q] = reader[q]
  BY DEF ReadLine, EndOfOutput, Deliver, SendPanics, DropEvent, WaitProcess, PromptInv
<1>6. PromptWorking' = PromptWorking \/ PromptWorking' = PromptWorking \ {p}
  BY <1>3, <1>4, <1>5, OneWorkerAtMost
<1>7. CASE SendPanics(p)
  <2>1. closed /\ crash' = p /\ UNCHANGED events
    BY <1>7 DEF SendPanics
  <2>2. closer = "done" /\ crash' # 0
    BY <2>1 DEF PromptInv, CloserOK, Call
  <2>. QED BY <1>3, <1>4, <1>6, <2>1, <2>2 DEF PromptContract!Panic
<1>8. CASE Deliver(p)
  <2>1. ~closed /\ Len(events) < Capacity /\ events' = Append(events, reader[p].hand)
        /\ reader[p].hand # NoEvent /\ UNCHANGED crash
    BY <1>8 DEF Deliver
  <2>2. reader[p].hand \in EventRecord
    BY <1>1, <2>1 DEF ReaderRecord
  <2>3. Len(events') = Len(events) + 1
    BY <1>1, <2>1, <2>2, AppendProperties
  <2>. QED BY <1>3, <1>4, <1>6, <2>1, <2>3 DEF PromptContract!Work
<1>9. CASE (\E line \in Lines : ReadLine(p, line)) \/ EndOfOutput(p) \/ DropEvent(p) \/ WaitProcess(p)
  <2>1. UNCHANGED <<events, crash>>
    BY <1>9 DEF ReadLine, EndOfOutput, DropEvent, WaitProcess
  <2>. QED BY <1>3, <1>4, <1>6, <2>1 DEF PromptContract!Work
<1>. QED BY <1>7, <1>8, <1>9

LEMMA PromptRefines ==
  ASSUME PromptInv, [PromptNext]_promptVars
  PROVE  [PromptContract!Next]_(PromptContract!vars)
<1>0. /\ closed <=> closer = "done"
      /\ closer # "no" => cancelled
  BY DEF PromptInv, CloserOK
<1>1. CASE UNCHANGED promptVars
  BY <1>1 DEF promptVars, PromptContract!vars, PromptWorking, Counted
<1>2. CASE (\E p \in Call : BeginSend(p) \/ ProcessEnds(p)) \/ StartFails \/ StartReader
  <2>1. UNCHANGED <<cancelled, events, closed, closer, crash>>
    BY <1>2 DEF BeginSend, ProcessEnds, StartFails, StartReader
  <2>2. PromptWorking' = PromptWorking
    BY <1>2, WorkersStay
  <2>. QED BY <2>1, <2>2 DEF PromptContract!vars
<1>3. CASE StartProcess
  <2>. DEFINE c == sender.call
  <2>1. /\ sender.pc = "start" /\ ~cancelled /\ sender'.pc = "count" /\ sender'.call = c
        /\ proc' = [proc EXCEPT ![c] = "running"]
        /\ UNCHANGED <<cancelled, events, closed, closer, crash, reader>>
    BY <1>3 DEF StartProcess, PromptInv, PromptTypeOK
  <2>2. c \in Call /\ proc[c] = "none" /\ reader[c].pc = "none"
    BY <2>1 DEF PromptInv, SendOK
  <2>3. c \notin PromptWorking
    BY <2>1, <2>2 DEF PromptWorking, Counted
  <2>4. \A q \in Call : proc'[q] = IF q = c THEN "running" ELSE proc[q]
    BY <2>1 DEF PromptInv, PromptTypeOK
  <2>5. PromptWorking' = PromptWorking \union {c}
    BY <2>1, <2>2, <2>4 DEF PromptWorking, Counted
  <2>6. ~closed
    BY <1>0, <2>1
  <2>7. PromptContract!Start(c)
    BY <2>1, <2>3, <2>5, <2>6 DEF PromptContract!Start
  <2>. QED BY <2>2, <2>7 DEF PromptContract!Next
<1>4. CASE TakeEvent
  <2>1. events # <<>> /\ events' = Tail(events) /\ UNCHANGED <<cancelled, closed, closer, crash>>
    BY <1>4 DEF TakeEvent
  <2>2. Len(events) \in Nat /\ Len(events) > 0 /\ Len(events') = Len(events) - 1
    BY <2>1, EmptySeq, HeadTailProperties, LenProperties DEF PromptInv, PromptTypeOK
  <2>3. PromptWorking' = PromptWorking
    BY <1>4, WorkersStay
  <2>4. PromptContract!Take
    BY <2>1, <2>2, <2>3 DEF PromptContract!Take
  <2>. QED BY <2>4 DEF PromptContract!Next
<1>5. CASE CancelParent \/ BeginClose
  <2>1. cancelled' = TRUE /\ UNCHANGED <<events, closed, crash, proc, reader, sender>>
    BY <1>5 DEF CancelParent, BeginClose
  <2>2. (closer' = "done") = (closer = "done")
    BY <1>5 DEF CancelParent, BeginClose
  <2>3. PromptWorking' = PromptWorking
    BY <2>1 DEF PromptWorking, Counted
  <2>4. PromptContract!Stop
    BY <2>1, <2>2, <2>3 DEF PromptContract!Stop
  <2>. QED BY <2>4 DEF PromptContract!Next
<1>6. CASE CloseAfterWait \/ CloseAfterTimeout
  <2>1. /\ closer = "waiting" /\ closer' = "done" /\ closed' = TRUE
        /\ UNCHANGED <<cancelled, events, crash, proc, reader, sender>>
    BY <1>6 DEF CloseAfterWait, CloseAfterTimeout, CloseEvents
  <2>2. PromptWorking' = PromptWorking
    BY <2>1 DEF PromptWorking, Counted
  <2>3. PromptContract!Return
    BY <1>0, <2>1, <2>2 DEF PromptContract!Return
  <2>. QED BY <2>3 DEF PromptContract!Next
<1>7. ASSUME NEW p \in Call, \/ (\E line \in Lines : ReadLine(p, line)) \/ EndOfOutput(p)
                             \/ Deliver(p) \/ SendPanics(p) \/ DropEvent(p) \/ WaitProcess(p)
      PROVE  PromptContract!Next
  BY <1>7, ReaderWorks DEF PromptContract!Next
<1>. QED BY <1>1, <1>2, <1>3, <1>4, <1>5, <1>6, <1>7 DEF PromptNext

\* The agents of one process per prompt keep what every AgentSession promises, for any
\* number of prompts: PromptKeepsContract.
THEOREM PromptIsAgentSession == PromptSpec => PromptKeepsContract
<1>1. PromptInit => PromptContract!Init
  BY EmptySeq DEF PromptInit, PromptContract!Init, PromptWorking, Counted, NoReader
<1>2. PromptInv /\ [PromptNext]_promptVars => [PromptContract!Next]_(PromptContract!vars)
  BY PromptRefines
<1>. QED BY <1>1, <1>2, PromptInvariance, PTL DEF PromptSpec, PromptKeepsContract, PromptContract!Spec

-----------------------------------------------------------------------------
(* Claude Code: one process for a conversation.

   A request of the process is a line of its output, then in the hand of
   readLoop, then in the channel, and then known to the engine: at each of
   these steps it is somewhere, because only a loop that has ended, or whose
   context is done, loses one. *)

HIDE PromptAssumption
USE ClaudeAssumption

\* Sends are where readLoop has an event in hand; it is gone for good when it
\* has closed the channels, and alive is cleared before it waits for the process.
LoopOK ==
  /\ loop.hand # NoItem => loop.pc \in {"emit", "broken", "report"}
  /\ loop.pc \in {"wait", "report", "gone"} => ~claudeAlive
  /\ loop.pc \in {"report", "gone"} => process = "exited"
  /\ claudeClosed => loop.pc = "gone"
  /\ claudeCloser = "returned" => claudeClosed

\* Requests carry their number on their way to the engine, and nothing else does;
\* only a process that runs waits.
AskOK ==
  /\ waiting # 0 => process = "running"
  /\ \A i \in DOMAIN stdout : stdout[i].type \in {"ask", "cancel"} <=> stdout[i].ask # 0
  /\ loop.hand # NoItem => (loop.hand.type = "ask" <=> loop.hand.ask # 0)
  /\ \A i \in DOMAIN channel : channel[i].type = "ask" <=> channel[i].ask # 0

ClaudeInv == ClaudeTypeOK /\ LoopOK /\ AskOK /\ AskedIsHeard

LEMMA ItemIsSomething == \A e \in Item : e # NoItem
<1>1. \A e \in Item : "type" \in DOMAIN e
  BY DEF Item
<1>2. "type" \notin DOMAIN NoItem
  BY DEF NoItem
<1>. QED BY <1>1, <1>2

-----------------------------------------------------------------------------
(* Steps of the process.                                                   *)

\* A new line: the lines that were there stay, and a request is among them.
LEMMA LineKeeps ==
  ASSUME ClaudeInv, NEW line \in Item, line.type \in {"ask", "cancel"} <=> line.ask # 0,
         process = "running", Len(stdout) < Pipe, stdout' = Append(stdout, line),
         waiting' \in 0..asked', asked' \in asked..MaxAsk, working' \in BOOLEAN,
         waiting' = 0 \/ waiting' = waiting \/ (line.type = "ask" /\ line.ask = waiting'),
         UNCHANGED <<autoApprove, claudeCancelled, claudeAlive, process, failure, loop,
                     channel, claudeClosed, listening, heard, claudeCloser>>
  PROVE  ClaudeInv'
<1>1. stdout \in Seq(Item) /\ Len(stdout) \in Nat
  BY LenProperties DEF ClaudeInv, ClaudeTypeOK
<1>2. ClaudeTypeOK'
  BY <1>1, AppendItems DEF ClaudeInv, ClaudeTypeOK
<1>3. LoopOK' /\ AskOK'
  BY <1>1, AppendItems DEF ClaudeInv, LoopOK, AskOK
<1>4. \A r : OnItsWay(r) => OnItsWay(r)'
  BY <1>1, AppendItems DEF OnItsWay
<1>5. line.type = "ask" => OnItsWay(line.ask)'
  BY <1>1, AppendItems DEF OnItsWay
<1>6. AskedIsHeard'
  BY <1>4, <1>5 DEF ClaudeInv, AskedIsHeard
<1>. QED BY <1>2, <1>3, <1>6 DEF ClaudeInv

LEMMA ClaudeProcessKeeps ==
  ASSUME ClaudeInv,
         (\E type \in {"text", "result"} : WriteLine(type))
           \/ AskPermission \/ CancelRequest \/ Exit
  PROVE  ClaudeInv'
<1>1. ASSUME NEW type \in {"text", "result"}, WriteLine(type) PROVE ClaudeInv'
  <2>1. /\ Plain(type) \in Item
        /\ Plain(type).type \in {"ask", "cancel"} <=> Plain(type).ask # 0
    BY DEF Plain, Item
  <2>. QED BY <1>1, <2>1, LineKeeps DEF WriteLine, engineVars, ClaudeInv, ClaudeTypeOK
<1>2. CASE AskPermission
  <2>. DEFINE line == [type |-> "ask", ask |-> asked + 1]
  <2>1. line \in Item /\ asked + 1 \in 0..MaxAsk
    BY <1>2 DEF AskPermission, Item, ClaudeInv, ClaudeTypeOK
  <2>. QED BY <1>2, <2>1, LineKeeps DEF AskPermission, engineVars, ClaudeInv, ClaudeTypeOK
<1>3. CASE CancelRequest
  <2>. DEFINE line == [type |-> "cancel", ask |-> waiting]
  <2>1. line \in Item /\ waiting # 0
    BY <1>3 DEF CancelRequest, Item, ClaudeInv, ClaudeTypeOK
  <2>. QED BY <1>3, <2>1, LineKeeps DEF CancelRequest, engineVars, ClaudeInv, ClaudeTypeOK
<1>4. CASE Exit
  <2>1. /\ process' = "exited" /\ failure' \in BOOLEAN /\ working' \in BOOLEAN /\ waiting' = 0
        /\ UNCHANGED <<autoApprove, claudeCancelled, claudeAlive, asked, stdout, loop, channel,
                       claudeClosed, listening, heard, claudeCloser>>
    BY <1>4 DEF Exit, engineVars
  <2>2. ClaudeTypeOK'
    BY <2>1 DEF ClaudeInv, ClaudeTypeOK
  <2>. QED BY <2>1, <2>2 DEF ClaudeInv, LoopOK, AskOK, AskedIsHeard
<1>. QED BY <1>1, <1>2, <1>3, <1>4

-----------------------------------------------------------------------------
(* Steps of the engine.                                                    *)

\* A decision ends the wait for its own request only.
LEMMA DecidedEnds ==
  ASSUME ClaudeInv, NEW r
  PROVE  /\ Decided(r) \in 0..asked
         /\ Decided(r) # 0 => Decided(r) = waiting /\ waiting # r
BY DEF Decided, ClaudeInv, ClaudeTypeOK, AskOK

LEMMA ClaudeEngineKeeps ==
  ASSUME ClaudeInv, Send \/ ClaudeTakeEvent \/ EndTurn \/ \E r \in Ask : RespondPermission(r)
  PROVE  ClaudeInv'
<1>1. CASE Send \/ EndTurn
  <2>1. UNCHANGED <<autoApprove, claudeCancelled, claudeAlive, process, failure, waiting,
                    asked, stdout, loop, channel, claudeClosed, heard, claudeCloser>>
        /\ working' \in BOOLEAN /\ listening' \in BOOLEAN
    BY <1>1 DEF Send, EndTurn, processVars, ClaudeInv, ClaudeTypeOK
  <2>2. ClaudeTypeOK'
    BY <2>1 DEF ClaudeInv, ClaudeTypeOK
  <2>. QED BY <2>1, <2>2 DEF ClaudeInv, LoopOK, AskOK, AskedIsHeard, OnItsWay
<1>2. CASE ClaudeTakeEvent
  <2>1. /\ channel # <<>> /\ channel' = Tail(channel) /\ listening' \in BOOLEAN
        /\ heard' = IF Head(channel).type = "ask" THEN heard \union {Head(channel).ask} ELSE heard
        /\ UNCHANGED <<autoApprove, claudeCancelled, claudeAlive, process, failure, working,
                       waiting, asked, stdout, loop, claudeClosed, claudeCloser>>
    BY <1>2 DEF ClaudeTakeEvent, processVars
  <2>2. channel \in Seq(Item) /\ Len(channel) <= ChannelSize
    BY DEF ClaudeInv, ClaudeTypeOK
  <2>3. Head(channel).type = "ask" => Head(channel).ask \in Ask
    <3>1. Head(channel) \in Item /\ Head(channel) = channel[1] /\ 1 \in DOMAIN channel
      BY <2>1, <2>2, TailItems
    <3>2. Head(channel).type = "ask" => Head(channel).ask # 0
      BY <3>1 DEF ClaudeInv, AskOK
    <3>. QED BY <3>1, <3>2 DEF Item, Ask
  <2>4. ClaudeTypeOK'
    BY <2>1, <2>2, <2>3, TailItems, LenProperties DEF ClaudeInv, ClaudeTypeOK
  <2>5. LoopOK' /\ AskOK'
    BY <2>1, <2>2, TailItems DEF ClaudeInv, LoopOK, AskOK
  <2>6. \A r : r # 0 /\ OnItsWay(r) => OnItsWay(r)' \/ r \in heard'
    <3>1. \A i \in DOMAIN channel : i = 1 \/ \E j \in DOMAIN channel' : channel'[j] = channel[i]
      BY <2>1, <2>2, TailItems
    <3>2. \A r : r # 0 /\ channel[1].ask = r => r \in heard'
      BY <2>1, <2>2, TailItems DEF ClaudeInv, AskOK
    <3>. QED BY <2>1, <3>1, <3>2 DEF OnItsWay
  <2>. QED BY <2>1, <2>4, <2>5, <2>6 DEF ClaudeInv, AskedIsHeard
<1>3. ASSUME NEW r \in Ask, RespondPermission(r) PROVE ClaudeInv'
  <2>1. /\ heard' = heard \ {r} /\ waiting' = IF claudeAlive THEN Decided(r) ELSE waiting
        /\ UNCHANGED <<autoApprove, claudeCancelled, claudeAlive, process, failure, working,
                       asked, stdout, loop, channel, claudeClosed, listening, claudeCloser>>
    BY <1>3 DEF RespondPermission
  <2>2. ClaudeTypeOK'
    BY <2>1, DecidedEnds DEF ClaudeInv, ClaudeTypeOK
  <2>. QED BY <2>1, <2>2, DecidedEnds DEF ClaudeInv, LoopOK, AskOK, AskedIsHeard, OnItsWay
<1>. QED BY <1>1, <1>2, <1>3

-----------------------------------------------------------------------------
(* Steps of readLoop.                                                      *)

\* A line is taken: the request in it is in the hand of the loop now, or answered.
LEMMA ReadLineKeeps == ASSUME ClaudeInv, ClaudeReadLine PROVE ClaudeInv'
<1>. DEFINE line == Head(stdout)
            approves == line.type = "ask" /\ autoApprove
<1>1. /\ loop.pc = "scan" /\ stdout # <<>> /\ stdout' = Tail(stdout)
      /\ loop' = IF approves \/ line.type = "cancel" THEN [pc |-> "scan", hand |-> NoItem]
                                                     ELSE [pc |-> "emit", hand |-> line]
      /\ waiting' = IF approves THEN Decided(line.ask) ELSE waiting
      /\ UNCHANGED <<autoApprove, claudeCancelled, claudeAlive, process, failure, working,
                     asked, channel, claudeClosed, listening, heard, claudeCloser>>
  BY DEF ClaudeReadLine, Reads, engineVars
<1>2. stdout \in Seq(Item) /\ Len(stdout) \in Nat /\ Len(stdout) <= Pipe
  BY LenProperties DEF ClaudeInv, ClaudeTypeOK
<1>3. line \in Item /\ line # NoItem
  BY <1>1, <1>2, TailItems, ItemIsSomething
<1>4. waiting' \in 0..asked /\ (waiting' # 0 => waiting' = waiting)
      /\ (approves => waiting' = 0 \/ waiting' # line.ask)
  BY <1>1, DecidedEnds DEF ClaudeInv, ClaudeTypeOK
<1>5. ClaudeTypeOK'
  <2>1. loop' \in [pc : {"scan", "emit", "broken", "wait", "report", "gone"},
                   hand : Item \union {NoItem}]
    BY <1>1, <1>3
  <2>2. Tail(stdout) \in Seq(Item) /\ Len(Tail(stdout)) <= Pipe
    BY <1>1, <1>2, TailItems, LenProperties
  <2>. QED BY <1>1, <1>4, <2>1, <2>2 DEF ClaudeInv, ClaudeTypeOK
<1>6. LoopOK'
  BY <1>1, <1>3 DEF ClaudeInv, LoopOK
<1>7. AskOK'
  BY <1>1, <1>2, <1>3, <1>4, TailItems DEF ClaudeInv, AskOK
<1>8. \A r : OnItsWay(r) => OnItsWay(r)' \/ (approves /\ r = line.ask)
  <2>1. loop.hand = NoItem
    BY <1>1 DEF ClaudeInv, LoopOK
  <2>. QED BY <1>1, <1>2, <1>3, <2>1, TailItems DEF OnItsWay
<1>9. AskedIsHeard'
  BY <1>1, <1>4, <1>8 DEF ClaudeInv, AskedIsHeard
<1>. QED BY <1>5, <1>6, <1>7, <1>9 DEF ClaudeInv

\* Where the loop goes without an event: nothing is in its hand, and if it took its
\* leave, alive is cleared.
LEMMA LoopGoes ==
  ASSUME ClaudeInv,
         loop.pc \in {"scan", "wait"}, loop'.pc \in {"broken", "wait", "report", "gone"},
         loop' = [pc |-> loop'.pc, hand |-> IF loop'.pc \in {"broken", "report"}
                                             THEN Plain("error") ELSE NoItem],
         claudeAlive' \in BOOLEAN, claudeAlive' => claudeAlive,
         loop'.pc # "broken" => ~claudeAlive',
         loop'.pc \in {"report", "gone"} => process = "exited",
         claudeClosed' \in BOOLEAN, claudeClosed' => loop'.pc = "gone",
         claudeClosed => claudeClosed',
         UNCHANGED <<autoApprove, claudeCancelled, processVars, channel, engineVars>>
  PROVE  ClaudeInv'
<1>1. UNCHANGED <<process, failure, working, waiting, asked, stdout, listening, heard,
                  claudeCloser>>
  BY DEF processVars, engineVars
<1>2. Plain("error") \in Item /\ Plain("error").type # "ask" /\ Plain("error").ask = 0
  BY DEF Plain, Item
<1>3. ClaudeTypeOK'
  BY <1>1, <1>2 DEF ClaudeInv, ClaudeTypeOK
<1>4. LoopOK' /\ AskOK'
  BY <1>1, <1>2 DEF ClaudeInv, LoopOK, AskOK
<1>5. loop.hand = NoItem
  BY DEF ClaudeInv, LoopOK
<1>6. AskedIsHeard'
  BY <1>1, <1>5 DEF ClaudeInv, AskedIsHeard, OnItsWay
<1>. QED BY <1>3, <1>4, <1>6 DEF ClaudeInv

\* An event goes into the channel, or nowhere because the context is done.
LEMMA ClaudeEventKeeps == ASSUME ClaudeInv, ClaudeDeliver \/ Drop PROVE ClaudeInv'
<1>1. /\ loop.hand # NoItem /\ AfterEvent
      /\ UNCHANGED <<autoApprove, claudeCancelled, process, failure, working, waiting, asked,
                     stdout, listening, heard, claudeCloser>>
  BY DEF ClaudeDeliver, Drop, processVars, engineVars
<1>2. /\ loop.pc \in {"emit", "broken", "report"} /\ loop.hand \in Item /\ ~claudeClosed
      /\ channel \in Seq(Item) /\ Len(channel) \in Nat /\ Len(channel) <= ChannelSize
  BY <1>1, LenProperties DEF ClaudeInv, LoopOK, ClaudeTypeOK
<1>3. /\ loop'.pc = (IF loop.pc = "emit" THEN "scan" ELSE IF loop.pc = "broken" THEN "wait" ELSE "gone")
      /\ loop' = [pc |-> loop'.pc, hand |-> NoItem]
      /\ claudeAlive' \in BOOLEAN /\ (claudeAlive' => claudeAlive)
      /\ loop.pc = "broken" => ~claudeAlive'
  <2>1. claudeAlive \in BOOLEAN
    BY DEF ClaudeInv, ClaudeTypeOK
  <2>2. CASE loop.pc = "emit"
    BY <1>1, <2>1, <2>2 DEF AfterEvent, Reads
  <2>3. CASE loop.pc = "broken"
    <3>1. Reads("wait", NoItem) /\ claudeAlive' = FALSE
      BY <1>1, <2>3 DEF AfterEvent
    <3>2. claudeAlive' \in BOOLEAN /\ ~claudeAlive'
      BY <3>1, Zenon
    <3>. QED BY <2>3, <3>1, <3>2 DEF Reads
  <2>4. CASE loop.pc = "report"
    BY <1>1, <2>1, <2>4 DEF AfterEvent, Reads
  <2>. QED BY <1>2, <2>2, <2>3, <2>4
<1>4. \/ /\ Len(channel) < ChannelSize /\ channel' = Append(channel, loop.hand)
      \/ claudeCancelled /\ channel' = channel
  BY DEF ClaudeDeliver, Drop
<1>10. claudeClosed' \in BOOLEAN /\ (claudeClosed' => loop.pc = "report")
  <2>1. CASE ClaudeDeliver
    BY <2>1, Zenon DEF ClaudeDeliver
  <2>2. CASE Drop
    BY <1>2, <2>2 DEF Drop, ClaudeInv, ClaudeTypeOK
  <2>. QED BY <2>1, <2>2
<1>5. ClaudeTypeOK'
  <2>1. channel' \in Seq(Item) /\ Len(channel') <= ChannelSize
    BY <1>2, <1>4, AppendItems
  <2>. QED BY <1>1, <1>2, <1>3, <1>10, <2>1 DEF ClaudeInv, ClaudeTypeOK
<1>6. LoopOK'
  BY <1>1, <1>2, <1>3, <1>10 DEF ClaudeInv, LoopOK
<1>7. AskOK'
  BY <1>1, <1>2, <1>3, <1>4, AppendItems DEF ClaudeInv, AskOK
<1>8. ~claudeCancelled => \A r : OnItsWay(r) => OnItsWay(r)'
  BY <1>1, <1>2, <1>4, AppendItems DEF OnItsWay
<1>9. AskedIsHeard'
  BY <1>1, <1>3, <1>8 DEF ClaudeInv, AskedIsHeard
<1>. QED BY <1>5, <1>6, <1>7, <1>9 DEF ClaudeInv

LEMMA ClaudeLoopKeeps ==
  ASSUME ClaudeInv,
         \/ ClaudeReadLine \/ ScanFails \/ ClaudeEndOfOutput
         \/ ClaudeDeliver \/ Drop \/ ClaudeWaitProcess
  PROVE  ClaudeInv'
<1>1. CASE ScanFails
  BY <1>1, LoopGoes DEF ScanFails, Reads, ClaudeInv, ClaudeTypeOK, LoopOK
<1>2. CASE ClaudeEndOfOutput
  BY <1>2, LoopGoes DEF ClaudeEndOfOutput, Reads, ClaudeInv, ClaudeTypeOK, LoopOK
<1>3. CASE ClaudeWaitProcess
  <2>1. /\ loop.pc = "wait" /\ process = "exited"
        /\ \/ loop' = [pc |-> "report", hand |-> Plain("error")] /\ claudeClosed' = claudeClosed
           \/ loop' = [pc |-> "gone", hand |-> NoItem] /\ claudeClosed' \in BOOLEAN /\ claudeClosed'
        /\ UNCHANGED <<autoApprove, claudeCancelled, claudeAlive, processVars, channel,
                       engineVars>>
    BY <1>3 DEF ClaudeWaitProcess, Reads
  <2>2. ~claudeAlive /\ ~claudeClosed /\ claudeClosed \in BOOLEAN /\ claudeAlive \in BOOLEAN
    BY <2>1 DEF ClaudeInv, ClaudeTypeOK, LoopOK
  <2>3. claudeClosed' \in BOOLEAN /\ claudeAlive' \in BOOLEAN /\ ~claudeAlive'
        /\ loop'.pc \in {"report", "gone"} /\ (claudeClosed' => loop'.pc = "gone")
        /\ loop' = [pc |-> loop'.pc, hand |-> IF loop'.pc \in {"broken", "report"}
                                               THEN Plain("error") ELSE NoItem]
    BY <2>1, <2>2
  <2>. QED BY <2>1, <2>2, <2>3, LoopGoes
<1>. QED BY <1>1, <1>2, <1>3, ReadLineKeeps, ClaudeEventKeeps

-----------------------------------------------------------------------------
(* Close and the shutdown.                                                 *)

LEMMA ClaudeCloseKeeps ==
  ASSUME ClaudeInv, ClaudeCancelParent \/ ClaudeBeginClose \/ CloseKills \/ CloseReturns
  PROVE  ClaudeInv'
<1>1. /\ UNCHANGED <<autoApprove, claudeAlive, process, failure, working, waiting, asked,
                     stdout, loop, channel, claudeClosed, listening, heard>>
      /\ claudeCancelled' \in BOOLEAN /\ (claudeCancelled => claudeCancelled')
      /\ claudeCloser' \in {"no", "graceful", "killed", "returned"}
      /\ claudeCloser' = "returned" => claudeCloser = "returned" \/ claudeClosed
  BY DEF ClaudeCancelParent, ClaudeBeginClose, CloseKills, CloseReturns, Closes, processVars,
         engineVars, ClaudeInv, ClaudeTypeOK
<1>2. ClaudeTypeOK'
  BY <1>1 DEF ClaudeInv, ClaudeTypeOK
<1>. QED BY <1>1, <1>2 DEF ClaudeInv, LoopOK, AskOK, AskedIsHeard, OnItsWay

-----------------------------------------------------------------------------
(* The theorems.                                                           *)

THEOREM ClaudeInvariance == ClaudeSpec => []ClaudeInv
<1>1. ClaudeInit => ClaudeInv
  <2>. SUFFICES ASSUME ClaudeInit PROVE ClaudeInv
    OBVIOUS
  <2>1. /\ <<>> \in Seq(Item) /\ Len(<<>>) = 0 /\ DOMAIN stdout = {} /\ DOMAIN channel = {}
    BY EmptySeq DEF ClaudeInit
  <2>2. ClaudeTypeOK
    <3>1. /\ claudeCancelled \in BOOLEAN /\ claudeAlive \in BOOLEAN /\ failure \in BOOLEAN
          /\ working \in BOOLEAN /\ claudeClosed \in BOOLEAN /\ listening \in BOOLEAN
      BY Zenon DEF ClaudeInit
    <3>2. loop \in [pc : {"scan", "emit", "broken", "wait", "report", "gone"},
                   hand : Item \union {NoItem}]
      BY DEF ClaudeInit
    <3>. QED BY <2>1, <3>1, <3>2 DEF ClaudeInit, ClaudeTypeOK
  <2>. QED BY <2>1, <2>2 DEF ClaudeInit, ClaudeInv, LoopOK, AskOK, AskedIsHeard
<1>2. ClaudeInv /\ [ClaudeNext]_claudeVars => ClaudeInv'
  <2>. SUFFICES ASSUME ClaudeInv, [ClaudeNext]_claudeVars PROVE ClaudeInv'
    OBVIOUS
  <2>1. CASE UNCHANGED claudeVars
    BY <2>1 DEF claudeVars, processVars, engineVars, ClaudeInv, ClaudeTypeOK, LoopOK, AskOK,
                AskedIsHeard, OnItsWay
  <2>2. CASE ClaudeNext
    BY <2>2, ClaudeProcessKeeps, ClaudeEngineKeeps, ClaudeLoopKeeps, ClaudeCloseKeeps
       DEF ClaudeNext
  <2>. QED BY <2>1, <2>2
<1>. QED BY <1>1, <1>2, PTL DEF ClaudeSpec

\* Every variable of the session has its type.
THEOREM ClaudeTypeCorrect == ClaudeSpec => []ClaudeTypeOK
<1>1. ClaudeInv => ClaudeTypeOK
  BY DEF ClaudeInv
<1>. QED BY <1>1, ClaudeInvariance, PTL

\* A process that waits for a decision asked for it: while the session is alive its
\* request is on its way to the engine or known there, through readLoop, the channel,
\* the end of a turn and requests that were taken back.
THEOREM EveryAskIsHeard == ClaudeSpec => []AskedIsHeard
<1>1. ClaudeInv => AskedIsHeard
  BY DEF ClaudeInv
<1>. QED BY <1>1, ClaudeInvariance, PTL

\* Close of Claude Code: when it has returned, the process and readLoop are gone and
\* the channel is closed.
THEOREM ClaudeCloseIsClean == ClaudeSpec => []CloseIsClean
<1>1. ClaudeInv => CloseIsClean
  BY DEF ClaudeInv, LoopOK, CloseIsClean
<1>. QED BY <1>1, ClaudeInvariance, PTL

-----------------------------------------------------------------------------
(* Each step of Claude Code is a step of AgentSession, or changes nothing  *)
(* there.                                                                  *)

\* Close cancels the context first.
CloseCancels == claudeCloser # "no" => claudeCancelled

\* The steps of readLoop: its worker goes with the loop, since the process is gone then.
LEMMA ClaudeReaderWorks ==
  ASSUME ClaudeInv, ClaudeInv',
         ClaudeReadLine \/ ScanFails \/ ClaudeEndOfOutput \/ ClaudeDeliver \/ Drop
         \/ ClaudeWaitProcess
  PROVE  ClaudeContract!Work(1)
<1>1. ClaudeTypeOK /\ ClaudeTypeOK' /\ LoopOK /\ LoopOK' /\ channel \in Seq(Item) /\ Len(channel) \in Nat
  BY LenProperties DEF ClaudeInv, ClaudeTypeOK
<1>2. UNCHANGED <<process, claudeCancelled, claudeCloser>>
  BY DEF ClaudeReadLine, ScanFails, ClaudeEndOfOutput, ClaudeDeliver, Drop, ClaudeWaitProcess,
         processVars, engineVars
<1>3. loop.pc # "gone" /\ ~claudeClosed
  BY <1>1 DEF ClaudeReadLine, ScanFails, ClaudeEndOfOutput, ClaudeDeliver, Drop, ClaudeWaitProcess,
              LoopOK
<1>4. ClaudeWorking = {1} /\ ClaudeWorking' \in {{1}, {}}
  BY <1>3 DEF ClaudeWorking
<1>5. ~claudeClosed' \/ ClaudeWorking' = {}
  BY <1>1 DEF ClaudeWorking, LoopOK
<1>6. CASE ClaudeDeliver
  <2>1. channel' = Append(channel, loop.hand) /\ Len(channel) < ChannelSize /\ loop.hand # NoItem
    BY <1>6 DEF ClaudeDeliver
  <2>2. loop.hand \in Item
    BY <1>1, <2>1 DEF ClaudeTypeOK
  <2>3. Len(channel') = Len(channel) + 1
    BY <1>1, <2>1, <2>2, AppendProperties
  <2>. QED BY <1>2, <1>3, <1>4, <1>5, <2>1, <2>3 DEF ClaudeContract!Work
<1>7. CASE ClaudeReadLine \/ ScanFails \/ ClaudeEndOfOutput \/ Drop \/ ClaudeWaitProcess
  <2>1. UNCHANGED channel
    BY <1>7 DEF ClaudeReadLine, ScanFails, ClaudeEndOfOutput, Drop, ClaudeWaitProcess
  <2>. QED BY <1>2, <1>3, <1>4, <1>5, <2>1 DEF ClaudeContract!Work
<1>. QED BY <1>6, <1>7

LEMMA ClaudeRefines ==
  ASSUME ClaudeInv, ClaudeInv', CloseCancels, [ClaudeNext]_claudeVars
  PROVE  CloseCancels' /\ [ClaudeContract!Next]_(ClaudeContract!vars)
<1>. USE DEF processVars, engineVars
<1>1. CASE UNCHANGED claudeVars
  BY <1>1 DEF claudeVars, ClaudeContract!vars, ClaudeWorking, CloseCancels
<1>2. CASE \/ (\E type \in {"text", "result"} : WriteLine(type)) \/ AskPermission \/ CancelRequest
           \/ Send \/ EndTurn \/ (\E r \in Ask : RespondPermission(r))
  <2>1. UNCHANGED <<process, loop, claudeCancelled, channel, claudeClosed, claudeCloser>>
    BY <1>2 DEF WriteLine, AskPermission, CancelRequest, Send, EndTurn, RespondPermission
  <2>. QED BY <2>1 DEF ClaudeContract!vars, ClaudeWorking, CloseCancels
<1>3. CASE Exit
  <2>1. process = "running" /\ UNCHANGED <<loop, claudeCancelled, channel, claudeClosed, claudeCloser>>
    BY <1>3 DEF Exit
  <2>2. loop.pc # "gone"
    BY <2>1 DEF ClaudeInv, LoopOK
  <2>. QED BY <2>1, <2>2 DEF ClaudeContract!vars, ClaudeWorking, CloseCancels
<1>4. CASE ClaudeTakeEvent
  <2>1. channel # <<>> /\ channel' = Tail(channel)
        /\ UNCHANGED <<process, loop, claudeCancelled, claudeClosed, claudeCloser>>
    BY <1>4 DEF ClaudeTakeEvent
  <2>2. Len(channel) \in Nat /\ Len(channel) > 0 /\ Len(channel') = Len(channel) - 1
    BY <2>1, EmptySeq, HeadTailProperties, LenProperties DEF ClaudeInv, ClaudeTypeOK
  <2>3. ClaudeContract!Take
    BY <2>1, <2>2 DEF ClaudeContract!Take, ClaudeWorking
  <2>. QED BY <2>1, <2>3 DEF ClaudeContract!Next, CloseCancels
<1>5. CASE ClaudeReadLine \/ ScanFails \/ ClaudeEndOfOutput \/ ClaudeDeliver \/ Drop \/ ClaudeWaitProcess
  <2>1. UNCHANGED <<claudeCancelled, claudeCloser>>
    BY <1>5 DEF ClaudeReadLine, ScanFails, ClaudeEndOfOutput, ClaudeDeliver, Drop, ClaudeWaitProcess
  <2>2. ClaudeContract!Work(1)
    BY <1>5, ClaudeReaderWorks
  <2>. QED BY <2>1, <2>2 DEF ClaudeContract!Next, CloseCancels
<1>6. CASE ClaudeCancelParent \/ ClaudeBeginClose \/ CloseKills
  <2>1. UNCHANGED <<process, loop, channel, claudeClosed>>
    BY <1>6 DEF ClaudeCancelParent, ClaudeBeginClose, CloseKills, Closes
  <2>2. claudeCancelled' = TRUE
    <3>1. CASE CloseKills
      BY <3>1 DEF CloseKills, Closes, CloseCancels, ClaudeInv, ClaudeTypeOK
    <3>. QED BY <1>6, <3>1 DEF ClaudeCancelParent, ClaudeBeginClose
  <2>3. (claudeCloser' = "returned") = (claudeCloser = "returned")
    BY <1>6 DEF ClaudeCancelParent, ClaudeBeginClose, CloseKills, Closes
  <2>4. ClaudeContract!Stop
    BY <2>1, <2>2, <2>3 DEF ClaudeContract!Stop, ClaudeWorking
  <2>. QED BY <2>2, <2>4 DEF ClaudeContract!Next, CloseCancels
<1>7. CASE CloseReturns
  <2>1. /\ claudeClosed /\ claudeCloser \in {"graceful", "killed"} /\ claudeCloser' = "returned"
        /\ UNCHANGED <<process, loop, claudeCancelled, channel, claudeClosed>>
    BY <1>7 DEF CloseReturns, Closes
  <2>2. claudeCancelled /\ ClaudeWorking = {} /\ ClaudeWorking' = {}
    BY <2>1 DEF CloseCancels, ClaudeInv, LoopOK, ClaudeWorking
  <2>3. ClaudeContract!Return
    BY <2>1, <2>2 DEF ClaudeContract!Return
  <2>. QED BY <2>1, <2>2, <2>3 DEF ClaudeContract!Next, CloseCancels
<1>. QED BY <1>1, <1>2, <1>3, <1>4, <1>5, <1>6, <1>7 DEF ClaudeNext

\* Claude Code keeps what every AgentSession promises, its Close leaves nobody behind and
\* nothing is ever sent on the closed channel: ClaudeKeepsContract.
THEOREM ClaudeIsAgentSession == ClaudeSpec => ClaudeKeepsContract
<1>1. ClaudeInit => CloseCancels /\ ClaudeContract!Init
  BY EmptySeq DEF ClaudeInit, CloseCancels, ClaudeContract!Init, ClaudeWorking
<1>2. ClaudeInv /\ ClaudeInv' /\ CloseCancels /\ [ClaudeNext]_claudeVars
        => CloseCancels' /\ [ClaudeContract!Next]_(ClaudeContract!vars)
  BY ClaudeRefines
<1>. QED BY <1>1, <1>2, ClaudeInvariance, PTL DEF ClaudeSpec, ClaudeKeepsContract, ClaudeContract!Spec
=============================================================================
