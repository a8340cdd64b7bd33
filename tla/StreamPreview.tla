--------------------------- MODULE StreamPreview ---------------------------
(***************************************************************************)
(* core/streaming.go: the preview message that shows the text of a turn    *)
(* while the agent still writes it. The event loop of the turn appends     *)
(* text, freezes the preview before anything else is posted, and finishes  *)
(* it with the answer; timers flush text that was held back. Every         *)
(* function runs under sp.mu, calls to the platform included, so each is   *)
(* one step; a timer that has fired waits for the lock as a goroutine of   *)
(* its own and can no longer be stopped.                                   *)
(* Text is counted in chunks: the first n of them are the number n.        *)
(***************************************************************************)
EXTENDS Naturals

CONSTANTS
  TimerId,    \* timers that may be outstanding at once
  MinDelta,   \* cfg.MinDeltaChars, in chunks
  Interval,   \* cfg.IntervalMs, in ticks
  MaxShown,   \* cfg.MaxChars, in chunks
  MaxText,    \* bound on the chunks of a turn
  MaxTime,    \* bound on the clock
  Cut,        \* the first MaxShown chunks and an ellipsis
  Other,      \* an answer that is not the text so far
  Gone,       \* a message that was deleted
  Never       \* no time, no timer, no message

ASSUME PreviewAssumption ==
  /\ MaxShown \in Nat /\ MaxText \in Nat /\ MaxTime \in Nat /\ Interval \in Nat
  /\ Cut \notin Nat /\ Never \notin TimerId

VARIABLES
  cleaner,      \* the platform is a PreviewCleaner
  fullText,     \* chunks appended
  lastSentText, \* what was last sent, 0 at first
  lastSentAt,   \* when, or Never
  viaUpdate,    \* lastSentViaUpdate
  started,      \* previewMsgID is set
  degraded,
  timer,        \* sp.timer
  timers,       \* "free", "armed" or "fired" for each timer
  due,          \* when an armed timer fires
  message,      \* what the chat shows: Never, a text or Gone
  answer,       \* the text finish was called with
  outcome,      \* "running", or how finish ended: "inplace", "separate"
  now

previewVars == <<cleaner, fullText, lastSentText, lastSentAt, viaUpdate, started, degraded,
                 timer, timers, due, message, answer, outcome, now>>

Text == 0..MaxText \union {Cut, Other}

PreviewTypeOK ==
  /\ cleaner \in BOOLEAN
  /\ fullText \in 0..MaxText
  /\ lastSentText \in 0..MaxText \union {Cut}
  /\ lastSentAt \in 0..MaxTime \union {Never}
  /\ viaUpdate \in BOOLEAN
  /\ started \in BOOLEAN
  /\ degraded \in BOOLEAN
  /\ timer \in TimerId \union {Never}
  /\ timers \in [TimerId -> {"free", "armed", "fired"}]
  /\ due \in [TimerId -> 0..(MaxTime + Interval)]
  /\ message \in Text \union {Never, Gone}
  /\ answer \in Text
  /\ outcome \in {"running", "inplace", "separate"}
  /\ now \in 0..MaxTime

PreviewInit ==
  /\ cleaner \in BOOLEAN
  /\ fullText = 0
  /\ lastSentText = 0
  /\ lastSentAt = Never
  /\ viaUpdate = FALSE
  /\ started = FALSE
  /\ degraded = FALSE
  /\ timer = Never
  /\ timers = [i \in TimerId |-> "free"]
  /\ due = [i \in TimerId |-> 0]
  /\ message = Never
  /\ answer = 0
  /\ outcome = "running"
  /\ now = 0

-----------------------------------------------------------------------------
Display(n) == IF n > MaxShown THEN Cut ELSE n
Length(text) == IF text = Cut THEN MaxShown + 1 ELSE text

\* What the chat may show when a call that writes text ended with an error.
AfterError(text) == IF message = Gone THEN {Gone} ELSE {message, text}

\* Mutant of FlushLocked: the text counts as sent before the platform took it.
FlushEarly(text) ==
  IF text = lastSentText \/ text = 0
  THEN UNCHANGED <<lastSentText, lastSentAt, viaUpdate, started, degraded, message>>
  ELSE /\ lastSentText' = text
       /\ lastSentAt' = now
       /\ viaUpdate' = started
       /\ \/ started' = TRUE /\ message' = text /\ UNCHANGED degraded
          \/ UNCHANGED <<started, degraded, message>>

\* flushLocked: the first text opens the preview message, a later one edits
\* it. An error of the platform, or an edit of a message that is gone, ends
\* the preview.
FlushLocked(text) ==
  IF text = lastSentText \/ text = 0
  THEN UNCHANGED <<lastSentText, lastSentAt, viaUpdate, started, degraded, message>>
  ELSE \/ /\ message # Gone
          /\ lastSentText' = text
          /\ lastSentAt' = now
          /\ viaUpdate' = started
          /\ started' = TRUE
          /\ message' = text
          /\ UNCHANGED degraded
       \/ /\ degraded' = TRUE
          /\ message' \in AfterError(text)
          /\ UNCHANGED <<lastSentText, lastSentAt, viaUpdate, started>>

\* scheduleFlushLocked: at most one timer is known to the preview.
ScheduleFlush(delay) ==
  \/ timer # Never /\ UNCHANGED <<timer, timers, due>>
  \/ /\ timer = Never
     /\ \E i \in TimerId :
          /\ timers[i] = "free"
          /\ timer' = i
          /\ timers' = [timers EXCEPT ![i] = "armed"]
          /\ due' = [due EXCEPT ![i] = now + delay]

\* Mutant of CancelTimer: the handle of the stopped timer is kept.
CancelKeepsHandle ==
  /\ timers' = [i \in TimerId |->
                  IF i = timer /\ timers[i] = "armed" THEN "free" ELSE timers[i]]
  /\ UNCHANGED <<timer, due>>

\* cancelTimerLocked: a timer that has fired already is only forgotten.
CancelTimer ==
  /\ timer' = Never
  /\ timers' = [i \in TimerId |->
                  IF i = timer /\ timers[i] = "armed" THEN "free" ELSE timers[i]]
  /\ UNCHANGED due

-----------------------------------------------------------------------------
\* appendText, which the event loop calls while canPreview() holds.
AppendText ==
  LET text == Display(fullText + 1)
      fresh == lastSentAt = Never
      tooShort == Length(text) < Length(lastSentText) + MinDelta
      elapsed == now - lastSentAt
  IN
  /\ outcome = "running"
  /\ ~degraded
  /\ fullText < MaxText
  /\ fullText' = fullText + 1
  /\ \/ /\ ~fresh /\ tooShort
        /\ ScheduleFlush(Interval)
        /\ UNCHANGED <<lastSentText, lastSentAt, viaUpdate, started, degraded, message>>
     \/ /\ ~fresh /\ ~tooShort
        /\ elapsed < Interval
        /\ ScheduleFlush(Interval - elapsed)
        /\ UNCHANGED <<lastSentText, lastSentAt, viaUpdate, started, degraded, message>>
     \/ /\ fresh \/ (~tooShort /\ elapsed >= Interval)
        /\ CancelTimer
        /\ FlushLocked(text)
  /\ UNCHANGED <<cleaner, answer, outcome, now>>

\* The runtime starts the goroutine of a timer that is due.
Fire(i) ==
  /\ timers[i] = "armed"
  /\ now >= due[i]
  /\ timers' = [timers EXCEPT ![i] = "fired"]
  /\ UNCHANGED <<cleaner, fullText, lastSentText, lastSentAt, viaUpdate, started, degraded,
                 timer, due, message, answer, outcome, now>>

\* Mutant of Callback: a frozen preview is flushed all the same.
CallbackAnyway(i) ==
  /\ timers[i] = "fired"
  /\ timers' = [timers EXCEPT ![i] = "free"]
  /\ timer' = Never
  /\ FlushLocked(Display(fullText))
  /\ UNCHANGED <<cleaner, fullText, due, answer, outcome, now>>

\* The function of a timer: it does not ask whether it was cancelled.
Callback(i) ==
  /\ timers[i] = "fired"
  /\ timers' = [timers EXCEPT ![i] = "free"]
  /\ timer' = Never
  /\ IF degraded
     THEN UNCHANGED <<lastSentText, lastSentAt, viaUpdate, started, degraded, message>>
     ELSE FlushLocked(Display(fullText))
  /\ UNCHANGED <<cleaner, fullText, due, answer, outcome, now>>

\* freeze, before a tool message or a permission prompt: the message shows all
\* of the text, if the platform takes it, and is not touched again.
Freeze ==
  /\ outcome = "running"
  /\ CancelTimer
  /\ degraded' = TRUE
  /\ message' \in (IF started /\ ~degraded /\ fullText > 0
                   THEN {message, Display(fullText)} ELSE {message})
  /\ UNCHANGED <<cleaner, fullText, lastSentText, lastSentAt, viaUpdate, started,
                 answer, outcome, now>>

\* DeletePreviewMessage, whose error is ignored.
Deleted == message' \in (IF started THEN {message, Gone} ELSE {message})

\* finish: the answer goes into the preview message ("inplace"), or the caller
\* posts it as new messages ("separate").
Finish(text) ==
  /\ outcome = "running"
  /\ CancelTimer
  /\ answer' = text
  /\ \/ /\ ~started \/ degraded \/ cleaner
        /\ IF cleaner THEN Deleted ELSE UNCHANGED message
        /\ outcome' = "separate"
     \/ /\ started /\ ~degraded /\ ~cleaner
        /\ text = 0
        /\ outcome' = "separate"
        /\ UNCHANGED message
     \/ /\ started /\ ~degraded /\ ~cleaner
        /\ text = lastSentText /\ viaUpdate
        /\ outcome' = "inplace"
        /\ UNCHANGED message
     \/ /\ started /\ ~degraded /\ ~cleaner
        /\ text # 0 /\ ~(text = lastSentText /\ viaUpdate)
        /\ \/ outcome' = "inplace" /\ message' = text
           \/ outcome' = "separate" /\ message' \in AfterError(text)
  /\ UNCHANGED <<cleaner, fullText, lastSentText, lastSentAt, viaUpdate, started, degraded,
                 now>>

\* The answers a turn ends with: an error (no text), the text itself, another.
Answers == {0, fullText, Other}

PreviewTick ==
  /\ now < MaxTime
  /\ now' = now + 1
  /\ UNCHANGED <<cleaner, fullText, lastSentText, lastSentAt, viaUpdate, started, degraded,
                 timer, timers, due, message, answer, outcome>>

PreviewNext ==
  \/ AppendText
  \/ \E i \in TimerId : Fire(i) \/ Callback(i)
  \/ Freeze
  \/ \E text \in Answers : Finish(text)
  \/ PreviewTick

PreviewSpec == PreviewInit /\ [][PreviewNext]_previewVars

-----------------------------------------------------------------------------
\* freeze and a platform error end the preview for good: whatever timers are
\* still under way, nobody writes to the message again, and finish at most
\* deletes it. What was posted below it stays below.
NoWriteAfterFreeze ==
  [][degraded => message' \in {message, Gone}]_previewVars

\* Text that is held back is not forgotten: while the turn goes on, a timer is
\* armed or under way that will show it, also when timers and appends cross.
HeldTextHasTimer ==
  (outcome = "running" /\ ~degraded /\ Display(fullText) # lastSentText)
    => \E i \in TimerId : timers[i] # "free"

\* The engine posts the answer itself unless finish returns true: then the
\* chat shows it, also when finish trusts lastSentText and does not edit.
AnswerInPlaceIsShown ==
  [][outcome' = "inplace" /\ outcome = "running" => message' = answer']_previewVars
=============================================================================
