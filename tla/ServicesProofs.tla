--------------------------- MODULE ServicesProofs ---------------------------
(***************************************************************************)
(* The services around a turn, for any number of timers, users, sessions   *)
(* and goroutines in Save() and any limits.                                *)
(***************************************************************************)
EXTENDS MCServices, AgentProofs

-----------------------------------------------------------------------------
(* core/streaming.go: the streaming preview.

   The streaming preview for any number of timers and any limits: a frozen
   message stays, held text has a timer, and an answer that finish says is
   in place is what the chat shows. *)

\* The handle of a timer is a timer that has not run, and no text was sent unless
\* there is some.
HandleOK == timer # Never => timer \in TimerId /\ timers[timer] # "free"
NothingSent == fullText = 0 => lastSentText = 0

\* Until the turn ends the preview knows what its message shows.
ShownIsSent == outcome = "running" /\ started /\ ~degraded => message = lastSentText

USE PreviewAssumption

PreviewInv ==
  /\ fullText \in Nat /\ timers \in [TimerId -> {"free", "armed", "fired"}]
  /\ HandleOK /\ NothingSent /\ ShownIsSent /\ HeldTextHasTimer

-----------------------------------------------------------------------------
\* A flush of what there is leaves nothing held back, or ends the preview.
LEMMA FlushSends ==
  ASSUME NEW text, FlushLocked(text), text = 0 => lastSentText = 0,
         outcome = "running" /\ started /\ ~degraded => message = lastSentText
  PROVE  /\ degraded' \/ lastSentText' = text
         /\ lastSentText' = lastSentText \/ (lastSentText' = text /\ text # 0)
         /\ outcome = "running" /\ started' /\ ~degraded' => message' = lastSentText'
         /\ degraded => degraded'
BY DEF FlushLocked

\* All but the first line of the text is shown as its beginning.
LEMMA DisplayIsText ==
  ASSUME NEW n \in Nat PROVE Display(n) = 0 <=> n = 0
BY DEF Display

LEMMA CancelsTimer ==
  ASSUME PreviewInv, CancelTimer
  PROVE  /\ timer' = Never /\ timers' \in [TimerId -> {"free", "armed", "fired"}]
BY DEF PreviewInv, CancelTimer

LEMMA AppendKeeps == ASSUME PreviewInv, AppendText PROVE PreviewInv'
<1>. DEFINE text == Display(fullText + 1)
<1>1. /\ outcome = "running" /\ outcome' = outcome /\ ~degraded
      /\ fullText \in Nat /\ fullText' = fullText + 1 /\ fullText' \in Nat
  BY DEF AppendText, PreviewInv
<1>2. text # 0
  BY <1>1, DisplayIsText
<1>3. CASE /\ \E delay : ScheduleFlush(delay)
           /\ UNCHANGED <<lastSentText, lastSentAt, viaUpdate, started, degraded, message>>
  <2>1. timer' \in TimerId /\ timers'[timer'] # "free"
        /\ timers' \in [TimerId -> {"free", "armed", "fired"}]
    BY <1>3 DEF ScheduleFlush, PreviewInv, HandleOK
  <2>. QED BY <1>1, <1>3, <2>1
         DEF PreviewInv, HandleOK, NothingSent, ShownIsSent, HeldTextHasTimer
<1>4. CASE CancelTimer /\ FlushLocked(text)
  <2>1. /\ degraded' \/ lastSentText' = text
        /\ outcome = "running" /\ started' /\ ~degraded' => message' = lastSentText'
    BY <1>2, <1>4, FlushSends DEF PreviewInv, ShownIsSent
  <2>. QED BY <1>1, <1>4, <2>1, CancelsTimer
         DEF PreviewInv, HandleOK, NothingSent, ShownIsSent, HeldTextHasTimer
<1>5. \/ /\ \E delay : ScheduleFlush(delay)
         /\ UNCHANGED <<lastSentText, lastSentAt, viaUpdate, started, degraded, message>>
      \/ CancelTimer /\ FlushLocked(text)
  BY DEF AppendText
<1>. QED BY <1>3, <1>4, <1>5

LEMMA FireKeeps == ASSUME PreviewInv, NEW i \in TimerId, Fire(i) PROVE PreviewInv'
BY DEF Fire, PreviewInv, HandleOK, NothingSent, ShownIsSent, HeldTextHasTimer

LEMMA CallbackKeeps ==
  ASSUME PreviewInv, NEW i \in TimerId, Callback(i)
  PROVE  PreviewInv'
<1>1. /\ timer' = Never /\ timers' \in [TimerId -> {"free", "armed", "fired"}]
      /\ fullText' = fullText /\ fullText \in Nat /\ outcome' = outcome
  BY DEF Callback, PreviewInv
<1>2. CASE degraded
  BY <1>1, <1>2 DEF Callback, PreviewInv, HandleOK, NothingSent, ShownIsSent, HeldTextHasTimer
<1>3. CASE ~degraded
  <2>1. FlushLocked(Display(fullText)) /\ (Display(fullText) = 0 => lastSentText = 0)
    BY <1>1, <1>3, DisplayIsText DEF Callback, PreviewInv, NothingSent
  <2>2. /\ degraded' \/ lastSentText' = Display(fullText)
        /\ lastSentText' = lastSentText \/ Display(fullText) # 0
        /\ outcome = "running" /\ started' /\ ~degraded' => message' = lastSentText'
    BY <2>1, FlushSends DEF PreviewInv, ShownIsSent
  <2>3. NothingSent'
    BY <1>1, <2>2, DisplayIsText DEF PreviewInv, NothingSent
  <2>. QED BY <1>1, <2>2, <2>3 DEF PreviewInv, HandleOK, ShownIsSent, HeldTextHasTimer
<1>. QED BY <1>2, <1>3

LEMMA FreezeKeeps == ASSUME PreviewInv, Freeze PROVE PreviewInv'
BY CancelsTimer DEF Freeze, PreviewInv, HandleOK, NothingSent, ShownIsSent, HeldTextHasTimer

LEMMA FinishKeeps == ASSUME PreviewInv, NEW text, Finish(text) PROVE PreviewInv'
<1>1. outcome' # "running" /\ CancelTimer /\ UNCHANGED <<fullText, lastSentText>>
  BY DEF Finish
<1>. QED BY <1>1, CancelsTimer DEF PreviewInv, HandleOK, NothingSent, ShownIsSent, HeldTextHasTimer

LEMMA NextPreview == ASSUME PreviewInv, [PreviewNext]_previewVars PROVE PreviewInv'
<1>1. CASE AppendText
  BY <1>1, AppendKeeps
<1>2. CASE \E i \in TimerId : Fire(i) \/ Callback(i)
  BY <1>2, FireKeeps, CallbackKeeps
<1>3. CASE Freeze
  BY <1>3, FreezeKeeps
<1>4. CASE \E text \in Answers : Finish(text)
  BY <1>4, FinishKeeps
<1>5. CASE PreviewTick \/ UNCHANGED previewVars
  BY <1>5 DEF PreviewTick, previewVars, PreviewInv, HandleOK, NothingSent, ShownIsSent, HeldTextHasTimer
<1>. QED BY <1>1, <1>2, <1>3, <1>4, <1>5 DEF PreviewNext

-----------------------------------------------------------------------------
\* The inductive invariant of the preview.
THEOREM PreviewInvariance == PreviewSpec => []PreviewInv
<1>1. PreviewInit => PreviewInv
  BY DisplayIsText DEF PreviewInit, PreviewInv, HandleOK, NothingSent, ShownIsSent, HeldTextHasTimer
<1>2. PreviewInv /\ [PreviewNext]_previewVars => PreviewInv'
  BY NextPreview
<1>. QED BY <1>1, <1>2, PTL DEF PreviewSpec

\* Text that appendText holds back is shown by a timer, however timers and appends
\* cross.
THEOREM HeldTextIsShown == PreviewSpec => []HeldTextHasTimer
<1>1. PreviewInv => HeldTextHasTimer
  BY DEF PreviewInv
<1>. QED BY <1>1, PreviewInvariance, PTL

\* When finish returns true the chat shows the answer, also when finish only trusts
\* lastSentText and does not edit.
THEOREM AnswerShown == PreviewSpec => AnswerInPlaceIsShown
<1>1. PreviewInv /\ [PreviewNext]_previewVars =>
        [outcome' = "inplace" /\ outcome = "running" => message' = answer']_previewVars
  <2>. SUFFICES ASSUME PreviewInv, [PreviewNext]_previewVars, outcome' = "inplace", outcome = "running"
                PROVE  message' = answer'
    OBVIOUS
  <2>1. PICK text \in Answers : Finish(text)
    BY DEF PreviewNext, previewVars, AppendText, Fire, Callback, Freeze, PreviewTick
  <2>. QED BY <2>1 DEF Finish, PreviewInv, ShownIsSent
<1>. QED BY <1>1, PreviewInvariance, PTL DEF PreviewSpec, AnswerInPlaceIsShown

\* freeze and an error of the platform are final: whatever timers are still under
\* way, nobody writes to the message again.
THEOREM FrozenStays == PreviewSpec => NoWriteAfterFreeze
<1>1. [PreviewNext]_previewVars => [degraded => message' \in {message, Gone}]_previewVars
  <2>. SUFFICES ASSUME [PreviewNext]_previewVars, degraded
                PROVE  message' \in {message, Gone}
    OBVIOUS
  <2>1. ~AppendText
    BY DEF AppendText
  <2>. QED BY <2>1 DEF PreviewNext, previewVars, Fire, Callback, Freeze, Finish, Deleted, PreviewTick
<1>. QED BY <1>1, PTL DEF PreviewSpec, NoWriteAfterFreeze

-----------------------------------------------------------------------------
(* The types of the preview. *)

\* What flushLocked sends, and what it leaves.
LEMMA FlushTypes ==
  ASSUME PreviewTypeOK, NEW text \in 0..MaxText \union {Cut}, FlushLocked(text)
  PROVE  /\ lastSentText' \in 0..MaxText \union {Cut}
         /\ lastSentAt' \in 0..MaxTime \union {Never}
         /\ viaUpdate' \in BOOLEAN /\ started' \in BOOLEAN /\ degraded' \in BOOLEAN
         /\ message' \in Text \union {Never, Gone}
BY DEF FlushLocked, PreviewTypeOK, AfterError, Text

LEMMA TimerTypes ==
  ASSUME PreviewTypeOK, CancelTimer \/ \E delay \in Nat : now + delay <= MaxTime + Interval /\ ScheduleFlush(delay)
  PROVE  /\ timer' \in TimerId \union {Never}
         /\ timers' \in [TimerId -> {"free", "armed", "fired"}]
         /\ due' \in [TimerId -> 0..(MaxTime + Interval)]
<1>1. CASE CancelTimer
  BY <1>1 DEF CancelTimer, PreviewTypeOK
<1>2. ASSUME NEW delay \in Nat, now + delay <= MaxTime + Interval, ScheduleFlush(delay)
      PROVE  /\ timer' \in TimerId \union {Never}
             /\ timers' \in [TimerId -> {"free", "armed", "fired"}]
             /\ due' \in [TimerId -> 0..(MaxTime + Interval)]
  <2>1. now + delay \in 0..(MaxTime + Interval)
    BY <1>2 DEF PreviewTypeOK
  <2>. QED BY <1>2, <2>1 DEF ScheduleFlush, PreviewTypeOK
<1>. QED BY <1>1, <1>2

LEMMA AppendTypes == ASSUME PreviewTypeOK, AppendText PROVE PreviewTypeOK'
<1>1. fullText' \in 0..MaxText /\ UNCHANGED <<cleaner, answer, outcome, now>>
  BY DEF AppendText, PreviewTypeOK
<1>2. CASE /\ \E delay \in Nat : now + delay <= MaxTime + Interval /\ ScheduleFlush(delay)
           /\ UNCHANGED <<lastSentText, lastSentAt, viaUpdate, started, degraded, message>>
  BY <1>1, <1>2, TimerTypes DEF PreviewTypeOK
<1>3. CASE CancelTimer /\ FlushLocked(Display(fullText + 1))
  <2>1. Display(fullText + 1) \in 0..MaxText \union {Cut}
    BY <1>1 DEF AppendText, Display
  <2>. QED BY <1>1, <1>3, <2>1, TimerTypes, FlushTypes DEF PreviewTypeOK
<1>4. \/ /\ \E delay \in Nat : now + delay <= MaxTime + Interval /\ ScheduleFlush(delay)
         /\ UNCHANGED <<lastSentText, lastSentAt, viaUpdate, started, degraded, message>>
      \/ CancelTimer /\ FlushLocked(Display(fullText + 1))
  <2>1. now + Interval <= MaxTime + Interval
    BY DEF PreviewTypeOK
  <2>2. ASSUME lastSentAt # Never, now - lastSentAt < Interval
        PROVE  /\ Interval - (now - lastSentAt) \in Nat
               /\ now + (Interval - (now - lastSentAt)) <= MaxTime + Interval
    BY <2>2 DEF PreviewTypeOK
  <2>. QED BY <2>1, <2>2 DEF AppendText
<1>. QED BY <1>2, <1>3, <1>4

LEMMA CallbackTypes == ASSUME PreviewTypeOK, NEW i \in TimerId, Callback(i) PROVE PreviewTypeOK'
<1>1. /\ timer' = Never /\ timers' \in [TimerId -> {"free", "armed", "fired"}]
      /\ UNCHANGED <<cleaner, fullText, due, answer, outcome, now>>
  BY DEF Callback, PreviewTypeOK
<1>2. CASE UNCHANGED <<lastSentText, lastSentAt, viaUpdate, started, degraded, message>>
  BY <1>1, <1>2 DEF PreviewTypeOK
<1>3. CASE FlushLocked(Display(fullText))
  <2>1. Display(fullText) \in 0..MaxText \union {Cut}
    BY DEF PreviewTypeOK, Display
  <2>. QED BY <1>1, <1>3, <2>1, FlushTypes DEF PreviewTypeOK
<1>. QED BY <1>2, <1>3 DEF Callback

\* Every variable of the preview has its type: what is shown is text of the turn, or a cut
\* of it, and timers are due within the time of the turn.
THEOREM PreviewTypeCorrect == PreviewSpec => []PreviewTypeOK
<1>1. PreviewInit => PreviewTypeOK
  <2>1. 0 \in 0..MaxText /\ 0 \in 0..MaxTime /\ 0 \in 0..(MaxTime + Interval)
    OBVIOUS
  <2>2. "free" \in {"free", "armed", "fired"} /\ "running" \in {"running", "inplace", "separate"}
    OBVIOUS
  <2>. QED BY <2>1, <2>2, Zenon DEF PreviewInit, PreviewTypeOK, Text
<1>2. PreviewTypeOK /\ [PreviewNext]_previewVars => PreviewTypeOK'
  <2>. SUFFICES ASSUME PreviewTypeOK, [PreviewNext]_previewVars PROVE PreviewTypeOK'
    OBVIOUS
  <2>1. ASSUME NEW i \in TimerId, Fire(i) PROVE PreviewTypeOK'
    BY <2>1 DEF Fire, PreviewTypeOK
  <2>2. CASE Freeze
    <3>1. CancelTimer /\ degraded' = TRUE /\ message' \in {message, Display(fullText)}
      BY <2>2 DEF Freeze
    <3>2. Display(fullText) \in Text
      BY DEF PreviewTypeOK, Display, Text
    <3>. QED BY <2>2, <3>1, <3>2, TimerTypes DEF Freeze, PreviewTypeOK
  <2>3. ASSUME NEW text \in Answers, Finish(text) PROVE PreviewTypeOK'
    <3>1. text \in Text
      BY DEF Answers, PreviewTypeOK, Text
    <3>2. CancelTimer /\ outcome' \in {"inplace", "separate"} /\ answer' = text
      BY <2>3 DEF Finish
    <3>3. message' \in {message, text, Gone}
      BY <2>3 DEF Finish, Deleted, AfterError
    <3>. QED BY <2>3, <3>1, <3>2, <3>3, TimerTypes DEF Finish, PreviewTypeOK
  <2>4. CASE PreviewTick \/ UNCHANGED previewVars
    BY <2>4 DEF PreviewTick, previewVars, PreviewTypeOK
  <2>. QED BY <2>1, <2>2, <2>3, <2>4, AppendTypes, CallbackTypes DEF PreviewNext
<1>. QED BY <1>1, <1>2, PTL DEF PreviewSpec

-----------------------------------------------------------------------------
(* core/session.go: the session manager.

   The session manager for any number of users, sessions and goroutines
   in Save(): the active session is the user's own, and what was saved
   stays, whatever saves, errors and crashes cross. *)

\* Sessions are numbered up to the counter, and the active one has its owner.
SnapOK(snap) ==
  /\ \A s \in Id : snap.owner[s] # Nobody => s <= snap.counter
  /\ \A u \in User : snap.current[u] # 0 => snap.owner[snap.current[u]] = u

\* new holds the sessions of old, and no older binding of them.
OwnersStay(old, new) ==
  /\ old.counter <= new.counter
  /\ \A s \in Id : old.owner[s] # Nobody => new.owner[s] = old.owner[s]
VersionsStay(old, new) ==
  \A s \in Id : old.owner[s] # Nobody => old.version[s] <= new.version[s]

\* What the program goes on from: nothing, when it could not load the file.
Kept == IF unread THEN Empty ELSE file

\* The write lock waits for Save(): the maps that a copy was taken of are still those
\* of the manager.
CopyOK(w) ==
  writer[w].pc = "copy" =>
    /\ SnapOK(writer[w].snap)
    /\ OwnersStay(Kept, writer[w].snap)
    /\ writer[w].snap.owner = memory.owner /\ writer[w].snap.counter = memory.counter
    /\ VersionsStay(writer[w].snap, memory)

\* A Save() that nobody overlapped: the file is no newer than its copy.
AloneOK(w) ==
  writer[w].pc = "copy" /\ writer[w].alone =>
    /\ \A v \in Writer \ {w} : writer[v].pc = "idle"
    /\ VersionsStay(Kept, writer[w].snap)

HIDE PreviewAssumption
USE StoreAssumption

StoreInv ==
  /\ StoreTypeOK
  /\ SnapOK(memory) /\ SnapOK(file)
  /\ OwnersStay(Kept, memory) /\ VersionsStay(Kept, memory)
  /\ \A w \in Writer : CopyOK(w) /\ AloneOK(w)

-----------------------------------------------------------------------------
LEMMA EmptyIsSnapshot == Empty \in Snapshot /\ SnapOK(Empty)
BY DEF Empty, Snapshot, Id, SnapOK

LEMMA KeptTypes == ASSUME StoreTypeOK PROVE Kept \in Snapshot
BY EmptyIsSnapshot DEF StoreTypeOK, Kept

\* A save leaves the file, or the program goes on from what it wrote.
LEMMA SaveKeeps ==
  ASSUME StoreTypeOK, NEW snap \in Snapshot, SaveLocked(snap)
  PROVE  /\ Kept \in Snapshot /\ Kept' \in Snapshot
         /\ \/ file' = file /\ Kept' = Kept
            \/ file' = snap /\ Kept' = snap
         /\ file' \in Snapshot /\ unread' \in BOOLEAN
<1>1. CASE file' = snap /\ unread' = FALSE
  BY <1>1, EmptyIsSnapshot DEF StoreTypeOK, Kept
<1>2. CASE file' = file /\ unread' = unread
  BY <1>2, EmptyIsSnapshot DEF StoreTypeOK, Kept
<1>. QED BY <1>1, <1>2 DEF SaveLocked

LEMMA InitStore == ASSUME StoreInit PROVE StoreInv
<1>1. StoreTypeOK
  BY EmptyIsSnapshot DEF StoreInit, StoreTypeOK, NotSaving
<1>2. OwnersStay(Kept, memory) /\ VersionsStay(Kept, memory)
  BY DEF StoreInit, Empty, OwnersStay, VersionsStay, Kept
<1>3. \A w \in Writer : CopyOK(w) /\ AloneOK(w)
  BY DEF StoreInit, CopyOK, AloneOK, NotSaving
<1>. QED BY <1>1, <1>2, <1>3, EmptyIsSnapshot DEF StoreInv, StoreInit

\* A change of the maps under the write lock, saved or not.
LEMMA LockedChangeKeeps ==
  ASSUME StoreInv, Exclusive, UNCHANGED writer, memory' \in Snapshot,
         SnapOK(memory'), OwnersStay(memory, memory'), VersionsStay(memory, memory'),
         SaveLocked(memory')
  PROVE  StoreInv'
<1>. USE DEF StoreInv
<1>1. /\ \/ file' = file /\ Kept' = Kept
         \/ file' = memory' /\ Kept' = memory'
      /\ Kept \in Snapshot /\ file' \in Snapshot /\ unread' \in BOOLEAN
  BY SaveKeeps
<1>2. StoreTypeOK'
  BY <1>1 DEF StoreTypeOK
<1>3. SnapOK(memory)' /\ SnapOK(file)'
  BY <1>1 DEF SnapOK
<1>4. OwnersStay(Kept, memory)'
  BY <1>1 DEF StoreTypeOK, Snapshot, OwnersStay
<1>5. VersionsStay(Kept, memory)'
  BY <1>1 DEF StoreTypeOK, Snapshot, OwnersStay, VersionsStay
<1>6. \A w \in Writer : writer'[w].pc # "copy"
  BY DEF Exclusive
<1>. QED BY <1>2, <1>3, <1>4, <1>5, <1>6 DEF CopyOK, AloneOK

\* createLocked gives out a number that no session has.
LEMMA CreatedKeeps ==
  ASSUME StoreInv, NEW u \in User, memory.counter < MaxSession
  PROVE  /\ Created(u) \in Snapshot /\ SnapOK(Created(u))
         /\ OwnersStay(memory, Created(u)) /\ VersionsStay(memory, Created(u))
<1>. DEFINE id == memory.counter + 1
<1>1. id \in Id /\ memory.owner[id] = Nobody
  BY DEF StoreInv, StoreTypeOK, Snapshot, Id, SnapOK
<1>2. /\ Created(u).owner = [memory.owner EXCEPT ![id] = u]
      /\ Created(u).current = [memory.current EXCEPT ![u] = id]
      /\ Created(u).version = [memory.version EXCEPT ![id] = 0]
      /\ Created(u).counter = id
  BY DEF Created, StoreInv, StoreTypeOK, Snapshot
<1>3. /\ [memory.owner EXCEPT ![id] = u] \in [Id -> User \union {Nobody}]
      /\ [memory.current EXCEPT ![u] = id] \in [User -> 0..MaxSession]
      /\ [memory.version EXCEPT ![id] = 0] \in [Id -> 0..MaxVersion]
      /\ id \in 0..MaxSession
  BY <1>1 DEF StoreInv, StoreTypeOK, Snapshot, Id
<1>4. Created(u) \in Snapshot
  BY <1>2, <1>3 DEF Created, StoreInv, StoreTypeOK, Snapshot
<1>5. \A s \in Id \ {id} : Created(u).owner[s] = memory.owner[s]
                          /\ Created(u).version[s] = memory.version[s]
  BY <1>2 DEF StoreInv, StoreTypeOK, Snapshot
<1>6. Created(u).owner[id] = u /\ \A v \in User :
        Created(u).current[v] = IF v = u THEN id ELSE memory.current[v]
  BY <1>1, <1>2 DEF StoreInv, StoreTypeOK, Snapshot
<1>7. memory.counter \in Nat /\ id = memory.counter + 1 /\ Id \subseteq Nat
  BY DEF StoreInv, StoreTypeOK, Snapshot, Id
<1>8. SnapOK(Created(u))
  <2>1. \A s \in Id : Created(u).owner[s] # Nobody => s <= Created(u).counter
    BY <1>2, <1>5, <1>7 DEF StoreInv, SnapOK
  <2>2. \A v \in User : Created(u).current[v] # 0 =>
          Created(u).owner[Created(u).current[v]] = v
    <3>. SUFFICES ASSUME NEW v \in User, v # u, memory.current[v] # 0
                  PROVE  Created(u).owner[memory.current[v]] = v
      BY <1>1, <1>6
    <3>1. memory.owner[memory.current[v]] = v /\ memory.current[v] \in Id
      BY DEF StoreInv, StoreTypeOK, Snapshot, Id, SnapOK
    <3>2. memory.current[v] # id
      BY <1>1, <3>1
    <3>. QED BY <1>5, <3>1, <3>2
  <2>. QED BY <2>1, <2>2 DEF SnapOK
<1>9. OwnersStay(memory, Created(u)) /\ VersionsStay(memory, Created(u))
  BY <1>1, <1>2, <1>5, <1>7 DEF StoreInv, StoreTypeOK, Snapshot, OwnersStay, VersionsStay
<1>. QED BY <1>4, <1>8, <1>9

LEMMA StayIsReflexive ==
  ASSUME NEW snap \in Snapshot PROVE OwnersStay(snap, snap) /\ VersionsStay(snap, snap)
BY DEF Snapshot, Id, OwnersStay, VersionsStay

LEMMA MapChangeKeeps ==
  ASSUME StoreInv,
         \/ \E u \in User : GetOrCreateActive(u) \/ NewSession(u)
         \/ \E u \in User, s \in Id : SwitchSession(u, s)
         \/ SetSessionName
  PROVE  /\ StoreInv'
         /\ file' = file \/ (OwnersStay(Kept, file') /\ VersionsStay(Kept, file'))
<1>. USE DEF StoreInv
<1>1. CASE \E u \in User : GetOrCreateActive(u) \/ NewSession(u)
  <2>. PICK u \in User : GetOrCreateActive(u) \/ NewSession(u)
    BY <1>1
  <2>1. /\ Exclusive /\ memory.counter < MaxSession /\ UNCHANGED writer
        /\ memory' = Created(u) /\ SaveLocked(memory')
    BY DEF GetOrCreateActive, NewSession, SaveLocked
  <2>2. /\ memory' \in Snapshot /\ SnapOK(memory')
        /\ OwnersStay(memory, memory') /\ VersionsStay(memory, memory')
    BY <2>1, CreatedKeeps
  <2>3. StoreInv'
    BY <2>1, <2>2, LockedChangeKeeps
  <2>4. OwnersStay(Kept, memory') /\ VersionsStay(Kept, memory')
    BY <2>2, KeptTypes DEF StoreTypeOK, Snapshot, OwnersStay, VersionsStay
  <2>. QED BY <2>1, <2>2, <2>3, <2>4 DEF SaveLocked
<1>2. CASE \E u \in User, s \in Id : SwitchSession(u, s)
  <2>. PICK u \in User, s \in Id : SwitchSession(u, s)
    BY <1>2
  <2>1. /\ Exclusive /\ memory.owner[s] = u /\ UNCHANGED writer /\ SaveLocked(memory')
        /\ memory'.current = [memory.current EXCEPT ![u] = s]
        /\ memory'.owner = memory.owner /\ memory'.version = memory.version
        /\ memory'.counter = memory.counter
    BY DEF SwitchSession, StoreTypeOK, Snapshot
  <2>2. [memory.current EXCEPT ![u] = s] \in [User -> 0..MaxSession]
    BY DEF StoreTypeOK, Snapshot, Id
  <2>3. memory' \in Snapshot
    BY <2>1, <2>2 DEF SwitchSession, StoreTypeOK, Snapshot
  <2>4. \A v \in User : memory'.current[v] = IF v = u THEN s ELSE memory.current[v]
    BY <2>1 DEF StoreTypeOK, Snapshot
  <2>5. SnapOK(memory')
    BY <2>1, <2>4 DEF SnapOK
  <2>6. OwnersStay(memory, memory') /\ VersionsStay(memory, memory')
    BY <2>1, StayIsReflexive DEF StoreTypeOK, OwnersStay, VersionsStay
  <2>7. StoreInv'
    BY <2>1, <2>3, <2>5, <2>6, LockedChangeKeeps
  <2>8. OwnersStay(Kept, memory') /\ VersionsStay(Kept, memory')
    BY <2>1 DEF OwnersStay, VersionsStay
  <2>. QED BY <2>1, <2>7, <2>8 DEF SaveLocked
<1>3. CASE SetSessionName
  <2>1. /\ Exclusive /\ UNCHANGED writer /\ memory' = memory /\ SaveLocked(memory')
    BY <1>3 DEF SetSessionName, SaveLocked
  <2>2. OwnersStay(memory, memory') /\ VersionsStay(memory, memory')
    BY <2>1, StayIsReflexive DEF StoreTypeOK
  <2>3. StoreInv'
    BY <2>1, <2>2, LockedChangeKeeps DEF StoreTypeOK
  <2>. QED BY <2>1, <2>3 DEF SaveLocked
<1>. QED BY <1>1, <1>2, <1>3

\* A turn changes a Session without any lock of the manager.
LEMMA ChangeKeeps ==
  ASSUME StoreInv, NEW s \in Id, ChangeSession(s)
  PROVE  StoreInv'
<1>. USE DEF StoreInv, ChangeSession
<1>1. /\ memory'.version = [memory.version EXCEPT ![s] = @ + 1]
      /\ memory'.owner = memory.owner /\ memory'.current = memory.current
      /\ memory'.counter = memory.counter
      /\ Kept' = Kept /\ Kept \in Snapshot
  BY EmptyIsSnapshot DEF StoreTypeOK, Snapshot, Kept
<1>2. [memory.version EXCEPT ![s] = @ + 1] \in [Id -> 0..MaxVersion]
  BY DEF StoreTypeOK, Snapshot
<1>3. memory' \in Snapshot
  BY <1>1, <1>2 DEF StoreTypeOK, Snapshot
<1>4. SnapOK(memory') /\ OwnersStay(Kept, memory')
  BY <1>1 DEF SnapOK, OwnersStay
<1>5. \A r \in Id : memory'.version[r] >= memory.version[r] /\ memory'.version[r] \in Nat
                 /\ memory.version[r] \in Nat
  BY <1>1 DEF StoreTypeOK, Snapshot
<1>6. ASSUME NEW snap \in Snapshot, VersionsStay(snap, memory) PROVE VersionsStay(snap, memory')
  BY <1>5, <1>6 DEF Snapshot, VersionsStay
<1>7. \A w \in Writer : writer[w].snap \in Snapshot
  BY DEF StoreTypeOK
<1>8. \A w \in Writer : CopyOK(w)'
  BY <1>1, <1>6, <1>7 DEF CopyOK
<1>9. StoreTypeOK' /\ SnapOK(memory)' /\ SnapOK(file)' /\ OwnersStay(Kept, memory)'
      /\ VersionsStay(Kept, memory)' /\ \A w \in Writer : AloneOK(w)'
  BY <1>1, <1>3, <1>4, <1>6 DEF StoreTypeOK, SnapOK, AloneOK
<1>. QED BY <1>8, <1>9

-----------------------------------------------------------------------------
LEMMA BeginSaveKeeps ==
  ASSUME StoreInv, NEW w \in Writer, BeginSave(w)
  PROVE  StoreInv'
<1>. USE DEF StoreInv, BeginSave
<1>1. /\ writer'[w] = [pc |-> "copy", alone |-> Exclusive, snap |-> memory,
                       todo |-> {s \in Id : memory.owner[s] # Nobody}]
      /\ Kept' = Kept /\ Kept \in Snapshot
  BY EmptyIsSnapshot DEF StoreTypeOK, Kept
<1>2. \A v \in Writer \ {w} :
        /\ writer'[v].pc = writer[v].pc /\ writer'[v].snap = writer[v].snap
        /\ writer'[v].todo = writer[v].todo
        /\ writer'[v].alone = (writer[v].alone /\ writer[v].pc = "idle")
        /\ writer'[v] \in [pc : {"idle", "copy"}, alone : BOOLEAN, todo : SUBSET Id, snap : Snapshot]
  BY DEF StoreTypeOK
<1>3. Exclusive \in BOOLEAN
  BY DEF Exclusive
<1>4. writer'[w] \in [pc : {"idle", "copy"}, alone : BOOLEAN, todo : SUBSET Id, snap : Snapshot]
  BY <1>1, <1>3 DEF StoreTypeOK
<1>5. StoreTypeOK'
  BY <1>2, <1>4 DEF StoreTypeOK
<1>6. \A v \in Writer : CopyOK(v)'
  <2>1. CopyOK(w)'
    BY <1>1, StayIsReflexive DEF StoreTypeOK, CopyOK
  <2>2. ASSUME NEW v \in Writer \ {w} PROVE CopyOK(v)'
    <3>1. writer'[v].pc = writer[v].pc /\ writer'[v].snap = writer[v].snap
      BY <1>2
    <3>2. memory' = memory /\ Kept' = Kept /\ CopyOK(v)
      BY <1>1
    <3>. HIDE DEF StoreInv, BeginSave
    <3>. QED BY <3>1, <3>2, Zenon DEF CopyOK
  <2>. QED BY <2>1, <2>2
<1>7. \A v \in Writer : AloneOK(v)'
  <2>1. AloneOK(w)'
    BY <1>1, <1>2 DEF AloneOK, Exclusive
  <2>2. ASSUME NEW v \in Writer \ {w} PROVE AloneOK(v)'
    BY <1>2, <2>2 DEF AloneOK
  <2>. QED BY <2>1, <2>2
<1>. QED BY <1>1, <1>5, <1>6, <1>7 DEF SnapOK, OwnersStay, VersionsStay

\* Copying one Session changes its version in the copy to the one it has now.
LEMMA CopyVersion ==
  ASSUME NEW old \in Snapshot, NEW mem \in Snapshot, NEW s \in Id,
         NEW new, new = [old EXCEPT !.version[s] = mem.version[s]]
  PROVE  /\ new \in Snapshot
         /\ new.owner = old.owner /\ new.counter = old.counter
         /\ SnapOK(old) => SnapOK(new)
         /\ \A f \in Snapshot :
              /\ OwnersStay(f, old) => OwnersStay(f, new)
              /\ VersionsStay(f, old) /\ VersionsStay(f, mem) => VersionsStay(f, new)
         /\ VersionsStay(old, mem) => VersionsStay(new, mem)
<1>1. /\ new.version = [old.version EXCEPT ![s] = mem.version[s]]
      /\ new.owner = old.owner /\ new.current = old.current /\ new.counter = old.counter
  BY DEF Snapshot
<1>2. [old.version EXCEPT ![s] = mem.version[s]] \in [Id -> 0..MaxVersion]
  BY DEF Snapshot
<1>3. new \in Snapshot
  BY <1>1, <1>2 DEF Snapshot
<1>4. \A r \in Id : new.version[r] = IF r = s THEN mem.version[r] ELSE old.version[r]
  BY <1>1 DEF Snapshot
<1>5. mem.version[s] <= mem.version[s]
  BY DEF Snapshot
<1>. QED BY <1>1, <1>3, <1>4, <1>5 DEF SnapOK, OwnersStay, VersionsStay

LEMMA CopySessionKeeps ==
  ASSUME StoreInv, NEW w \in Writer, NEW s \in Id, CopySession(w, s)
  PROVE  StoreInv'
<1>1. /\ memory' = memory /\ file' = file /\ Kept' = Kept /\ Kept \in Snapshot
      /\ \A v \in Writer \ {w} : writer'[v] = writer[v]
      /\ writer'[w].pc = writer[w].pc /\ writer'[w].alone = writer[w].alone
      /\ writer'[w].todo = writer[w].todo \ {s}
      /\ writer'[w].snap = [writer[w].snap EXCEPT !.version[s] = memory.version[s]]
      /\ writer[w].snap \in Snapshot /\ memory \in Snapshot /\ file \in Snapshot
  BY EmptyIsSnapshot DEF StoreInv, StoreTypeOK, CopySession, Kept
<1>2. /\ writer'[w].snap \in Snapshot
      /\ writer'[w].snap.owner = writer[w].snap.owner
      /\ writer'[w].snap.counter = writer[w].snap.counter
      /\ SnapOK(writer[w].snap) => SnapOK(writer'[w].snap)
      /\ OwnersStay(Kept, writer[w].snap) => OwnersStay(Kept, writer'[w].snap)
      /\ VersionsStay(Kept, writer[w].snap) /\ VersionsStay(Kept, memory) =>
           VersionsStay(Kept, writer'[w].snap)
      /\ VersionsStay(writer[w].snap, memory) => VersionsStay(writer'[w].snap, memory)
  BY <1>1, CopyVersion
<1>3. StoreTypeOK'
  BY <1>1, <1>2 DEF StoreInv, StoreTypeOK, CopySession
<1>4. CopyOK(w)'
  BY <1>1, <1>2 DEF StoreInv, CopyOK
<1>5. AloneOK(w)'
  BY <1>1, <1>2 DEF StoreInv, AloneOK
<1>6. \A v \in Writer \ {w} : CopyOK(v)'
  BY <1>1 DEF StoreInv, CopyOK
<1>7. \A v \in Writer \ {w} : AloneOK(v)'
  BY <1>1 DEF StoreInv, AloneOK
<1>8. SnapOK(memory)' /\ SnapOK(file)' /\ OwnersStay(Kept, memory)' /\ VersionsStay(Kept, memory)'
  BY <1>1 DEF StoreInv
<1>. QED BY <1>3, <1>4, <1>5, <1>6, <1>7, <1>8 DEF StoreInv

\* The file gets the copy, which has all that the file had, in versions no older
\* unless another Save() came in between.
LEMMA WriteSnapshotKeeps ==
  ASSUME StoreInv, NEW w \in Writer, WriteSnapshot(w)
  PROVE  /\ StoreInv'
         /\ file' = file \/ (OwnersStay(Kept, file')
                              /\ (writer[w].alone => VersionsStay(Kept, file')))
<1>1. /\ memory' = memory /\ writer[w].pc = "copy"
      /\ writer[w].snap \in Snapshot /\ memory \in Snapshot /\ file \in Snapshot
      /\ \A v \in Writer \ {w} : writer'[v] = writer[v]
      /\ writer'[w] = NotSaving
  BY DEF StoreInv, StoreTypeOK, WriteSnapshot
<1>9. /\ \/ file' = file /\ Kept' = Kept
         \/ file' = writer[w].snap /\ Kept' = writer[w].snap
      /\ file' \in Snapshot /\ unread' \in BOOLEAN
  BY <1>1, SaveKeeps DEF StoreInv, WriteSnapshot
<1>2. /\ SnapOK(writer[w].snap) /\ OwnersStay(Kept, writer[w].snap)
      /\ writer[w].snap.owner = memory.owner /\ writer[w].snap.counter = memory.counter
      /\ VersionsStay(writer[w].snap, memory)
  BY <1>1 DEF StoreInv, CopyOK
<1>3. StoreTypeOK'
  BY <1>1, <1>9, EmptyIsSnapshot DEF StoreInv, StoreTypeOK, WriteSnapshot, NotSaving
<1>4. OwnersStay(Kept', memory') /\ VersionsStay(Kept', memory') /\ SnapOK(file')
  BY <1>1, <1>2, <1>9, StayIsReflexive DEF StoreInv, OwnersStay
<1>5. ASSUME NEW v \in Writer PROVE CopyOK(v)'
  <2>1. CASE v = w
    BY <1>1, <2>1 DEF NotSaving, CopyOK
  <2>2. CASE v # w
    <3>. SUFFICES ASSUME writer[v].pc = "copy"
                  PROVE  /\ SnapOK(writer[v].snap) /\ OwnersStay(Kept', writer[v].snap)
                         /\ writer[v].snap.owner = memory.owner
                         /\ writer[v].snap.counter = memory.counter
                         /\ VersionsStay(writer[v].snap, memory)
      BY <1>1, <2>2 DEF CopyOK
    <3>. QED BY <1>1, <1>4 DEF StoreInv, CopyOK, OwnersStay
  <2>. QED BY <2>1, <2>2
<1>6. ASSUME NEW v \in Writer PROVE AloneOK(v)'
  <2>1. CASE v = w
    BY <1>1, <2>1 DEF NotSaving, AloneOK
  <2>2. CASE v # w
    <3>1. ~(writer[v].pc = "copy" /\ writer[v].alone)
      BY <1>1, <2>2 DEF StoreInv, AloneOK
    <3>. QED BY <1>1, <2>2, <3>1 DEF AloneOK
  <2>. QED BY <2>1, <2>2
<1>7. StoreInv'
  BY <1>1, <1>3, <1>4, <1>5, <1>6 DEF StoreInv
<1>8. writer[w].alone => VersionsStay(Kept, writer[w].snap)
  BY <1>1 DEF StoreInv, AloneOK
<1>. QED BY <1>2, <1>7, <1>8, <1>9

LEMMA CrashKeeps == ASSUME StoreInv, Crash PROVE StoreInv'
<1>1. /\ file' = file /\ file \in Snapshot /\ Kept' = memory' /\ memory' \in {file, Empty}
      /\ \A w \in Writer : writer'[w] = NotSaving
  BY DEF StoreInv, StoreTypeOK, Crash, Load, Kept
<1>2. StoreTypeOK'
  BY <1>1, EmptyIsSnapshot DEF Crash, StoreTypeOK, NotSaving
<1>3. SnapOK(memory)' /\ SnapOK(file)' /\ OwnersStay(Kept, memory)' /\ VersionsStay(Kept, memory)'
  BY <1>1, EmptyIsSnapshot, StayIsReflexive DEF StoreInv
<1>4. \A w \in Writer : CopyOK(w)' /\ AloneOK(w)'
  BY <1>1 DEF NotSaving, CopyOK, AloneOK
<1>. QED BY <1>2, <1>3, <1>4 DEF StoreInv

\* A step keeps the invariant, and what the file gets holds what it had.
LEMMA NextStore ==
  ASSUME StoreInv, [StoreNext]_storeVars
  PROVE  /\ StoreInv'
         /\ file' = file \/ (OwnersStay(Kept, file')
              /\ (VersionsStay(Kept, file') \/ \E w \in Writer : WriteSnapshot(w) /\ ~writer[w].alone))
<1>1. CASE UNCHANGED storeVars
  BY <1>1 DEF storeVars, StoreInv, StoreTypeOK, CopyOK, AloneOK, Kept
<1>2. CASE \/ \E u \in User : GetOrCreateActive(u) \/ NewSession(u)
           \/ \E u \in User, s \in Id : SwitchSession(u, s)
           \/ SetSessionName
  BY <1>2, MapChangeKeeps
<1>3. CASE \E s \in Id : ChangeSession(s)
  BY <1>3, ChangeKeeps DEF ChangeSession
<1>4. CASE \E w \in Writer : BeginSave(w)
  BY <1>4, BeginSaveKeeps DEF BeginSave
<1>5. CASE \E w \in Writer, s \in Id : CopySession(w, s)
  BY <1>5, CopySessionKeeps DEF CopySession
<1>6. CASE \E w \in Writer : WriteSnapshot(w)
  BY <1>6, WriteSnapshotKeeps
<1>7. CASE Crash
  BY <1>7, CrashKeeps DEF Crash
<1>. QED BY <1>1, <1>2, <1>3, <1>4, <1>5, <1>6, <1>7 DEF StoreNext

\* The inductive invariant of the session manager and its file.
THEOREM StoreInvariance == StoreSpec => []StoreInv
<1>1. StoreInit => StoreInv
  BY InitStore
<1>2. StoreInv /\ [StoreNext]_storeVars => StoreInv'
  BY NextStore
<1>. QED BY <1>1, <1>2, PTL DEF StoreSpec

\* The active session of a user is the user's own, in memory and in the file, also
\* when numbers are given out again after a crash.
THEOREM OwnSession == StoreSpec => []OwnSessionIsActive
<1>1. StoreInv => OwnSessionIsActive
  BY DEF StoreInv, SnapOK, OwnSessionIsActive
<1>. QED BY <1>1, StoreInvariance, PTL

\* A saved session stays in the file with its owner, and the file goes back to an
\* older binding only when two Save() calls overlapped; but the first save after a load
\* that failed replaces the file (session.go load, saveLocked, Save).
THEOREM SavedStay == StoreSpec => SavedVersionsStay
<1>. DEFINE Stays ==
       \A s \in Id : file.owner[s] # Nobody /\ ~unread =>
         /\ file'.owner[s] = file.owner[s]
         /\ file'.version[s] < file.version[s] =>
              \E w \in Writer : WriteSnapshot(w) /\ ~writer[w].alone
<1>1. StoreInv /\ StoreInv' /\ [StoreNext]_storeVars => [Stays]_storeVars
  <2>. SUFFICES ASSUME StoreInv, StoreInv', [StoreNext]_storeVars,
                       NEW s \in Id, file.owner[s] # Nobody, ~unread
                PROVE  /\ file'.owner[s] = file.owner[s]
                       /\ file'.version[s] < file.version[s] =>
                            \E w \in Writer : WriteSnapshot(w) /\ ~writer[w].alone
    OBVIOUS
  <2>1. file.version[s] \in Nat /\ file'.version[s] \in Nat
    BY DEF StoreInv, StoreTypeOK, Snapshot
  <2>2. CASE file' = file
    BY <2>1, <2>2
  <2>3. CASE file' # file
    BY <2>1, <2>3, NextStore DEF OwnersStay, VersionsStay, Kept
  <2>. QED BY <2>2, <2>3
<1>. QED BY <1>1, StoreInvariance, PTL DEF StoreSpec, SavedVersionsStay

-----------------------------------------------------------------------------
(* core/dedup.go: a message that is delivered more than once.

   The table and the memory of what passed agree within the TTL, because a
   message enters both at the same time: only a restart empties one of them. *)

HIDE StoreAssumption
USE InboundAssumption

InboundTypes ==
  /\ clock \in Time /\ startTime \in Time
  /\ sort \in [Message -> Sort \union {Unset}]
  /\ created \in [Message -> Time \union {Unset}]
  /\ passed \in [Message -> Time \union {Unset}]
  /\ seen \in [Message -> Time \union {Unset}]

\* What passed and was not forgotten is in the table, or from before the start.
TableOK(m) ==
  platform \in Deduplicates /\ passed[m] # Unset =>
    /\ passed[m] <= clock /\ clock - passed[m] <= DedupTTL
    /\ seen[m] = passed[m] \/ passed[m] <= startTime

InboundInv == InboundTypes /\ \A m \in Message : TableOK(m)

\* The table keeps the time m was seen first; what is evicted is older than the TTL.
LEMMA LookKeeps ==
  ASSUME InboundInv, NEW m \in Message, Look(m), UNCHANGED clock
  PROVE  /\ seen' \in [Message -> Time \union {Unset}]
         /\ ~Remembered(m) => seen'[m] = clock
         /\ \A o \in Message : Remembered(o) => seen'[o] = seen[o]
<1>1. \A o \in Message : seen'[o] = IF o = m /\ ~Remembered(m) THEN clock
                                    ELSE IF Evicted(o) THEN Unset ELSE seen[o]
  BY DEF Look
<1>2. \A o \in Message : seen'[o] \in Time \union {Unset}
  BY <1>1 DEF InboundInv, InboundTypes
<1>3. seen' \in [Message -> Time \union {Unset}]
  BY <1>2 DEF Look
<1>. QED BY <1>1, <1>3 DEF Remembered

\* What passes is in time and addresses the bot, as far as the platform can tell, and
\* is not in the table.
Passes(m) ==
  /\ sort[m] = "button" \/ created[m] + Grace >= startTime
  /\ sort[m] = "aside" => platform = "feishu" /\ ~knowsSelf
  /\ platform \in Deduplicates => ~Remembered(m) /\ created[m] + Grace >= startTime

\* A handler of m, when it is over.
Handled(m, c, ok) ==
  /\ HandOverIf(ok, m, c) /\ UNCHANGED <<platform, clock, startTime, sort, created>>
  /\ Look(m) \/ (seen' = seen /\ (platform \in Deduplicates => ~ok))
  /\ ok => Passes(m)

Handler(m, c) ==
  \/ FeishuMessage(m, c) \/ DingTalkMessage(m, c) \/ WeComMessage(m, c)
  \/ QQBotGroupMessage(m, c) \/ QQBotC2CMessage(m, c) \/ QQMessage(m, c)
  \/ TelegramMessage(m, c) \/ TelegramButton(m, c)
  \/ DiscordMessage(m, c) \/ DiscordInteraction(m, c)
  \/ SlackMessage(m, c) \/ LineMessage(m, c)

\* Each handler, in its own order of checks.
LEMMA HandlersPass ==
  ASSUME InboundInv, NEW m \in Message, NEW c \in Chat, Handler(m, c)
  PROVE  \E ok \in BOOLEAN : Handled(m, c, ok)
<1>1. UNCHANGED <<platform, clock, startTime, sort, created>> /\ created[m] \in Time
  BY DEF Handler, Arrives, FeishuMessage, DingTalkMessage, WeComMessage, AgeFirst,
         QQBotGroupMessage, QQBotC2CMessage, QQMessage, Untracked, TelegramMessage,
         DiscordMessage, SlackMessage, LineMessage, TelegramButton, DiscordInteraction,
         InboundInv, InboundTypes
<1>2. ~IsOldMessage(m) => created[m] + Grace >= startTime
  BY <1>1 DEF IsOldMessage, Time, InboundInv, InboundTypes
<1>3. CASE FeishuMessage(m, c)
  <2>. DEFINE ok == /\ ~Remembered(m)
                    /\ ~IsOldMessage(m)
                    /\ sort[m] = "aside" => ~knowsSelf
                    /\ sort[m] # "refused"
  <2>1. HandOverIf(ok, m, c) /\ Look(m) /\ platform = "feishu"
    BY <1>3 DEF FeishuMessage, Arrives
  <2>2. ok => Passes(m)
    BY <1>2, <2>1 DEF Passes
  <2>. QED BY <1>1, <2>1, <2>2 DEF Handled
<1>4. CASE DingTalkMessage(m, c) \/ WeComMessage(m, c)
  <2>. DEFINE ok == ~Remembered(m) /\ ~IsOldMessage(m) /\ sort[m] # "refused"
  <2>1. HandOverIf(ok, m, c) /\ Look(m) /\ platform \in {"dingtalk", "wecom"}
    BY <1>4 DEF DingTalkMessage, WeComMessage, Arrives
  <2>2. sort[m] # "aside"
    BY <2>1 DEF InboundInv, InboundTypes, Sort, AsksMention, HasButtons
  <2>3. ok => Passes(m)
    BY <1>2, <2>2 DEF Passes
  <2>. QED BY <1>1, <2>1, <2>3 DEF Handled
<1>5. CASE QQBotGroupMessage(m, c) \/ QQBotC2CMessage(m, c) \/ QQMessage(m, c)
  <2>. DEFINE ok == ~IsOldMessage(m) /\ ~Remembered(m) /\ sort[m] # "refused"
  <2>1. /\ HandOverIf(ok, m, c) /\ platform \in {"qqbot", "qq"}
        /\ IF IsOldMessage(m) THEN UNCHANGED seen ELSE Look(m)
    BY <1>5 DEF QQBotGroupMessage, QQBotC2CMessage, QQMessage, AgeFirst, Arrives
  <2>2. sort[m] # "aside"
    BY <2>1 DEF InboundInv, InboundTypes, Sort, AsksMention, HasButtons
  <2>3. ok => Passes(m)
    BY <1>2, <2>2 DEF Passes
  <2>. QED BY <1>1, <2>1, <2>3 DEF Handled
<1>6. CASE TelegramMessage(m, c) \/ DiscordMessage(m, c) \/ SlackMessage(m, c) \/ LineMessage(m, c)
  <2>. DEFINE ok == ~IsOldMessage(m) /\ sort[m] \notin {"aside", "refused"}
  <2>1. HandOverIf(ok, m, c) /\ seen' = seen /\ platform \in {"telegram", "discord", "slack", "line"}
    BY <1>6 DEF TelegramMessage, DiscordMessage, SlackMessage, LineMessage, Untracked, Arrives
  <2>2. ok => Passes(m)
    BY <1>2, <2>1 DEF Passes, Deduplicates
  <2>. QED BY <1>1, <2>1, <2>2 DEF Handled, Deduplicates
<1>7. CASE TelegramButton(m, c)
  <2>1. HandOverIf(TRUE, m, c) /\ seen' = seen /\ platform = "telegram" /\ sort[m] = "button"
    BY <1>7 DEF TelegramButton, Arrives, HandOverIf
  <2>2. Passes(m)
    BY <2>1 DEF Passes, Deduplicates
  <2>. QED BY <1>1, <2>1, <2>2 DEF Handled, Deduplicates
<1>8. CASE DiscordInteraction(m, c)
  <2>1. /\ \E ok \in BOOLEAN : HandOverIf(ok, m, c)
        /\ seen' = seen /\ platform = "discord" /\ sort[m] = "button"
    BY <1>8 DEF DiscordInteraction, Arrives
  <2>2. Passes(m)
    BY <2>1 DEF Passes, Deduplicates
  <2>. QED BY <1>1, <2>1, <2>2 DEF Handled, Deduplicates
<1>. QED BY <1>3, <1>4, <1>5, <1>6, <1>7, <1>8 DEF Handler

\* A handler keeps the invariant, and what it lets pass did not pass before unless
\* its platform keeps no table or started since.
LEMMA HandlerKeeps ==
  ASSUME InboundInv, NEW m \in Message, NEW c \in Chat, NEW ok \in BOOLEAN, Handled(m, c, ok)
  PROVE  /\ InboundInv'
         /\ \A o \in Message : passed'[o] # passed[o] =>
              o = m /\ Passes(m) /\ (passed[m] = Unset \/ platform \notin Deduplicates
                                       \/ passed[m] <= startTime)
<1>1. /\ seen' \in [Message -> Time \union {Unset}]
      /\ Look(m) /\ ~Remembered(m) => seen'[m] = clock
      /\ \A o \in Message : Remembered(o) => seen'[o] = seen[o]
  <2>1. CASE Look(m)
    BY <2>1, LookKeeps DEF Handled
  <2>2. CASE ~Look(m)
    BY <2>2 DEF Handled, InboundInv, InboundTypes
  <2>. QED BY <2>1, <2>2
<1>2. /\ passed' \in [Message -> Time \union {Unset}]
      /\ \A o \in Message : passed'[o] = IF ok /\ o = m THEN clock ELSE passed[o]
  <2>1. CASE ok
    BY <2>1 DEF Handled, HandOverIf, HandOver, InboundInv, InboundTypes
  <2>2. CASE ~ok
    BY <2>2 DEF Handled, HandOverIf, DropMessage, InboundInv, InboundTypes
  <2>. QED BY <2>1, <2>2
<1>3. clock \in Nat /\ clock - clock <= DedupTTL /\ clock # Unset
  BY DEF InboundInv, InboundTypes, Time
<1>4. \A o \in Message : TableOK(o)
  BY DEF InboundInv
<1>5. ASSUME NEW o \in Message PROVE TableOK(o)'
  <2>1. CASE ok /\ o = m
    BY <1>1, <1>2, <1>3, <2>1 DEF TableOK, Handled, Passes
  <2>2. CASE ~(ok /\ o = m)
    <3>1. passed[o] # Unset /\ seen[o] = passed[o] /\ clock - passed[o] <= DedupTTL => Remembered(o)
      BY DEF Remembered, Evicted, InboundInv, InboundTypes, Time
    <3>. QED BY <1>1, <1>2, <1>4, <2>2, <3>1 DEF TableOK, Handled
  <2>. QED BY <2>1, <2>2
<1>6. InboundInv'
  BY <1>1, <1>2, <1>5 DEF InboundInv, InboundTypes, Handled, Sort
<1>7. platform \in Deduplicates /\ passed[m] # Unset /\ ~Remembered(m) => passed[m] <= startTime
  BY <1>4 DEF TableOK, Remembered, Evicted, InboundInv, InboundTypes, Time
<1>. QED BY <1>2, <1>6, <1>7 DEF Handled, Passes

\* Everything else forgets: the clock what passed before the TTL, a restart the table,
\* and the rest of the way is the limiter's.
LEMMA OthersKeep ==
  ASSUME InboundInv,
         \/ \E m \in Message : Write(m)
         \/ \E m \in Message, c \in Chat : DownloadFails(m, c) \/ Allow(m, c)
         \/ CleanupBuckets \/ Tick \/ Restart
  PROVE  InboundInv' /\ \A o \in Message : passed'[o] \in {Unset, passed[o]}
<1>1. ASSUME NEW m \in Message, Write(m)
      PROVE  InboundInv' /\ \A o \in Message : passed'[o] \in {Unset, passed[o]}
  <2>1. /\ UNCHANGED <<platform, clock, startTime, seen, passed>>
        /\ created' = [created EXCEPT ![m] = clock]
        /\ \E s \in Sort : sort' = [sort EXCEPT ![m] = s]
    BY <1>1 DEF Write
  <2>2. InboundTypes'
    BY <2>1 DEF InboundInv, InboundTypes, Sort
  <2>. QED BY <2>1, <2>2 DEF InboundInv, TableOK
<1>2. CASE (\E m \in Message, c \in Chat : DownloadFails(m, c) \/ Allow(m, c)) \/ CleanupBuckets
  <2>1. UNCHANGED <<platform, clock, startTime, sort, created, seen, passed>>
    BY <1>2 DEF DownloadFails, Allow, CleanupBuckets
  <2>. QED BY <2>1 DEF InboundInv, InboundTypes, TableOK, Sort
<1>3. CASE Tick
  <2>1. /\ clock' = clock + 1 /\ clock' \in Time
        /\ passed' = [m \in Message |-> IF passed[m] # Unset /\ clock' - passed[m] > DedupTTL
                                        THEN Unset ELSE passed[m]]
        /\ UNCHANGED <<platform, startTime, sort, created, seen>>
    BY <1>3 DEF Tick, InboundInv, InboundTypes, Time
  <2>2. /\ passed' \in [Message -> Time \union {Unset}]
        /\ \A o \in Message : \/ passed'[o] = Unset
                              \/ passed'[o] = passed[o] /\ clock' - passed[o] <= DedupTTL
    BY <2>1 DEF InboundInv, InboundTypes, Time
  <2>3. InboundTypes'
    BY <2>1, <2>2 DEF InboundInv, InboundTypes, Sort
  <2>4. ASSUME NEW o \in Message PROVE TableOK(o)'
    <3>1. TableOK(o) /\ passed[o] \in Time \union {Unset} /\ clock \in Nat
      BY DEF InboundInv, InboundTypes, Time
    <3>. QED BY <2>1, <2>2, <3>1 DEF TableOK, Time
  <2>. QED BY <2>2, <2>3, <2>4 DEF InboundInv
<1>4. CASE Restart
  <2>1. /\ startTime' = clock /\ seen' = [m \in Message |-> Unset]
        /\ UNCHANGED <<platform, clock, sort, created, passed>>
    BY <1>4 DEF Restart
  <2>2. InboundTypes'
    BY <2>1 DEF InboundInv, InboundTypes, Sort
  <2>3. \A o \in Message : TableOK(o)'
    BY <2>1 DEF InboundInv, InboundTypes, TableOK, Time
  <2>. QED BY <2>1, <2>2, <2>3 DEF InboundInv
<1>. QED BY <1>1, <1>2, <1>3, <1>4

\* The steps are those of the handlers, and the others.
LEMMA InboundSteps ==
  InboundNext <=>
    \/ \E m \in Message, c \in Chat : Handler(m, c)
    \/ \E m \in Message : Write(m)
    \/ \E m \in Message, c \in Chat : DownloadFails(m, c) \/ Allow(m, c)
    \/ CleanupBuckets \/ Tick \/ Restart
BY DEF InboundNext, Handler

THEOREM InboundInvariance == InboundSpec => []InboundInv
<1>1. InboundInit => InboundInv
  BY DEF InboundInit, InboundInv, InboundTypes, TableOK, Time
<1>2. InboundInv /\ [InboundNext]_inboundVars => InboundInv'
  <2>1. InboundInv /\ UNCHANGED inboundVars => InboundInv'
    BY DEF inboundVars, InboundInv, InboundTypes, TableOK, Sort
  <2>. QED BY <2>1, InboundSteps, HandlersPass, HandlerKeeps, OthersKeep
<1>. QED BY <1>1, <1>2, PTL DEF InboundSpec

\* A message passes when it is in time and addresses the bot, and once, for any number
\* of deliveries, TTL and grace period: unless no table is kept, the TTL is over, or
\* the program started after it had passed.
THEOREM PassesOnce == InboundSpec => NoRepeat
<1>1. InboundInv /\ [InboundNext]_inboundVars =>
        [\A m \in Message : passed'[m] \notin {Unset, passed[m]} =>
           /\ sort[m] = "button" \/ created[m] + Grace >= startTime
           /\ sort[m] = "aside" => platform = "feishu" /\ ~knowsSelf
           /\ \/ passed[m] = Unset
              \/ platform \notin Deduplicates
              \/ passed[m] <= startTime /\ created[m] + Grace >= startTime]_inboundVars
  <2>. SUFFICES ASSUME InboundInv, InboundNext, NEW m \in Message,
                       passed'[m] \notin {Unset, passed[m]}
                PROVE  /\ sort[m] = "button" \/ created[m] + Grace >= startTime
                       /\ sort[m] = "aside" => platform = "feishu" /\ ~knowsSelf
                       /\ \/ passed[m] = Unset
                          \/ platform \notin Deduplicates
                          \/ passed[m] <= startTime /\ created[m] + Grace >= startTime
    OBVIOUS
  <2>1. PICK o \in Message, c \in Chat : Handler(o, c)
    BY InboundSteps, OthersKeep
  <2>2. PICK ok \in BOOLEAN : Handled(o, c, ok)
    BY <2>1, HandlersPass
  <2>. QED BY <2>2, HandlerKeeps DEF Passes
<1>. QED BY <1>1, InboundInvariance, PTL DEF InboundSpec, NoRepeat

-----------------------------------------------------------------------------
(* core/ratelimit.go: the limiter.

   What it keeps of a chat and what it let through agree in the window that
   ends now: what it dropped, or lost with the bucket, has left the window. *)

InWindow == {ts \in Time : ts + Window > clock}

Bucket == [stamps : Seq(Time), access : Time \union {Unset}]

LimiterOK(c) ==
  /\ bucket[c].access # Unset => bucket[c].access <= clock
  /\ \A i \in DOMAIN bucket[c].stamps :
       bucket[c].access # Unset /\ bucket[c].stamps[i] <= bucket[c].access
  /\ \A i \in DOMAIN admitted[c] : admitted[c][i] <= clock
  /\ Window # 0 => \A i \in DOMAIN admitted[c] : admitted[c][i] \in InWindow
  /\ Filtered(bucket[c].stamps, InWindow) = Filtered(admitted[c], InWindow)

LimiterInv ==
  /\ clock \in Time /\ bucket \in [Chat -> Bucket] /\ admitted \in [Chat -> Seq(Time)]
  /\ \A c \in Chat : LimiterOK(c)

\* The limiter looks at as many messages as it let through in the last window.
LEMMA KeptAreAdmitted ==
  ASSUME LimiterInv, NEW c \in Chat
  PROVE  Len(Recent(bucket[c].stamps, clock)) = Cardinality(InLastWindow(c))
<1>. DEFINE a == admitted[c]
            kept == Recent(bucket[c].stamps, clock)
<1>1. /\ LimiterOK(c) /\ a \in Seq(Time) /\ clock \in Nat
      /\ kept = Filtered(a, InWindow)
  <2>1. kept = Filtered(bucket[c].stamps, InWindow)
    BY DEF Recent, InWindow
  <2>2. Filtered(bucket[c].stamps, InWindow) = Filtered(a, InWindow)
    BY DEF LimiterInv, LimiterOK
  <2>. QED BY <2>1, <2>2 DEF LimiterInv, Time
<1>2. Len(a) \in Nat /\ DOMAIN a = 1..Len(a) /\ \A i \in DOMAIN a : a[i] \in Time /\ a[i] <= clock
  BY <1>1, LenProperties, ElementOfSeq DEF LimiterOK
<1>3. CASE Window # 0
  <2>1. \A i \in DOMAIN a : a[i] \in InWindow
    BY <1>1, <1>3 DEF LimiterOK
  <2>2. kept = a
    BY <1>1, <2>1, FilteredAll
  <2>3. InLastWindow(c) = 1..Len(a)
    BY <1>2, <2>1 DEF InLastWindow, InWindow
  <2>4. Cardinality(1..Len(a)) = Len(a)
    BY <1>2, FS_Interval
  <2>. QED BY <2>2, <2>3, <2>4
<1>4. CASE Window = 0
  <2>1. \A i \in DOMAIN a : a[i] \notin InWindow
    BY <1>1, <1>2, <1>4 DEF InWindow, Time
  <2>2. kept = <<>>
    BY <1>1, <2>1, FilteredNone
  <2>3. InLastWindow(c) = {}
    BY <1>1, <1>2, <1>4 DEF InLastWindow, Time
  <2>. QED BY <2>2, <2>3, FS_EmptySet, EmptySeq
<1>. QED BY <1>3, <1>4

\* What is kept of a list was in it; what is added is in it at the end.
Within(s, P) == \A i \in DOMAIN s : s[i] \in P

LEMMA KeptWithin ==
  ASSUME NEW s \in Seq(Time), NEW W, NEW P, Within(s, P)
  PROVE  Within(Filtered(s, W), W) /\ Within(Filtered(s, W), P)
BY FilteredItems DEF Keeps, Within

LEMMA AddedWithin ==
  ASSUME NEW s \in Seq(Time), NEW t \in Time, NEW P, Within(s, P), t \in P
  PROVE  Within(Append(s, t), P)
BY AppendItems DEF Within

\* Allow drops what left the window and adds the message in both lists, or in none.
LEMMA AllowKeeps ==
  ASSUME LimiterInv, NEW m \in Message, NEW c \in Chat, Allow(m, c)
  PROVE  /\ LimiterInv'
         /\ Len(admitted'[c]) > Len(admitted[c])
              <=> Len(Recent(bucket[c].stamps, clock)) < MaxMessages
<1>. DEFINE ok == Len(Recent(bucket[c].stamps, clock)) < MaxMessages
<1>1. PICK W, P : W = InWindow /\ P = {t \in Time : t <= clock}
  OBVIOUS
<1>2. PICK s \in Seq(Time), a \in Seq(Time), kept \in Seq(Time) :
        /\ s = bucket[c].stamps /\ a = admitted[c]
        /\ kept = Recent(s, clock) /\ kept = Filtered(s, W) /\ kept = Filtered(a, W)
  <2>1. bucket[c].stamps \in Seq(Time) /\ admitted[c] \in Seq(Time)
    BY DEF LimiterInv, Bucket
  <2>2. Filtered(bucket[c].stamps, W) \in Seq(Time)
    BY <2>1, FilteredItems
  <2>3. Recent(bucket[c].stamps, clock) = Filtered(bucket[c].stamps, W)
    BY <1>1 DEF Recent, InWindow
  <2>4. Filtered(bucket[c].stamps, W) = Filtered(admitted[c], W)
    BY <1>1 DEF LimiterInv, LimiterOK
  <2>. QED BY <2>1, <2>2, <2>3, <2>4, Zenon
<1>3. /\ clock \in Time /\ clock' = clock /\ InWindow' = W
      /\ bucket' = [bucket EXCEPT ![c] = [stamps |-> IF ok THEN Append(kept, clock) ELSE kept,
                                          access |-> clock]]
      /\ admitted' = IF ok THEN [admitted EXCEPT ![c] = Append(a, clock)] ELSE admitted
      /\ bucket \in [Chat -> Bucket] /\ admitted \in [Chat -> Seq(Time)]
  BY <1>1, <1>2 DEF Allow, LimiterInv, InWindow
<1>. HIDE DEF ok
<1>4. PICK new \in Seq(Time), let \in Seq(Time) :
        /\ bucket' = [bucket EXCEPT ![c] = [stamps |-> new, access |-> clock]]
        /\ admitted' = [admitted EXCEPT ![c] = let]
        /\ ok => new = Append(kept, clock) /\ let = Append(a, clock)
        /\ ~ok => new = kept /\ let = a
  <2>1. CASE ok
    <3>1. Append(kept, clock) \in Seq(Time) /\ Append(a, clock) \in Seq(Time)
      BY <1>3, AppendProperties
    <3>. QED BY <1>3, <2>1, <3>1
  <2>2. CASE ~ok
    <3>1. admitted' = [admitted EXCEPT ![c] = a]
      BY <1>2, <1>3, <2>2
    <3>. QED BY <1>3, <2>2, <3>1
  <2>. QED BY <2>1, <2>2
<1>5. /\ bucket' \in [Chat -> Bucket] /\ admitted' \in [Chat -> Seq(Time)]
      /\ bucket'[c].stamps = new /\ bucket'[c].access = clock /\ admitted'[c] = let
      /\ \A d \in Chat \ {c} : bucket'[d] = bucket[d] /\ admitted'[d] = admitted[d]
  BY <1>3, <1>4 DEF Bucket
<1>6. ASSUME NEW d \in Chat \ {c} PROVE LimiterOK(d)'
  BY <1>1, <1>3, <1>5 DEF LimiterInv, LimiterOK
<1>7. Filtered(kept, W) = kept
  <2>1. Within(kept, W)
    BY <1>2, KeptWithin DEF Within
  <2>. QED BY <2>1, FilteredAll DEF Within
<1>8. Filtered(new, W) = Filtered(let, W)
  <2>1. \A x \in Seq(Time), y \in Time :
          Filtered(Append(x, y), W) = IF y \in W THEN Append(Filtered(x, W), y) ELSE Filtered(x, W)
    BY FilteredAppend
  <2>2. CASE ok
    <3>1. new = Append(kept, clock) /\ let = Append(a, clock)
      BY <1>4, <2>2
    <3>2. /\ Filtered(new, W) = IF clock \in W THEN Append(Filtered(kept, W), clock) ELSE Filtered(kept, W)
          /\ Filtered(let, W) = IF clock \in W THEN Append(Filtered(a, W), clock) ELSE Filtered(a, W)
      BY <1>3, <2>1, <3>1
    <3>3. Filtered(kept, W) = kept /\ Filtered(a, W) = kept
      BY <1>2, <1>7
    <3>. QED BY <3>2, <3>3
  <2>. QED BY <1>2, <1>4, <1>7, <2>2
<1>9. Within(s, P)
  <2>1. \A i \in DOMAIN s : s[i] \in Time
    BY ElementOfSeq
  <2>2. bucket[c].access \in Time \union {Unset}
    BY <1>3 DEF Bucket
  <2>3. LimiterOK(c)
    BY DEF LimiterInv
  <2>. QED BY <1>1, <1>2, <1>3, <2>1, <2>2, <2>3 DEF LimiterOK, Time, Within
<1>10. Within(kept, P)
  <2>1. Within(Filtered(s, W), P)
    BY <1>9, KeptWithin
  <2>. QED BY <1>2, <2>1
<1>11. Within(new, P)
  <2>1. clock \in P
    BY <1>1, <1>3 DEF Time
  <2>2. Within(Append(kept, clock), P)
    BY <1>3, <1>10, <2>1, AddedWithin
  <2>. QED BY <1>4, <1>10, <2>2
<1>12. Within(a, P) /\ (Window # 0 => Within(a, W))
  <2>1. LimiterOK(c) /\ \A i \in DOMAIN a : a[i] \in Time
    BY ElementOfSeq DEF LimiterInv
  <2>. QED BY <1>1, <1>2, <1>3, <2>1 DEF LimiterOK, Within, Time
<1>13. clock \in P /\ (Window # 0 => clock \in W)
  BY <1>1, <1>3 DEF InWindow, Time
<1>14. Within(let, P) /\ (Window # 0 => Within(let, W))
  <2>1. Within(Append(a, clock), P) /\ (Window # 0 => Within(Append(a, clock), W))
    BY <1>3, <1>12, <1>13, AddedWithin
  <2>. QED BY <1>4, <1>12, <2>1
<1>15. LimiterOK(c)'
  <2>1. clock # Unset /\ clock <= clock
    BY <1>3 DEF Time
  <2>. QED BY <1>1, <1>3, <1>5, <1>8, <1>11, <1>14, <2>1 DEF LimiterOK, Within
<1>16. Len(let) > Len(a) <=> ok
  BY <1>2, <1>4, AppendProperties, LenProperties
<1>. QED BY <1>2, <1>3, <1>5, <1>6, <1>15, <1>16 DEF LimiterInv, ok

\* What the cleanup throws away has left the window.
LEMMA CleanupKeeps == ASSUME LimiterInv, CleanupBuckets PROVE LimiterInv'
<1>1. /\ bucket' = [c \in Chat |-> IF Stale(c) THEN NoBucket ELSE bucket[c]]
      /\ UNCHANGED <<clock, admitted>> /\ clock \in Nat
      /\ bucket \in [Chat -> Bucket] /\ admitted \in [Chat -> Seq(Time)]
  BY DEF CleanupBuckets, LimiterInv, Time
<1>2. NoBucket \in Bucket /\ NoBucket.stamps = <<>> /\ NoBucket.access = Unset
  BY EmptySeq DEF NoBucket, Bucket
<1>3. bucket' \in [Chat -> Bucket] /\ \A c \in Chat : bucket'[c] = IF Stale(c) THEN NoBucket ELSE bucket[c]
  BY <1>1, <1>2
<1>4. InWindow' = InWindow
  BY <1>1 DEF InWindow
<1>5. ASSUME NEW c \in Chat PROVE LimiterOK(c)'
  <2>1. LimiterOK(c) /\ bucket[c] \in Bucket
    BY <1>1 DEF LimiterInv
  <2>2. CASE ~Stale(c)
    BY <1>1, <1>3, <1>4, <2>1, <2>2 DEF LimiterOK
  <2>3. CASE Stale(c)
    <3>1. PICK s \in Seq(Time) : s = bucket[c].stamps
      BY <2>1 DEF Bucket
    <3>2. \A i \in DOMAIN s : s[i] \in Time /\ s[i] <= bucket[c].access
      BY <2>1, <3>1, ElementOfSeq DEF LimiterOK
    <3>3. bucket[c].access \in Nat /\ clock - bucket[c].access > Window * 2
      BY <2>1, <2>3 DEF Stale, Bucket, Time
    <3>4. \A i \in DOMAIN s : s[i] \notin InWindow
      BY <1>1, <3>2, <3>3 DEF InWindow, Time
    <3>5. Filtered(s, InWindow) = <<>>
      BY <3>4, FilteredNone
    <3>6. <<>> \in Seq(Time) /\ DOMAIN <<>> = {}
      BY EmptySeq
    <3>7. Filtered(<<>>, InWindow) = <<>>
      BY <3>6, FilteredNone, Zenon
    <3>. QED BY <1>1, <1>2, <1>3, <1>4, <2>1, <2>3, <3>1, <3>5, <3>6, <3>7 DEF LimiterOK
  <2>. QED BY <2>2, <2>3
<1>. QED BY <1>1, <1>3, <1>5 DEF LimiterInv

\* When the window moves, both lose the same.
LEMMA TickKeepsLimiter == ASSUME LimiterInv, Tick PROVE LimiterInv'
<1>1. /\ clock \in Nat /\ clock' = clock + 1 /\ clock' \in Time /\ bucket' = bucket
      /\ bucket \in [Chat -> Bucket] /\ admitted \in [Chat -> Seq(Time)]
  BY DEF Tick, LimiterInv, Time
<1>2. PICK W, V : W = InWindow /\ V = InWindow' /\ W \intersect V = V /\ V \intersect V = V
  <2>1. InWindow \intersect InWindow' = InWindow'
    BY <1>1 DEF InWindow, Time
  <2>. QED BY <2>1
<1>3. admitted' = [c \in Chat |-> Filtered(admitted[c], V)]
  BY <1>2 DEF Tick, Recent, InWindow
<1>4. ASSUME NEW c \in Chat PROVE LimiterOK(c)' /\ admitted'[c] \in Seq(Time)
  <2>1. LimiterOK(c) /\ bucket[c] \in Bucket
    BY <1>1 DEF LimiterInv
  <2>2. PICK s \in Seq(Time), a \in Seq(Time), b \in Seq(Time) :
          s = bucket[c].stamps /\ a = admitted[c] /\ b = Filtered(a, V) /\ b = admitted'[c]
    <3>1. bucket[c].stamps \in Seq(Time) /\ admitted[c] \in Seq(Time)
      BY <1>1, <2>1 DEF Bucket
    <3>2. Filtered(admitted[c], V) \in Seq(Time)
      BY <3>1, FilteredItems
    <3>3. admitted'[c] = Filtered(admitted[c], V)
      BY <1>3
    <3>. QED BY <3>1, <3>2, <3>3, Zenon
  <2>3. Filtered(s, W) = Filtered(a, W)
    BY <1>2, <2>1, <2>2 DEF LimiterOK
  <2>4. /\ Filtered(Filtered(s, W), V) = Filtered(s, V)
        /\ Filtered(Filtered(a, W), V) = Filtered(a, V)
        /\ Filtered(Filtered(a, V), V) = Filtered(a, V)
    BY <1>2, FilteredTwice
  <2>5. Filtered(s, V) = Filtered(b, V)
    BY <2>2, <2>3, <2>4
  <2>6. PICK P : P = {t \in Time : t <= clock}
    OBVIOUS
  <2>7. \A i \in DOMAIN b : b[i] \in V /\ b[i] <= clock'
    <3>1. \A i \in DOMAIN a : a[i] \in Time /\ a[i] <= clock
      BY <2>1, <2>2, ElementOfSeq DEF LimiterOK
    <3>2. Within(a, P)
      BY <2>6, <3>1 DEF Within
    <3>3. Within(b, V) /\ Within(b, P)
      <4>1. Within(Filtered(a, V), V) /\ Within(Filtered(a, V), P)
        BY <3>2, KeptWithin
      <4>. QED BY <2>2, <4>1
    <3>. QED BY <1>1, <2>6, <3>3 DEF Within, Time
  <2>8. bucket[c].access # Unset => bucket[c].access <= clock'
    BY <1>1, <2>1 DEF LimiterOK, Bucket, Time
  <2>. QED BY <1>1, <1>2, <2>1, <2>2, <2>5, <2>7, <2>8 DEF LimiterOK
<1>5. admitted' \in [Chat -> Seq(Time)]
  BY <1>3, <1>4
<1>. QED BY <1>1, <1>4, <1>5 DEF LimiterInv

\* Nothing is kept and nothing was let through.
LEMMA NothingKept ==
  ASSUME clock \in Time, bucket = [c \in Chat |-> NoBucket], admitted = [c \in Chat |-> <<>>]
  PROVE  LimiterInv
<1>1. <<>> \in Seq(Time) /\ DOMAIN <<>> = {}
  BY EmptySeq
<1>2. NoBucket \in Bucket /\ NoBucket.stamps = <<>> /\ NoBucket.access = Unset
  BY <1>1 DEF NoBucket, Bucket
<1>. QED BY <1>1, <1>2 DEF LimiterInv, LimiterOK

LEMMA LimiterStep ==
  LimiterInv /\ [InboundNext]_inboundVars => LimiterInv'
<1>. SUFFICES ASSUME LimiterInv, [InboundNext]_inboundVars PROVE LimiterInv'
  OBVIOUS
<1>1. CASE UNCHANGED <<clock, bucket, admitted>>
  BY <1>1 DEF LimiterInv, LimiterOK, InWindow
<1>2. ASSUME NEW m \in Message, NEW c \in Chat, Handler(m, c)
      PROVE  UNCHANGED <<clock, bucket, admitted>>
  BY <1>2 DEF Handler, Arrives, FeishuMessage, DingTalkMessage, WeComMessage, AgeFirst,
         QQBotGroupMessage, QQBotC2CMessage, QQMessage, Untracked, TelegramMessage,
         DiscordMessage, SlackMessage, LineMessage, TelegramButton, DiscordInteraction
<1>3. ASSUME \/ \E m \in Message : Write(m)
             \/ \E m \in Message, c \in Chat : DownloadFails(m, c)
      PROVE  UNCHANGED <<clock, bucket, admitted>>
  BY <1>3 DEF Write, DownloadFails
<1>4. CASE Restart
  <2>1. /\ clock' \in Time /\ bucket' = [c \in Chat |-> NoBucket]
        /\ admitted' = [c \in Chat |-> <<>>]
    BY <1>4 DEF Restart, LimiterInv
  <2>2. (clock \in Time /\ bucket = [c \in Chat |-> NoBucket] /\ admitted = [c \in Chat |-> <<>>]
           => LimiterInv)'
    BY NothingKept, PTL
  <2>. QED BY <2>1, <2>2
<1>5. ASSUME UNCHANGED inboundVars PROVE UNCHANGED <<clock, bucket, admitted>>
  BY <1>5 DEF inboundVars
<1>. QED BY <1>1, <1>2, <1>3, <1>4, <1>5, InboundSteps, AllowKeeps, CleanupKeeps, TickKeepsLimiter

\* For any limit and window: the limiter lets a message through if and only if fewer
\* than MaxMessages of its chat went through in the last window (RateLimiter.Allow and
\* cleanupLoop).
THEOREM ExactWindow == InboundSpec => LimiterIsExact
<1>1. InboundInit => LimiterInv
  BY NothingKept DEF InboundInit, Time
<1>2. LimiterInv /\ [InboundNext]_inboundVars => LimiterInv'
  BY LimiterStep
<1>3. LimiterInv =>
        [\A m \in Message, c \in Chat : Allow(m, c) =>
           (Len(admitted'[c]) > Len(admitted[c])
              <=> Cardinality(InLastWindow(c)) < MaxMessages)]_inboundVars
  BY AllowKeeps, KeptAreAdmitted
<1>. QED BY <1>1, <1>2, <1>3, PTL DEF InboundSpec, LimiterIsExact

\* A bucket holds at most MaxMessages timestamps: Allow puts one only into a list that
\* is shorter, and the loop makes no list longer.
BucketsBounded == \A c \in Chat : Len(bucket[c].stamps) <= MaxMessages

LEMMA BucketsStayBounded ==
  ASSUME LimiterInv, BucketsBounded, [InboundNext]_inboundVars PROVE BucketsBounded'
<1>1. CASE bucket' = bucket
  BY <1>1 DEF BucketsBounded
<1>2. ASSUME NEW m \in Message, NEW c \in Chat, Handler(m, c)
      PROVE  bucket' = bucket
  BY <1>2 DEF Handler, Arrives, FeishuMessage, DingTalkMessage, WeComMessage, AgeFirst,
         QQBotGroupMessage, QQBotC2CMessage, QQMessage, Untracked, TelegramMessage,
         DiscordMessage, SlackMessage, LineMessage, TelegramButton, DiscordInteraction
<1>3. ASSUME (\E m \in Message : Write(m)) \/ Tick \/ UNCHANGED inboundVars
             \/ \E m \in Message, c \in Chat : DownloadFails(m, c)
      PROVE  bucket' = bucket
  BY <1>3 DEF Write, DownloadFails, Tick, inboundVars
<1>4. Len(NoBucket.stamps) = 0 /\ 0 <= MaxMessages
  BY EmptySeq DEF NoBucket
<1>5. CASE Restart
  BY <1>4, <1>5 DEF Restart, BucketsBounded
<1>6. CASE CleanupBuckets
  BY <1>4, <1>6 DEF CleanupBuckets, BucketsBounded
<1>7. ASSUME NEW m \in Message, NEW c \in Chat, Allow(m, c) PROVE BucketsBounded'
  <2>1. bucket[c].stamps \in Seq(Time) /\ clock \in Time /\ bucket \in [Chat -> Bucket]
    BY DEF LimiterInv, Bucket
  <2>2. PICK kept \in Seq(Time) : kept = Recent(bucket[c].stamps, clock)
    BY <2>1, FilteredItems DEF Recent
  <2>3. Len(kept) \in Nat /\ Len(Append(kept, clock)) = Len(kept) + 1
    BY <2>1, AppendProperties, LenProperties
  <2>4. Len(kept) <= Len(bucket[c].stamps) /\ Len(bucket[c].stamps) \in Nat
    BY <2>1, <2>2, FilteredLength, LenProperties DEF Recent
  <2>5. Len(bucket[c].stamps) <= MaxMessages
    BY DEF BucketsBounded
  <2>6. bucket' = [bucket EXCEPT ![c] =
                     [stamps |-> IF Len(kept) < MaxMessages THEN Append(kept, clock) ELSE kept,
                      access |-> clock]]
    BY <1>7, <2>2 DEF Allow
  <2>7. Len(bucket'[c].stamps) <= MaxMessages
    BY <2>1, <2>3, <2>4, <2>5, <2>6
  <2>8. \A d \in Chat \ {c} : bucket'[d] = bucket[d]
    BY <2>1, <2>6
  <2>. QED BY <2>7, <2>8 DEF BucketsBounded
<1>. QED BY <1>1, <1>2, <1>3, <1>5, <1>6, <1>7, InboundSteps

\* What neither the table nor the limiter is about.
GateOK == platform \in Platform /\ knowsSelf \in BOOLEAN /\ gate \subseteq Message \X Chat

LEMMA GateStep == GateOK /\ [InboundNext]_inboundVars => GateOK'
<1>. SUFFICES ASSUME GateOK, [InboundNext]_inboundVars PROVE GateOK'
  OBVIOUS
<1>1. ASSUME NEW m \in Message, NEW c \in Chat, Handler(m, c) PROVE GateOK'
  <2>1. UNCHANGED <<platform, knowsSelf>>
    BY <1>1 DEF Handler, Arrives, FeishuMessage, DingTalkMessage, WeComMessage, AgeFirst,
         QQBotGroupMessage, QQBotC2CMessage, QQMessage, Untracked, TelegramMessage,
         DiscordMessage, SlackMessage, LineMessage, TelegramButton, DiscordInteraction
  <2>2. gate' = gate \/ gate' = gate \union {<<m, c>>}
    BY <1>1, Zenon DEF Handler, FeishuMessage, DingTalkMessage, WeComMessage, AgeFirst,
         QQBotGroupMessage, QQBotC2CMessage, QQMessage, Untracked, TelegramMessage,
         DiscordMessage, SlackMessage, LineMessage, TelegramButton, DiscordInteraction,
         HandOverIf, HandOver, DropMessage
  <2>. QED BY <2>1, <2>2 DEF GateOK
<1>2. CASE (\E m \in Message : Write(m)) \/ Tick \/ CleanupBuckets \/ UNCHANGED inboundVars
  BY <1>2 DEF Write, Tick, CleanupBuckets, inboundVars, GateOK
<1>3. ASSUME NEW m \in Message, NEW c \in Chat, DownloadFails(m, c) \/ Allow(m, c) PROVE GateOK'
  BY <1>3 DEF DownloadFails, Allow, GateOK
<1>4. CASE Restart
  BY <1>4 DEF Restart, GateOK
<1>. QED BY <1>1, <1>2, <1>3, <1>4, InboundSteps

\* The state of the way in stays well formed (the handlers of the platforms,
\* core/dedup.go, core/ratelimit.go): no bucket ever holds more than MaxMessages
\* timestamps, for any limit, window and number of messages.
THEOREM InboundTypeCorrect == InboundSpec => []InboundTypeOK
<1>1. InboundInit => LimiterInv /\ BucketsBounded /\ GateOK
  <2>1. InboundInit => LimiterInv
    BY NothingKept DEF InboundInit, Time
  <2>2. InboundInit => BucketsBounded
    BY EmptySeq DEF InboundInit, BucketsBounded, NoBucket
  <2>3. InboundInit => GateOK
    BY DEF InboundInit, GateOK
  <2>. QED BY <2>1, <2>2, <2>3
<1>2. LimiterInv /\ BucketsBounded /\ GateOK /\ [InboundNext]_inboundVars
        => LimiterInv' /\ BucketsBounded' /\ GateOK'
  BY LimiterStep, BucketsStayBounded, GateStep
<1>3. InboundInv /\ LimiterInv /\ BucketsBounded /\ GateOK => InboundTypeOK
  BY DEF InboundInv, InboundTypes, LimiterInv, Bucket, BucketsBounded, GateOK, InboundTypeOK
<1>. QED BY <1>1, <1>2, <1>3, InboundInvariance, PTL DEF InboundSpec

-----------------------------------------------------------------------------
(* The services next to each other.

   A behaviour of the instance is one of a single part, so each of its parts keeps
   what it keeps alone. *)

HIDE InboundAssumption

\* A behaviour of the union is one of each part: of one it takes the steps, and the
\* others stand still.
LEMMA PartSpecs ==
  Spec => PreviewSpec /\ StoreSpec /\ InboundSpec /\ PromptSpec /\ ClaudeSpec
<1>1. Init => PreviewInit /\ StoreInit /\ InboundInit /\ PromptInit /\ ClaudeInit
  BY Zenon DEF Init
<1>2. [Next]_servicesVars =>
        /\ [PreviewNext]_previewVars /\ [StoreNext]_storeVars /\ [InboundNext]_inboundVars
        /\ [PromptNext]_promptVars /\ [ClaudeNext]_claudeVars
  BY Zenon DEF Next, servicesVars
<1>. QED BY <1>1, <1>2, PTL DEF Spec, PreviewSpec, StoreSpec, InboundSpec, PromptSpec, ClaudeSpec

\* The state of every service stays well formed, for any sizes of the instance
\* (streaming.go, session.go, the way of a message in, the sessions of the agents).
THEOREM ServicesTypeCorrect == Spec => []ServicesTypeOK
<1>. DEFINE PartOK == part \in {"preview", "store", "inbound", "prompt", "claude"}
<1>1. Init => PartOK
  BY DEF Init
<1>2. PartOK /\ [Next]_servicesVars => PartOK'
  BY DEF Next, servicesVars
<1>3. Spec => []PartOK
  BY <1>1, <1>2, PTL DEF Spec
<1>4. StoreInv => StoreTypeOK
  BY DEF StoreInv
<1>5. PartOK /\ PreviewTypeOK /\ StoreTypeOK /\ InboundTypeOK /\ PromptTypeOK /\ ClaudeTypeOK
        => ServicesTypeOK
  BY DEF ServicesTypeOK
<1>. QED BY <1>3, <1>4, <1>5, PartSpecs, PreviewTypeCorrect, StoreInvariance, InboundTypeCorrect,
            PromptTypeCorrect, ClaudeTypeCorrect, PTL

\* Whatever service the behaviour is one of, the sessions of the agents keep the promises
\* of AgentSession (session.go of codex, cursor, gemini, opencode, qoder and claudecode):
\* AgentsKeepContract.
THEOREM AgentsAreSessions == Spec => AgentsKeepContract
BY PartSpecs, PromptIsAgentSession, ClaudeIsAgentSession, PTL DEF AgentsKeepContract
=============================================================================
