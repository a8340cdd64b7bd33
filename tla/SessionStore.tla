---------------------------- MODULE SessionStore ----------------------------
(***************************************************************************)
(* core/session.go: the SessionManager and the JSON file it keeps. The     *)
(* maps change under the write lock, where the change is saved at once;    *)
(* Save() runs under the read lock, so several goroutines may be in it     *)
(* together, and copies the Sessions one by one while turns go on          *)
(* changing them. A crash leaves what was renamed over the file last; a    *)
(* file that cannot be read is only logged, and the next save replaces it. *)
(***************************************************************************)
EXTENDS Naturals

CONSTANTS
  User,         \* session keys
  MaxSession,   \* bound on the sessions created
  MaxVersion,   \* bound on the changes of one session
  Writer,       \* goroutines that call Save()
  Nobody        \* no user

Id == 1..MaxSession

\* What the maps hold and what the file holds: userSessions as the owner of
\* each session (the session exists when it has one), activeSession (0 for
\* none), what a Session was last bound to, as a version, and the counter.
Snapshot ==
  [owner : [Id -> User \union {Nobody}], current : [User -> 0..MaxSession],
   version : [Id -> 0..MaxVersion], counter : 0..MaxSession]

ASSUME StoreAssumption == MaxSession \in Nat /\ MaxVersion \in Nat /\ Nobody \notin User

VARIABLES
  memory, \* the SessionManager
  file,   \* the file
  unread, \* history: the last load failed, and no save has replaced the file since
  writer  \* goroutines inside Save(), and whether each had it to itself

storeVars == <<memory, file, unread, writer>>

StoreTypeOK ==
  /\ memory \in Snapshot
  /\ file \in Snapshot
  /\ unread \in BOOLEAN
  /\ writer \in [Writer -> [pc : {"idle", "copy"}, alone : BOOLEAN,
                        todo : SUBSET Id, snap : Snapshot]]

Empty ==
  [owner |-> [s \in Id |-> Nobody], current |-> [u \in User |-> 0],
   version |-> [s \in Id |-> 0], counter |-> 0]

NotSaving == [pc |-> "idle", alone |-> TRUE, todo |-> {}, snap |-> Empty]

StoreInit ==
  /\ memory = Empty
  /\ file = Empty
  /\ unread = FALSE
  /\ writer = [w \in Writer |-> NotSaving]

\* Mutant of Exclusive: the write lock does not wait for readers.
Unlocked == TRUE

\* The write lock is free when nobody is inside Save().
Exclusive == \A w \in Writer : writer[w].pc = "idle"

\* saveLocked; an error only reaches the log.
SaveLocked(snap) ==
  \/ file' = snap /\ unread' = FALSE
  \/ UNCHANGED <<file, unread>>

\* createLocked
Created(u) ==
  LET id == memory.counter + 1 IN
  [memory EXCEPT !.owner[id] = u, !.current[u] = id, !.version[id] = 0, !.counter = id]

\* GetOrCreateActive makes a session that is not saved yet.
GetOrCreateActive(u) ==
  /\ Exclusive
  /\ memory.current[u] = 0
  /\ memory.counter < MaxSession
  /\ memory' = Created(u)
  /\ UNCHANGED <<file, unread, writer>>

NewSession(u) ==
  /\ Exclusive
  /\ memory.counter < MaxSession
  /\ memory' = Created(u)
  /\ SaveLocked(Created(u))
  /\ UNCHANGED writer

SwitchSession(u, s) ==
  /\ Exclusive
  /\ memory.owner[s] = u
  /\ memory' = [memory EXCEPT !.current[u] = s]
  /\ SaveLocked(memory')
  /\ UNCHANGED writer

\* SetSessionName changes a map of its own and saves everything.
SetSessionName ==
  /\ Exclusive
  /\ SaveLocked(memory)
  /\ UNCHANGED <<memory, writer>>

\* A turn, /switch or /model changes a Session; no lock of the manager.
ChangeSession(s) ==
  /\ memory.owner[s] # Nobody
  /\ memory.version[s] < MaxVersion
  /\ memory' = [memory EXCEPT !.version[s] = @ + 1]
  /\ UNCHANGED <<file, unread, writer>>

\* Save: the read lock is taken ...
BeginSave(w) ==
  /\ writer[w].pc = "idle"
  /\ writer' = [v \in Writer |->
       IF v = w
       THEN [pc |-> "copy", alone |-> Exclusive, snap |-> memory,
             todo |-> {s \in Id : memory.owner[s] # Nobody}]
       ELSE [writer[v] EXCEPT !.alone = @ /\ writer[v].pc = "idle"]]
  /\ UNCHANGED <<memory, file, unread>>

\* ... each Session is copied under its own lock ...
CopySession(w, s) ==
  /\ s \in writer[w].todo
  /\ writer' = [writer EXCEPT ![w].todo = @ \ {s},
                              ![w].snap.version[s] = memory.version[s]]
  /\ UNCHANGED <<memory, file, unread>>

\* ... and the copy is renamed over the file, or an error is logged.
WriteSnapshot(w) ==
  /\ writer[w].pc = "copy"
  /\ writer[w].todo = {}
  /\ SaveLocked(writer[w].snap)
  /\ writer' = [writer EXCEPT ![w] = NotSaving]
  /\ UNCHANGED memory

\* Mutant of Load: the counter starts again.
LoadWithoutCounter == {[file EXCEPT !.counter = 0], Empty}

\* load: what the file holds, or nothing when it cannot be read or parsed, which
\* only reaches the log.
Load == {file, Empty}

\* The program dies and NewSessionManager loads what it can.
Crash ==
  /\ memory' \in Load
  /\ unread' = (memory' # file)
  /\ writer' = [w \in Writer |-> NotSaving]
  /\ UNCHANGED file

StoreNext ==
  \/ \E u \in User : GetOrCreateActive(u) \/ NewSession(u)
  \/ \E u \in User, s \in Id : SwitchSession(u, s)
  \/ SetSessionName
  \/ \E s \in Id : ChangeSession(s)
  \/ \E w \in Writer : BeginSave(w) \/ WriteSnapshot(w)
  \/ \E w \in Writer, s \in Id : CopySession(w, s)
  \/ Crash

StoreSpec == StoreInit /\ [][StoreNext]_storeVars

-----------------------------------------------------------------------------
\* The active session of a user is one of the user's own sessions, in memory
\* and in the file, also when ids are given out again after a crash: nobody
\* gets into the conversation of somebody else.
OwnSessionIsActive ==
  \A snap \in {memory, file} : \A u \in User :
    snap.current[u] # 0 => snap.owner[snap.current[u]] = u

\* What Save() wrote stays: a session that is in the file stays there with its
\* owner, whatever saves, errors and crashes cross, and the file never goes back to
\* an older binding of it. Two exceptions: the first save after a load that failed
\* replaces the whole file; and of two Save() calls that overlap (they hold the read
\* lock only) the one that copied first may be renamed last, with the older binding.
SavedVersionsStay ==
  [][\A s \in Id : file.owner[s] # Nobody /\ ~unread =>
       /\ file'.owner[s] = file.owner[s]
       /\ file'.version[s] < file.version[s] =>
            \E w \in Writer : WriteSnapshot(w) /\ ~writer[w].alone]_storeVars
=============================================================================
