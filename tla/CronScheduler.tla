--------------------------- MODULE CronScheduler ---------------------------
(***************************************************************************)
(* core/cron.go: the CronStore with its JSON file, and the CronScheduler,  *)
(* which keeps one live entry of the cron library for each enabled job.    *)
(* The store and the entries have a lock each, and a call takes one after  *)
(* the other: calls from chats and from the API cross in between, and      *)
(* cross Start(), since the engines listen before it. A write of the file  *)
(* may fail; the program may die and load the file again, or fail to: it   *)
(* starts without jobs then, and the next write replaces the file.         *)
(***************************************************************************)
EXTENDS Naturals

CONSTANTS
  Job,
  Entry,       \* entries of the cron library
  Admin,       \* goroutines that call the scheduler
  Run,         \* goroutines of the cron library in executeJob
  MaxRequest,  \* bound on the calls that begin
  None         \* no job, no entry

ASSUME CronAssumption == MaxRequest \in Nat /\ None \notin Job /\ None \notin Entry

VARIABLES
  store,   \* CronStore: the jobs it holds and each job's Enabled
  disk,    \* the file
  entries, \* CronScheduler.entries
  live,    \* the job of each live entry of the cron library
  starter, \* Start(): the jobs of its list left, the one it schedules
  admin,   \* the calls under way, between their two locks
  run,     \* the executions under way
  result,  \* what the caller of AddJob or RemoveJob was told of a job
  crossed, \* jobs of which two calls were under way at once
  requests, \* calls so far
  lost      \* history: jobs of the file that the last load did not bring back

cronVars == <<store, disk, entries, live, starter, admin, run, result, crossed,
              requests, lost>>

Jobs == [held : SUBSET Job, enabled : SUBSET Job]
IdleAdmin == [pc |-> "idle", job |-> None]

\* Each variable has its type, and CronScheduler.entries names live entries of
\* the library only: NextRun and RemoveJob find what they look for.
CronTypeOK ==
  /\ store \in Jobs
  /\ disk \in Jobs
  /\ entries \in [Job -> Entry \union {None}]
  /\ live \in [Entry -> Job \union {None}]
  /\ starter \in [pc : {"list", "jobs", "schedule", "up"}, todo : SUBSET Job,
                  job : Job \union {None}]
  /\ admin \in [Admin -> [pc : {"idle", "schedule", "get", "unschedule", "remove"},
                          job : Job \union {None}]]
  /\ run \in [Run -> [pc : {"idle", "fired", "running"}, job : Job \union {None}]]
  /\ result \in [Job -> {"new", "adding", "accepted", "rejected", "removed"}]
  /\ crossed \subseteq Job
  /\ requests \in 0..MaxRequest
  /\ lost \subseteq Job
  /\ \A j \in Job : entries[j] # None => live[entries[j]] = j

Booting == [pc |-> "list", todo |-> {}, job |-> None]

CronInit ==
  /\ store = [held |-> {}, enabled |-> {}]
  /\ disk = store
  /\ entries = [j \in Job |-> None]
  /\ live = [e \in Entry |-> None]
  /\ starter = Booting
  /\ admin = [a \in Admin |-> IdleAdmin]
  /\ run = [r \in Run |-> IdleAdmin]
  /\ result = [j \in Job |-> "new"]
  /\ crossed = {}
  /\ requests = 0
  /\ lost = {}

-----------------------------------------------------------------------------
\* save(), whose error only Add looks at.
SaveJobs(jobs) == disk' = jobs \/ UNCHANGED disk

\* scheduleJob, one step under cs.mu.
ScheduleJob(j) ==
  \E e \in Entry :
    /\ live[e] = None \/ e = entries[j]
    /\ live' = [f \in Entry |-> IF f = e THEN j ELSE IF f = entries[j] THEN None ELSE live[f]]
    /\ entries' = [entries EXCEPT ![j] = e]

\* Mutant of UnscheduleJob: the map keeps the entry that was removed.
UnscheduleKeepsEntry(j) ==
  /\ live' = [e \in Entry |-> IF e = entries[j] THEN None ELSE live[e]]
  /\ UNCHANGED entries

\* The removal of a job's entry under cs.mu, in RemoveJob and in DisableJob.
UnscheduleJob(j) ==
  /\ live' = [e \in Entry |-> IF e = entries[j] THEN None ELSE live[e]]
  /\ entries' = [entries EXCEPT ![j] = None]

\* A call begins.
Begins(a) ==
  /\ admin[a] = IdleAdmin
  /\ requests < MaxRequest
  /\ requests' = requests + 1

\* The call of a goes on at pc, and crosses the other calls about the job.
AdminGoes(a, pc, j) == admin' = [admin EXCEPT ![a] = [pc |-> pc, job |-> j]]
AdminReturns(a) == admin' = [admin EXCEPT ![a] = IdleAdmin]
Crosses(j) ==
  crossed' = IF \E b \in Admin : admin[b].job = j THEN crossed \union {j} ELSE crossed

\* AddJob of an enabled job, under s.mu. When the write fails the caller gets
\* the error, and the job stays in memory.
AddJob(a, j) ==
  /\ Begins(a)
  /\ result[j] = "new"
  /\ store' = [held |-> store.held \union {j}, enabled |-> store.enabled \union {j}]
  /\ \/ /\ disk' = store'
        /\ AdminGoes(a, "schedule", j)
        /\ result' = [result EXCEPT ![j] = "adding"]
     \/ /\ result' = [result EXCEPT ![j] = "rejected"]
        /\ UNCHANGED <<disk, admin>>
  /\ UNCHANGED <<entries, live, starter, run, crossed, lost>>

\* SetEnabled of EnableJob or DisableJob; a job that is not found ends the call.
SetEnabled(a, j, on) ==
  /\ Begins(a)
  /\ j \in store.held
  /\ store' = [store EXCEPT !.enabled = IF on THEN @ \union {j} ELSE @ \ {j}]
  /\ SaveJobs(store')
  /\ AdminGoes(a, IF on THEN "get" ELSE "unschedule", j)
  /\ Crosses(j)
  /\ UNCHANGED <<entries, live, starter, run, result, lost>>

\* EnableJob asks the store for the job it has just enabled.
GetEnabled(a) ==
  /\ admin[a].pc = "get"
  /\ IF admin[a].job \in store.held THEN AdminGoes(a, "schedule", admin[a].job) ELSE AdminReturns(a)
  /\ UNCHANGED <<store, disk, entries, live, starter, run, result, crossed, requests, lost>>

\* AddJob and EnableJob end with scheduleJob.
Schedule(a) ==
  /\ admin[a].pc = "schedule"
  /\ ScheduleJob(admin[a].job)
  /\ AdminReturns(a)
  /\ result' = [result EXCEPT ![admin[a].job] = IF @ = "adding" THEN "accepted" ELSE @]
  /\ UNCHANGED <<store, disk, starter, run, crossed, requests, lost>>

\* DisableJob ends with the removal of the entry.
Unschedule(a) ==
  /\ admin[a].pc = "unschedule"
  /\ UnscheduleJob(admin[a].job)
  /\ AdminReturns(a)
  /\ UNCHANGED <<store, disk, starter, run, result, crossed, requests, lost>>

\* RemoveJob begins with it ...
RemoveEntry(a, j) ==
  /\ Begins(a)
  /\ result[j] # "new"
  /\ UnscheduleJob(j)
  /\ AdminGoes(a, "remove", j)
  /\ Crosses(j)
  /\ UNCHANGED <<store, disk, starter, run, result, lost>>

\* ... and takes the job out of the store.
RemoveStored(a) ==
  LET j == admin[a].job IN
  /\ admin[a].pc = "remove"
  /\ IF j \in store.held
     THEN /\ store' = [store EXCEPT !.held = @ \ {j}]
          /\ SaveJobs(store')
          /\ result' = [result EXCEPT ![j] = "removed"]
     ELSE UNCHANGED <<store, disk, result>>
  /\ AdminReturns(a)
  /\ UNCHANGED <<entries, live, starter, run, crossed, requests, lost>>

\* /cron add, del, enable and disable of a chat, which may come before Start() ...
CmdCronAdd(a, j) == AddJob(a, j)
CmdCronDel(a, j) == RemoveEntry(a, j)
CmdCronToggle(a, j, enable) == SetEnabled(a, j, enable)

\* ... and the calls of `cc-connect cron`: main starts the API after Start().
HandleCronAdd(a, j) == starter.pc = "up" /\ AddJob(a, j)
HandleCronDel(a, j) == starter.pc = "up" /\ RemoveEntry(a, j)

-----------------------------------------------------------------------------
StartList ==
  /\ starter.pc = "list"
  /\ starter' = [pc |-> "jobs", todo |-> store.held, job |-> None]
  /\ UNCHANGED <<store, disk, entries, live, admin, run, result, crossed, requests, lost>>

\* Mutant of StartJob: the first job that is off ends the loop.
StartJobBreaks(j) ==
  /\ starter.pc = "jobs"
  /\ j \in starter.todo
  /\ starter' = IF j \in store.enabled
                THEN [pc |-> "schedule", todo |-> starter.todo \ {j}, job |-> j]
                ELSE [starter EXCEPT !.todo = {}]
  /\ UNCHANGED <<store, disk, entries, live, admin, run, result, crossed, requests, lost>>

\* Start() looks at the next job of its list ...
StartJob(j) ==
  /\ starter.pc = "jobs"
  /\ j \in starter.todo
  /\ starter' = IF j \in store.enabled
                THEN [pc |-> "schedule", todo |-> starter.todo \ {j}, job |-> j]
                ELSE [starter EXCEPT !.todo = @ \ {j}]
  /\ UNCHANGED <<store, disk, entries, live, admin, run, result, crossed, requests, lost>>

\* ... and schedules it.
StartSchedule ==
  /\ starter.pc = "schedule"
  /\ ScheduleJob(starter.job)
  /\ starter' = [starter EXCEPT !.pc = "jobs", !.job = None]
  /\ UNCHANGED <<store, disk, admin, run, result, crossed, requests, lost>>

\* cron.Start(): from now on entries fire.
StartDone ==
  /\ starter.pc = "jobs"
  /\ starter.todo = {}
  /\ starter' = [starter EXCEPT !.pc = "up"]
  /\ UNCHANGED <<store, disk, entries, live, admin, run, result, crossed, requests, lost>>

\* An entry fires: the library starts a goroutine for it.
FireEntry(r, e) ==
  /\ starter.pc = "up"
  /\ run[r] = IdleAdmin
  /\ live[e] # None
  /\ run' = [run EXCEPT ![r] = [pc |-> "fired", job |-> live[e]]]
  /\ UNCHANGED <<store, disk, entries, live, starter, admin, result, crossed, requests, lost>>

\* executeJob asks for the job, and hands it to the engine.
ExecuteJob(r) ==
  /\ run[r].pc = "fired"
  /\ run' = [run EXCEPT ![r] =
               IF run[r].job \in store.held \intersect store.enabled
               THEN [@ EXCEPT !.pc = "running"] ELSE IdleAdmin]
  /\ UNCHANGED <<store, disk, entries, live, starter, admin, result, crossed, requests, lost>>

\* MarkRun, when the turn ended or 30 minutes have passed.
MarkRun(r) ==
  /\ run[r].pc = "running"
  /\ run' = [run EXCEPT ![r] = IdleAdmin]
  /\ IF run[r].job \in store.held THEN SaveJobs(store) ELSE UNCHANGED disk
  /\ UNCHANGED <<store, entries, live, starter, admin, result, crossed, requests, lost>>

\* load: what the file holds, or no jobs when it cannot be read or parsed, which
\* nobody is told.
LoadJobs ==
  \/ store' = disk /\ lost' = lost \ disk.held
  \/ store' = [held |-> {}, enabled |-> {}] /\ lost' = lost \union disk.held

\* The program dies, and starts again with what it can load.
Die ==
  /\ LoadJobs
  /\ entries' = [j \in Job |-> None]
  /\ live' = [e \in Entry |-> None]
  /\ starter' = Booting
  /\ admin' = [a \in Admin |-> IdleAdmin]
  /\ run' = [r \in Run |-> IdleAdmin]
  /\ crossed' = {}
  /\ UNCHANGED <<disk, result, requests>>

CronNext ==
  \/ \E a \in Admin, j \in Job :
       \/ CmdCronAdd(a, j) \/ HandleCronAdd(a, j)
       \/ CmdCronDel(a, j) \/ HandleCronDel(a, j)
       \/ \E enable \in BOOLEAN : CmdCronToggle(a, j, enable)
  \/ \E a \in Admin : GetEnabled(a) \/ Schedule(a) \/ Unschedule(a) \/ RemoveStored(a)
  \/ StartList \/ StartSchedule \/ StartDone
  \/ \E j \in Job : StartJob(j)
  \/ \E r \in Run : ExecuteJob(r) \/ MarkRun(r) \/ \E e \in Entry : FireEntry(r, e)
  \/ Die

CronSpec == CronInit /\ [][CronNext]_cronVars

-----------------------------------------------------------------------------
\* Each live entry is the one its job is scheduled under, so a tick runs a job
\* once, and the scheduler can still remove every entry, however calls for the
\* same job and Start() cross.
OneEntryPerJob == \A e \in Entry : live[e] # None => entries[live[e]] = e

UnderWay(j) ==
  \/ \E a \in Admin : admin[a].job = j
  \/ starter.pc = "list" \/ starter.job = j \/ j \in starter.todo

\* A job that was accepted and is enabled will fire, also after a restart and
\* after calls that crossed Start(), unless two calls for it crossed: EnableJob
\* and DisableJob may leave it enabled without an entry.
EnabledIsScheduled ==
  \A j \in store.held \intersect store.enabled :
    result[j] = "accepted" /\ j \notin crossed /\ ~UnderWay(j) => \E e \in Entry : live[e] = j

\* AddJob accepts a job only when the file has it, and nothing but RemoveJob takes
\* it out of the file or the store again: an accepted job survives every failed
\* write and every crash, unless a start could not load the file.
AcceptedIsSaved ==
  \A j \in Job : result[j] = "accepted" /\ j \notin lost => j \in disk.held \intersect store.held

\* A tick runs each accepted and enabled job, and runs it once: before and after
\* a crash and a restart, and however calls from chats, from the API and from
\* Start() cross, unless a start could not load the file.
JobsFireOnce == OneEntryPerJob /\ EnabledIsScheduled /\ AcceptedIsSaved
=============================================================================
