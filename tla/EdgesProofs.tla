------------------------------ MODULE EdgesProofs -----------------------------
(***************************************************************************)
(* Proofs about what starts a turn besides a message, cron and the relay   *)
(* between bots, for any number of jobs, callers, entries, projects,       *)
(* requests, bindings and conversations; and, from the proofs about every  *)
(* part around the engine, that the state of each stays well formed.       *)
(***************************************************************************)
EXTENDS MCEdges, QQProofs, CommandProofs, ProcessProofs

-----------------------------------------------------------------------------
(* core/cron.go: the scheduler.

   A tick runs each accepted and enabled job once, for any number of jobs,
   callers, entries and executions, however calls, Start(), failed writes
   and crashes cross. *)

\* A call between its two locks, and Start() about to schedule, have a job.
CallsHaveJobs ==
  /\ \A a \in Admin : admin[a].pc # "idle" => admin[a].job \in Job
  /\ starter.pc = "schedule" => starter.job \in Job
  /\ starter.pc = "jobs" => starter.job = None

\* Only AddJob brings a job into the store, once, and a call for a job comes later.
HeldWasAdded ==
  /\ \A j \in Job : result[j] = "new" => j \notin store.held \union disk.held
  /\ \A a \in Admin : admin[a].pc # "idle" => result[admin[a].job] # "new"

\* The file has a job from the moment AddJob may answer, until a start cannot load it.
AddingIsSaved ==
  \A j \in Job : result[j] \in {"adding", "accepted"} /\ j \notin lost =>
                 j \in store.held \intersect disk.held

\* A DisableJob nobody crossed still finds its job off.
DisablingIsOff ==
  \A a \in Admin : admin[a].pc = "unschedule" /\ admin[a].job \notin crossed
                     => admin[a].job \notin store.enabled

\* EnabledIsScheduled by the map of the scheduler instead of the library's entries.
HasEntry(j) ==
  j \in store.held /\ j \in store.enabled /\ result[j] = "accepted" /\ j \notin crossed
    /\ ~UnderWay(j) => entries[j] # None
EnabledHasEntry == \A j \in Job : HasEntry(j)

USE CronAssumption

CronInv ==
  /\ CronTypeOK /\ OneEntryPerJob /\ CallsHaveJobs /\ HeldWasAdded
  /\ AddingIsSaved /\ DisablingIsOff /\ EnabledHasEntry

-----------------------------------------------------------------------------
LEMMA InitCron == ASSUME CronInit PROVE CronInv
<1>1. CronTypeOK
  BY DEF CronInit, CronTypeOK, Jobs, IdleAdmin, Booting
<1>2. OneEntryPerJob /\ CallsHaveJobs /\ HeldWasAdded
  BY DEF CronInit, OneEntryPerJob, CallsHaveJobs, HeldWasAdded, IdleAdmin, Booting
<1>3. AddingIsSaved /\ DisablingIsOff /\ EnabledHasEntry
  BY DEF CronInit, AddingIsSaved, DisablingIsOff, EnabledHasEntry, HasEntry, IdleAdmin
<1>. QED BY <1>1, <1>2, <1>3 DEF CronInv

-----------------------------------------------------------------------------
\* scheduleJob replaces the job's entry and touches no other job's.
LEMMA ScheduleKeepsEntries ==
  ASSUME CronInv, NEW j \in Job, ScheduleJob(j)
  PROVE  /\ entries' \in [Job -> Entry \union {None}] /\ live' \in [Entry -> Job \union {None}]
         /\ \A k \in Job : entries'[k] # None => live'[entries'[k]] = k
         /\ OneEntryPerJob'
         /\ entries'[j] # None /\ \A k \in Job \ {j} : entries'[k] = entries[k]
<1>. PICK e \in Entry :
       /\ live[e] = None \/ e = entries[j]
       /\ live' = [f \in Entry |-> IF f = e THEN j ELSE IF f = entries[j] THEN None ELSE live[f]]
       /\ entries' = [entries EXCEPT ![j] = e]
  BY DEF ScheduleJob
<1>. QED BY DEF CronInv, CronTypeOK, OneEntryPerJob

\* The removal of a job's entry touches no other job's.
LEMMA UnscheduleKeepsEntries ==
  ASSUME CronInv, NEW j \in Job, UnscheduleJob(j)
  PROVE  /\ entries' \in [Job -> Entry \union {None}] /\ live' \in [Entry -> Job \union {None}]
         /\ \A k \in Job : entries'[k] # None => live'[entries'[k]] = k
         /\ OneEntryPerJob'
         /\ entries'[j] = None /\ \A k \in Job \ {j} : entries'[k] = entries[k]
BY DEF CronInv, CronTypeOK, OneEntryPerJob, UnscheduleJob

\* The two facts about entries when a step leaves them alone.
LEMMA EntriesKept ==
  ASSUME CronInv, UNCHANGED <<entries, live>>
  PROVE  /\ entries' \in [Job -> Entry \union {None}] /\ live' \in [Entry -> Job \union {None}]
         /\ \A k \in Job : entries'[k] # None => live'[entries'[k]] = k
         /\ OneEntryPerJob'
BY DEF CronInv, CronTypeOK, OneEntryPerJob

-----------------------------------------------------------------------------
\* A job that no step makes newly enabled, accepted or quiet keeps its entry.
LEMMA HasEntryKept ==
  ASSUME CronInv, NEW k \in Job,
         k \in store'.held /\ k \in store'.enabled => k \in store.held /\ k \in store.enabled,
         result'[k] = "accepted" => result[k] = "accepted",
         k \in crossed => k \in crossed',
         UnderWay(k) => UnderWay(k)',
         entries[k] # None => entries'[k] # None
  PROVE  HasEntry(k)'
BY DEF CronInv, EnabledHasEntry, HasEntry

-----------------------------------------------------------------------------
LEMMA AddJobKeeps ==
  ASSUME CronInv, NEW a \in Admin, NEW j \in Job, AddJob(a, j)
  PROVE  CronInv'
<1>. USE DEF AddJob, Begins, AdminGoes, IdleAdmin, CronInv
<1>1. CronTypeOK' /\ OneEntryPerJob'
  BY EntriesKept DEF CronTypeOK, Jobs
<1>2. CallsHaveJobs'
  BY DEF CronTypeOK, CallsHaveJobs
<1>3. HeldWasAdded'
  BY DEF CronTypeOK, HeldWasAdded, CallsHaveJobs, Jobs
<1>4. AddingIsSaved'
  BY DEF CronTypeOK, AddingIsSaved, Jobs
<1>5. DisablingIsOff'
  <2>1. \A b \in Admin : admin'[b].pc = "unschedule" => admin'[b] = admin[b]
    BY DEF CronTypeOK
  <2>2. \A b \in Admin : admin[b].pc = "unschedule" => admin[b].job # j
    BY DEF HeldWasAdded
  <2>. QED BY <2>1, <2>2 DEF DisablingIsOff
<1>6. EnabledHasEntry'
  <2>. SUFFICES ASSUME NEW k \in Job PROVE HasEntry(k)'
    BY DEF EnabledHasEntry
  <2>1. CASE k = j
    BY <2>1 DEF CronTypeOK, HasEntry
  <2>2. CASE k # j
    <3>1. UnderWay(k) => UnderWay(k)'
      BY <2>2 DEF CronTypeOK, UnderWay
    <3>. QED BY <2>2, <3>1, HasEntryKept DEF CronTypeOK
  <2>. QED BY <2>1, <2>2
<1>. QED BY <1>1, <1>2, <1>3, <1>4, <1>5, <1>6

LEMMA SetEnabledKeeps ==
  ASSUME CronInv, NEW a \in Admin, NEW j \in Job, NEW on \in BOOLEAN, SetEnabled(a, j, on)
  PROVE  CronInv'
<1>. USE DEF SetEnabled, Begins, AdminGoes, IdleAdmin, CronInv, SaveJobs
<1>1. /\ store' \in Jobs /\ disk' \in Jobs /\ store'.held = store.held
      /\ \A k \in Job \ {j} : k \in store'.enabled <=> k \in store.enabled
      /\ disk'.held = disk.held \/ disk'.held = store.held
      /\ crossed \subseteq crossed' /\ crossed' \subseteq Job
  BY DEF CronTypeOK, Jobs, Crosses
<1>2. /\ admin' \in [Admin -> [pc : {"idle", "schedule", "get", "unschedule", "remove"},
                              job : Job \union {None}]]
      /\ admin[a].pc = "idle" /\ admin[a].job = None /\ admin'[a].job = j
      /\ admin'[a].pc = IF on THEN "get" ELSE "unschedule"
      /\ \A b \in Admin \ {a} : admin'[b] = admin[b]
  BY DEF CronTypeOK
<1>3. CronTypeOK' /\ OneEntryPerJob'
  BY <1>1, <1>2, EntriesKept DEF CronTypeOK
<1>4. CallsHaveJobs'
  BY <1>2 DEF CallsHaveJobs
<1>5. HeldWasAdded'
  BY <1>1, <1>2 DEF HeldWasAdded
<1>6. AddingIsSaved'
  BY <1>1 DEF AddingIsSaved
<1>7. DisablingIsOff'
  <2>. SUFFICES ASSUME NEW b \in Admin, admin'[b].pc = "unschedule",
                       admin'[b].job \notin crossed'
                PROVE  admin'[b].job \notin store'.enabled
    BY DEF DisablingIsOff
  <2>1. CASE b = a
    BY <1>2, <2>1 DEF CronTypeOK, Jobs
  <2>2. CASE b # a
    <3>1. admin'[b] = admin[b] /\ admin[b].job \in Job
      BY <1>2, <2>2 DEF CallsHaveJobs
    <3>2. admin[b].job # j
      BY <3>1, <1>1 DEF Crosses
    <3>. QED BY <3>1, <3>2, <1>1 DEF DisablingIsOff
  <2>. QED BY <2>1, <2>2
<1>8. EnabledHasEntry'
  <2>. SUFFICES ASSUME NEW k \in Job PROVE HasEntry(k)'
    BY DEF EnabledHasEntry
  <2>1. UnderWay(j)' /\ (UnderWay(k) => UnderWay(k)')
    BY <1>2 DEF UnderWay
  <2>2. CASE k = j
    BY <2>1, <2>2 DEF HasEntry
  <2>3. CASE k # j
    BY <1>1, <2>1, <2>3, HasEntryKept
  <2>. QED BY <2>2, <2>3
<1>. QED BY <1>3, <1>4, <1>5, <1>6, <1>7, <1>8

\* What the end of a call, or its next part, does to admin.
LEMMA GoesChanges ==
  ASSUME CronInv, NEW a \in Admin, admin[a].pc # "idle",
         AdminReturns(a) \/ AdminGoes(a, "schedule", admin[a].job)
  PROVE  /\ admin' \in [Admin -> [pc : {"idle", "schedule", "get", "unschedule", "remove"},
                                 job : Job \union {None}]]
         /\ CallsHaveJobs' \/ starter' # starter
         /\ \A b \in Admin : admin'[b].pc = "unschedule" => admin'[b] = admin[b]
         /\ \A k \in Job : UnderWay(k) /\ starter' = starter /\ k # admin[a].job => UnderWay(k)'
         /\ \A b \in Admin \ {a} : admin'[b] = admin[b]
         /\ \A b \in Admin : admin'[b].pc # "idle" => admin[b].pc # "idle" \/ b = a
         /\ \A b \in Admin : admin'[b].pc # "idle" => admin'[b].job = admin[b].job
<1>1. admin[a].job \in Job
  BY DEF CronInv, CallsHaveJobs
<1>2. \E c \in {IdleAdmin, [pc |-> "schedule", job |-> admin[a].job]} : admin' = [admin EXCEPT ![a] = c]
  BY DEF AdminReturns, AdminGoes
<1>3. \A b \in Admin \ {a} : admin'[b] = admin[b]
  BY <1>2 DEF CronInv, CronTypeOK
<1>4. admin'[a] \in {IdleAdmin, [pc |-> "schedule", job |-> admin[a].job]}
  BY <1>2 DEF CronInv, CronTypeOK
<1>5. CallsHaveJobs' \/ starter' # starter
  BY <1>1, <1>3, <1>4 DEF CronInv, CallsHaveJobs, IdleAdmin
<1>6. \A k \in Job : UnderWay(k) /\ starter' = starter /\ k # admin[a].job => UnderWay(k)'
  BY <1>3 DEF UnderWay
<1>. QED BY <1>1, <1>2, <1>3, <1>4, <1>5, <1>6 DEF CronInv, CronTypeOK, IdleAdmin

LEMMA GetEnabledKeeps ==
  ASSUME CronInv, NEW a \in Admin, GetEnabled(a)
  PROVE  CronInv'
<1>. USE DEF GetEnabled, CronInv
<1>1. AdminReturns(a) \/ AdminGoes(a, "schedule", admin[a].job)
  OBVIOUS
<1>2. CronTypeOK' /\ OneEntryPerJob'
  BY <1>1, GoesChanges, EntriesKept DEF CronTypeOK
<1>3. CallsHaveJobs'
  BY <1>1, GoesChanges
<1>4. HeldWasAdded'
  BY <1>1, GoesChanges DEF HeldWasAdded
<1>5. AddingIsSaved'
  BY DEF AddingIsSaved
<1>6. DisablingIsOff'
  BY <1>1, GoesChanges DEF DisablingIsOff
<1>7. EnabledHasEntry'
  <2>. SUFFICES ASSUME NEW k \in Job PROVE HasEntry(k)'
    BY DEF EnabledHasEntry
  <2>1. CASE k # admin[a].job
    BY <1>1, <2>1, GoesChanges, HasEntryKept
  <2>2. CASE k = admin[a].job /\ k \in store.held
    <3>1. admin'[a].job = k
      BY <2>2 DEF CronTypeOK, AdminGoes
    <3>. QED BY <3>1 DEF HasEntry, UnderWay
  <2>3. CASE k \notin store.held
    BY <2>3 DEF HasEntry
  <2>. QED BY <2>1, <2>2, <2>3
<1>. QED BY <1>2, <1>3, <1>4, <1>5, <1>6, <1>7

LEMMA ScheduleKeeps ==
  ASSUME CronInv, NEW a \in Admin, Schedule(a)
  PROVE  CronInv'
<1>. USE DEF Schedule, CronInv
<1>1. admin[a].job \in Job /\ ScheduleJob(admin[a].job) /\ AdminReturns(a)
  BY DEF CallsHaveJobs
<1>2. CronTypeOK' /\ OneEntryPerJob'
  <2>1. result' \in [Job -> {"new", "adding", "accepted", "rejected", "removed"}]
    BY DEF CronTypeOK
  <2>. QED BY <1>1, <2>1, GoesChanges, ScheduleKeepsEntries DEF CronTypeOK
<1>3. CallsHaveJobs'
  BY <1>1, GoesChanges
<1>4. HeldWasAdded'
  <2>1. \A k \in Job : result'[k] = "new" <=> result[k] = "new"
    BY <1>1 DEF CronTypeOK
  <2>2. \A b \in Admin : admin'[b].pc # "idle" =>
          admin'[b].job = admin[b].job /\ admin[b].pc # "idle" /\ admin[b].job \in Job
    BY <1>1, GoesChanges DEF CallsHaveJobs
  <2>. QED BY <2>1, <2>2 DEF HeldWasAdded
<1>5. AddingIsSaved'
  BY <1>1 DEF CronTypeOK, AddingIsSaved
<1>6. DisablingIsOff'
  BY <1>1, GoesChanges DEF DisablingIsOff
<1>7. EnabledHasEntry'
  <2>. SUFFICES ASSUME NEW k \in Job PROVE HasEntry(k)'
    BY DEF EnabledHasEntry
  <2>1. CASE k # admin[a].job
    <3>1. result'[k] = result[k] /\ entries'[k] = entries[k]
      BY <1>1, <2>1, ScheduleKeepsEntries DEF CronTypeOK
    <3>. QED BY <1>1, <2>1, <3>1, GoesChanges, HasEntryKept
  <2>2. CASE k = admin[a].job
    BY <1>1, <2>2, ScheduleKeepsEntries DEF HasEntry
  <2>. QED BY <2>1, <2>2
<1>. QED BY <1>2, <1>3, <1>4, <1>5, <1>6, <1>7

LEMMA UnscheduleKeeps ==
  ASSUME CronInv, NEW a \in Admin, Unschedule(a)
  PROVE  CronInv'
<1>. USE DEF Unschedule, CronInv
<1>1. admin[a].job \in Job /\ UnscheduleJob(admin[a].job) /\ AdminReturns(a)
  BY DEF CallsHaveJobs
<1>2. CronTypeOK' /\ OneEntryPerJob'
  BY <1>1, GoesChanges, UnscheduleKeepsEntries DEF CronTypeOK
<1>3. CallsHaveJobs'
  BY <1>1, GoesChanges
<1>4. HeldWasAdded'
  BY <1>1, GoesChanges DEF HeldWasAdded
<1>5. AddingIsSaved'
  BY DEF AddingIsSaved
<1>6. DisablingIsOff'
  BY <1>1, GoesChanges DEF DisablingIsOff
<1>7. EnabledHasEntry'
  <2>. SUFFICES ASSUME NEW k \in Job PROVE HasEntry(k)'
    BY DEF EnabledHasEntry
  <2>1. CASE k # admin[a].job
    BY <1>1, <2>1, GoesChanges, UnscheduleKeepsEntries, HasEntryKept
  <2>2. CASE k = admin[a].job
    BY <2>2 DEF HasEntry, DisablingIsOff
  <2>. QED BY <2>1, <2>2
<1>. QED BY <1>2, <1>3, <1>4, <1>5, <1>6, <1>7

LEMMA RemoveEntryKeeps ==
  ASSUME CronInv, NEW a \in Admin, NEW j \in Job, RemoveEntry(a, j)
  PROVE  CronInv'
<1>. USE DEF RemoveEntry, Begins, AdminGoes, IdleAdmin, CronInv
<1>1. /\ admin' \in [Admin -> [pc : {"idle", "schedule", "get", "unschedule", "remove"},
                              job : Job \union {None}]]
      /\ admin[a].pc = "idle" /\ admin[a].job = None
      /\ admin'[a].job = j /\ admin'[a].pc = "remove"
      /\ \A b \in Admin \ {a} : admin'[b] = admin[b]
  BY DEF CronTypeOK
<1>2. crossed \subseteq crossed' /\ crossed' \subseteq Job
  BY DEF CronTypeOK, Crosses
<1>3. CronTypeOK' /\ OneEntryPerJob'
  BY <1>1, <1>2, UnscheduleKeepsEntries DEF CronTypeOK
<1>4. CallsHaveJobs'
  BY <1>1 DEF CallsHaveJobs
<1>5. HeldWasAdded'
  BY <1>1 DEF HeldWasAdded
<1>6. AddingIsSaved'
  BY DEF AddingIsSaved
<1>7. DisablingIsOff'
  <2>1. \A b \in Admin : admin'[b].pc = "unschedule" => admin'[b] = admin[b]
    BY <1>1
  <2>. QED BY <2>1, <1>2 DEF DisablingIsOff
<1>8. EnabledHasEntry'
  <2>. SUFFICES ASSUME NEW k \in Job PROVE HasEntry(k)'
    BY DEF EnabledHasEntry
  <2>1. UnderWay(j)' /\ (UnderWay(k) => UnderWay(k)')
    BY <1>1 DEF UnderWay
  <2>2. CASE k = j
    BY <2>1, <2>2 DEF HasEntry
  <2>3. CASE k # j
    BY <1>2, <2>1, <2>3, UnscheduleKeepsEntries, HasEntryKept
  <2>. QED BY <2>2, <2>3
<1>. QED BY <1>3, <1>4, <1>5, <1>6, <1>7, <1>8

LEMMA RemoveStoredKeeps ==
  ASSUME CronInv, NEW a \in Admin, RemoveStored(a)
  PROVE  CronInv'
<1>. DEFINE j == admin[a].job
<1>. USE DEF RemoveStored, CronInv
<1>1. j \in Job /\ AdminReturns(a)
  BY DEF CallsHaveJobs
<1>2. /\ store' \in Jobs /\ disk' \in Jobs /\ store'.held = store.held \ {j}
      /\ store'.enabled = store.enabled
      /\ disk' = disk \/ disk' = store'
      /\ result' \in [Job -> {"new", "adding", "accepted", "rejected", "removed"}]
      /\ \A k \in Job \ {j} : result'[k] = result[k]
      /\ result'[j] = IF j \in store.held THEN "removed" ELSE result[j]
  BY <1>1 DEF CronTypeOK, Jobs, SaveJobs
<1>3. CronTypeOK' /\ OneEntryPerJob'
  BY <1>1, <1>2, GoesChanges, EntriesKept DEF CronTypeOK
<1>4. CallsHaveJobs'
  BY <1>1, GoesChanges
<1>5. HeldWasAdded'
  <2>1. \A k \in Job : result'[k] = "new" => result[k] = "new"
    BY <1>2
  <2>2. \A b \in Admin : admin'[b].pc # "idle" =>
          admin'[b].job = admin[b].job /\ admin[b].pc # "idle" /\ admin[b].job \in Job
    BY <1>1, GoesChanges DEF CallsHaveJobs
  <2>. QED BY <1>1, <1>2, <2>1, <2>2 DEF HeldWasAdded
<1>6. AddingIsSaved'
  BY <1>1, <1>2 DEF AddingIsSaved
<1>7. DisablingIsOff'
  BY <1>1, <1>2, GoesChanges DEF DisablingIsOff
<1>8. EnabledHasEntry'
  <2>. SUFFICES ASSUME NEW k \in Job PROVE HasEntry(k)'
    BY DEF EnabledHasEntry
  <2>1. CASE k # j
    BY <1>1, <1>2, <2>1, GoesChanges, HasEntryKept
  <2>2. CASE k = j
    BY <1>2, <2>2 DEF HasEntry
  <2>. QED BY <2>1, <2>2
<1>. QED BY <1>3, <1>4, <1>5, <1>6, <1>7, <1>8

-----------------------------------------------------------------------------
\* Start(): the job it looks at is under way until it is scheduled or found off.
LEMMA StartKeeps ==
  ASSUME CronInv, StartList \/ StartDone \/ \E j \in Job : StartJob(j)
  PROVE  CronInv'
<1>. USE DEF CronInv
<1>1. UNCHANGED <<store, disk, entries, live, admin, run, result, crossed, requests, lost>>
  BY DEF StartList, StartDone, StartJob
<1>2. /\ starter' \in [pc : {"list", "jobs", "schedule", "up"}, todo : SUBSET Job,
                      job : Job \union {None}]
      /\ CallsHaveJobs'
  BY <1>1 DEF StartList, StartDone, StartJob, CronTypeOK, CallsHaveJobs, Jobs
<1>3. CronTypeOK' /\ OneEntryPerJob'
  BY <1>1, <1>2, EntriesKept DEF CronTypeOK
<1>4. HeldWasAdded' /\ AddingIsSaved' /\ DisablingIsOff'
  BY <1>1 DEF HeldWasAdded, AddingIsSaved, DisablingIsOff
<1>5. EnabledHasEntry'
  <2>. SUFFICES ASSUME NEW k \in Job, k \in store.held, k \in store.enabled PROVE HasEntry(k)'
    BY <1>1 DEF EnabledHasEntry, HasEntry
  <2>1. UnderWay(k) => UnderWay(k)'
    <3>1. CASE StartList
      BY <1>1, <3>1 DEF StartList, UnderWay
    <3>2. CASE StartDone
      BY <1>1, <3>2 DEF StartDone, UnderWay, CronTypeOK
    <3>3. CASE \E j \in Job : StartJob(j)
      BY <1>1, <3>3 DEF StartJob, UnderWay, CronTypeOK, CallsHaveJobs
    <3>. QED BY <3>1, <3>2, <3>3
  <2>. QED BY <1>1, <2>1, HasEntryKept
<1>. QED BY <1>2, <1>3, <1>4, <1>5

LEMMA StartScheduleKeeps ==
  ASSUME CronInv, StartSchedule
  PROVE  CronInv'
<1>. USE DEF StartSchedule, CronInv
<1>1. starter.job \in Job /\ ScheduleJob(starter.job)
  BY DEF CallsHaveJobs
<1>2. CronTypeOK' /\ OneEntryPerJob'
  BY <1>1, ScheduleKeepsEntries DEF CronTypeOK
<1>3. CallsHaveJobs' /\ HeldWasAdded' /\ AddingIsSaved' /\ DisablingIsOff'
  BY DEF CronTypeOK, CallsHaveJobs, HeldWasAdded, AddingIsSaved, DisablingIsOff
<1>4. EnabledHasEntry'
  <2>. SUFFICES ASSUME NEW k \in Job PROVE HasEntry(k)'
    BY DEF EnabledHasEntry
  <2>1. CASE k # starter.job
    <3>1. UnderWay(k) => UnderWay(k)'
      BY <2>1 DEF UnderWay, CronTypeOK
    <3>. QED BY <1>1, <2>1, <3>1, ScheduleKeepsEntries, HasEntryKept
  <2>2. CASE k = starter.job
    BY <1>1, <2>2, ScheduleKeepsEntries DEF HasEntry
  <2>. QED BY <2>1, <2>2
<1>. QED BY <1>2, <1>3, <1>4

\* An execution changes its own goroutine and, at the end, may save the store.
LEMMA RunKeeps ==
  ASSUME CronInv, NEW r \in Run,
         ExecuteJob(r) \/ MarkRun(r) \/ \E e \in Entry : FireEntry(r, e)
  PROVE  CronInv'
<1>. USE DEF CronInv
<1>1. /\ UNCHANGED <<store, entries, live, starter, admin, result, crossed, requests, lost>>
      /\ disk' = disk \/ disk' = store
  BY DEF ExecuteJob, MarkRun, FireEntry, SaveJobs
<1>2. run' \in [Run -> [pc : {"idle", "fired", "running"}, job : Job \union {None}]]
  BY DEF ExecuteJob, MarkRun, FireEntry, CronTypeOK, IdleAdmin
<1>3. CronTypeOK' /\ OneEntryPerJob'
  BY <1>1, <1>2, EntriesKept DEF CronTypeOK
<1>4. CallsHaveJobs' /\ HeldWasAdded' /\ AddingIsSaved' /\ DisablingIsOff'
  BY <1>1 DEF CallsHaveJobs, HeldWasAdded, AddingIsSaved, DisablingIsOff
<1>5. EnabledHasEntry'
  BY <1>1 DEF EnabledHasEntry, HasEntry, UnderWay
<1>. QED BY <1>3, <1>4, <1>5

\* After a crash every job of the file waits for Start().
LEMMA DieKeeps == ASSUME CronInv, Die PROVE CronInv'
<1>. USE DEF Die, CronInv
<1>0. /\ store' \in Jobs /\ lost' \subseteq Job /\ store'.held \subseteq disk.held
      /\ \A j \in disk.held : j \in store'.held \/ j \in lost'
      /\ \A j \in Job : j \in lost \ disk.held => j \in lost'
  BY DEF LoadJobs, CronTypeOK, Jobs
<1>1. CronTypeOK' /\ OneEntryPerJob'
  BY <1>0 DEF CronTypeOK, OneEntryPerJob, IdleAdmin, Booting
<1>2. CallsHaveJobs' /\ HeldWasAdded' /\ AddingIsSaved' /\ DisablingIsOff'
  BY <1>0 DEF CallsHaveJobs, HeldWasAdded, AddingIsSaved, DisablingIsOff, IdleAdmin, Booting
<1>3. EnabledHasEntry'
  BY DEF EnabledHasEntry, HasEntry, UnderWay, Booting
<1>. QED BY <1>1, <1>2, <1>3

LEMMA NextCron ==
  ASSUME CronInv, [CronNext]_cronVars
  PROVE  CronInv'
<1>1. CASE UNCHANGED cronVars
  BY <1>1 DEF cronVars, CronInv, CronTypeOK, OneEntryPerJob, CallsHaveJobs, HeldWasAdded,
     AddingIsSaved, DisablingIsOff, EnabledHasEntry, HasEntry, UnderWay
<1>2. CASE \E a \in Admin, j \in Job :
             \/ CmdCronAdd(a, j) \/ HandleCronAdd(a, j)
             \/ CmdCronDel(a, j) \/ HandleCronDel(a, j)
             \/ \E enable \in BOOLEAN : CmdCronToggle(a, j, enable)
  BY <1>2, AddJobKeeps, RemoveEntryKeeps, SetEnabledKeeps
  DEF CmdCronAdd, HandleCronAdd, CmdCronDel, HandleCronDel, CmdCronToggle
<1>3. CASE \E a \in Admin : GetEnabled(a) \/ Schedule(a) \/ Unschedule(a) \/ RemoveStored(a)
  BY <1>3, GetEnabledKeeps, ScheduleKeeps, UnscheduleKeeps, RemoveStoredKeeps
<1>4. CASE StartList \/ StartDone \/ \E j \in Job : StartJob(j)
  BY <1>4, StartKeeps
<1>5. CASE StartSchedule
  BY <1>5, StartScheduleKeeps
<1>6. CASE \E r \in Run : ExecuteJob(r) \/ MarkRun(r) \/ \E e \in Entry : FireEntry(r, e)
  BY <1>6, RunKeeps
<1>7. CASE Die
  BY <1>7, DieKeeps
<1>. QED BY <1>1, <1>2, <1>3, <1>4, <1>5, <1>6, <1>7 DEF CronNext

\* What calls, Start(), the library and crashes leave of the scheduler's state: the
\* inductive invariant of core/cron.go.
THEOREM CronInvariance == CronSpec => []CronInv
<1>1. CronInit => CronInv
  BY InitCron
<1>2. CronInv /\ [CronNext]_cronVars => CronInv'
  BY NextCron
<1>. QED BY <1>1, <1>2, PTL DEF CronSpec

\* A tick runs each accepted and enabled job, and runs it once: each live entry
\* is the one its job is scheduled under, an accepted and enabled job has one
\* unless two calls for it crossed, and the file and the store have each accepted job,
\* unless a start could not load the file.
THEOREM JobsFire == CronSpec => []JobsFireOnce
<1>1. CronInv => JobsFireOnce
  <2>. SUFFICES ASSUME CronInv PROVE JobsFireOnce
    OBVIOUS
  <2>1. OneEntryPerJob /\ AcceptedIsSaved
    BY DEF CronInv, AddingIsSaved, AcceptedIsSaved
  <2>2. EnabledIsScheduled
    BY DEF CronInv, CronTypeOK, Jobs, EnabledHasEntry, HasEntry, EnabledIsScheduled
  <2>. QED BY <2>1, <2>2 DEF JobsFireOnce
<1>. QED BY <1>1, CronInvariance, PTL

-----------------------------------------------------------------------------
(* core/relay.go: the relay between bots.

   A relay resumes the conversation of the last answer of its target, for
   any number of projects, requests, bindings and conversations.

   Two relays share the session of the relay key without a lock. Both
   writers other than a result look first: the text of an agent and the
   start of a new conversation leave a session that has one alone, unless
   it got it between their check and their store; overwritten remembers
   those. *)

\* cmdBind adds the projects it was given, and writes while it adds.
BinderOK ==
  /\ binder.pc # "idle" => binder.self \in Bot /\ binder.other \in Bot
  /\ writing # 0 => binder.pc \in {"self", "other"}

\* A request that goes on has a target.
TargetsOK == \A r \in Request : relay[r].pc # "idle" => relay[r].to \in Bot

\* The session of a target that has answered is bound to that conversation, unless it
\* was overwritten since.
AnswerKept ==
  \A b \in Bot : lastAnswer[b] # 0 /\ b \notin overwritten => agentSessionID[b] = lastAnswer[b]

RelayRecord == [pc : {"idle", "found", "start", "started", "store", "run", "text"},
                to : Bot \union {NoBot}, object : 0..MaxBinding, conv : RelayConv]

\* RelayTypeOK in two parts: what requests change, and what /bind changes.
ConvTypeOK ==
  /\ relay \in [Request -> RelayRecord]
  /\ agentSessionID \in [Bot -> RelayConv] /\ lastAnswer \in [Bot -> RelayConv]
  /\ convs \in RelayConv /\ overwritten \subseteq Bot

RelayTablesOK ==
  /\ engines \subseteq Bot
  /\ binding \in 0..MaxBinding
  /\ bots \in [Object -> SUBSET Bot]
  /\ made \in 0..MaxBinding /\ writing \in 0..MaxBinding
  /\ binder \in [pc : {"idle", "self", "other", "get"}, self : Bot \union {NoBot},
                 other : Bot \union {NoBot}]
  /\ fatal \in {"no", "race", "nil"}

RelayInv == ConvTypeOK /\ RelayTablesOK /\ BinderOK /\ TargetsOK /\ AnswerKept

HIDE CronAssumption
USE RelayAssumption DEF RelayRecord

-----------------------------------------------------------------------------
(* The table of bindings and /bind, which touch no request.                *)

LEMMA TableKeeps ==
  ASSUME RelayInv,
         \/ \E set \in SUBSET Bot : Bind(set)
         \/ Unbind \/ BeginAdd \/ EndAdd \/ CmdBindReplies \/ CmdBindStatus
         \/ \E b \in Bot : RemoveFromBind(b)
         \/ \E self, other \in Bot : CmdBind(self, other)
  PROVE  RelayInv'
<1>. USE DEF RelayInv
<1>1. UNCHANGED <<engines, relay, agentSessionID, lastAnswer, overwritten, convs>>
  BY DEF Bind, Unbind, BeginAdd, EndAdd, CmdBindReplies, CmdBindStatus, RemoveFromBind, CmdBind
<1>2. ConvTypeOK' /\ TargetsOK' /\ AnswerKept'
  BY <1>1 DEF ConvTypeOK, TargetsOK, AnswerKept
<1>3. RelayTablesOK' /\ BinderOK'
  <2>. USE DEF RelayTablesOK, BinderOK
  <2>1. ASSUME NEW set \in SUBSET Bot, Bind(set) PROVE RelayTablesOK' /\ BinderOK'
    BY <2>1 DEF Bind, Object
  <2>2. CASE Unbind \/ CmdBindStatus
    BY <2>2 DEF Unbind, CmdBindStatus, Unlocked
  <2>3. ASSUME NEW b \in Bot, RemoveFromBind(b) PROVE RelayTablesOK' /\ BinderOK'
    BY <2>3 DEF RemoveFromBind, BoundBots, Object
  <2>4. CASE BeginAdd
    BY <2>4 DEF BeginAdd
  <2>5. CASE EndAdd
    BY <2>5 DEF EndAdd, Object
  <2>6. ASSUME NEW self \in Bot, NEW other \in Bot, CmdBind(self, other)
        PROVE  RelayTablesOK' /\ BinderOK'
    BY <2>6 DEF CmdBind
  <2>7. CASE CmdBindReplies
    BY <2>7 DEF CmdBindReplies, LockFree
  <2>. QED BY <2>1, <2>2, <2>3, <2>4, <2>5, <2>6, <2>7
<1>. QED BY <1>2, <1>3

-----------------------------------------------------------------------------
(* The requests.                                                           *)

\* A request leaves the table alone.
LEMMA TableStays ==
  ASSUME RelayInv, UNCHANGED <<engines, binding, bots, made, writing, binder>>,
         fatal' \in {"no", "race", "nil"}
  PROVE  RelayTablesOK' /\ BinderOK'
BY DEF RelayInv, RelayTablesOK, BinderOK

\* A request that ends refers to nothing.
LEMMA FinishKeeps ==
  ASSUME RelayInv, NEW r \in Request, Finish(r)
  PROVE  /\ relay' \in [Request -> RelayRecord]
         /\ TargetsOK'
BY DEF Finish, IdleRelay, RelayConv, RelayInv, ConvTypeOK, TargetsOK

\* A request that goes on keeps its target.
LEMMA GoesOnKeeps ==
  ASSUME RelayInv, NEW r \in Request, relay[r].pc # "idle",
         NEW pc \in {"start", "started", "store", "run", "text"}, NEW o \in 0..MaxBinding, NEW c \in RelayConv,
         \/ relay' = [relay EXCEPT ![r].pc = pc, ![r].object = o]
         \/ relay' = [relay EXCEPT ![r].pc = pc, ![r].conv = c]
  PROVE  /\ relay' \in [Request -> RelayRecord]
         /\ TargetsOK'
<1>1. relay \in [Request -> RelayRecord]
  BY DEF RelayInv, ConvTypeOK
<1>2. relay' \in [Request -> RelayRecord]
  BY <1>1
<1>3. relay'[r].to = relay[r].to /\ \A q \in Request \ {r} : relay'[q] = relay[q]
  BY <1>1
<1>4. TargetsOK'
  BY <1>3 DEF RelayInv, TargetsOK
<1>. QED BY <1>2, <1>4

LEMMA RequestKeeps ==
  ASSUME RelayInv, NEW r \in Request,
         \/ \E to \in Bot : RelaySend(r, to)
         \/ CheckBound(r) \/ StartFails(r) \/ RelayEnds(r)
         \/ LooksAfterStart(r) \/ RelayText(r)
  PROVE  RelayInv'
<1>. USE DEF RelayInv, LooksAfterStart, RelayText
<1>1. UNCHANGED <<engines, binding, bots, made, writing, binder, agentSessionID, lastAnswer,
                  overwritten, convs>>
  BY DEF RelaySend, CheckBound, StartFails, RelayEnds, LookAtSession
<1>2. fatal' \in {"no", "race", "nil"}
  BY DEF RelaySend, CheckBound, Unlocked, StartFails, RelayEnds, LookAtSession, RelayTablesOK
<1>3. AnswerKept'
  BY <1>1 DEF AnswerKept
<1>4. ConvTypeOK' /\ TargetsOK'
  <2>. USE DEF ConvTypeOK, TargetsOK
  <2>1. ASSUME NEW to \in Bot, RelaySend(r, to) PROVE ConvTypeOK' /\ TargetsOK'
    <3>1. binding \in 0..MaxBinding /\ 0 \in RelayConv
      BY DEF RelayTablesOK, RelayConv
    <3>. QED BY <1>1, <2>1, <3>1 DEF RelaySend, IdleRelay
  <2>2. CASE Finish(r)
    BY <1>1, <2>2, FinishKeeps
  <2>3. CASE relay[r].pc = "found" /\ relay' = [relay EXCEPT ![r].pc = "start", ![r].object = 0]
    <3>1. relay[r].pc # "idle" /\ 0 \in 0..MaxBinding /\ 0 \in RelayConv
      BY <2>3 DEF RelayConv
    <3>. QED BY <1>1, <2>3, <3>1, GoesOnKeeps
  <2>4. ASSUME LookAtSession(r, "started", "store") \/ LookAtSession(r, "run", "text")
        PROVE  ConvTypeOK' /\ TargetsOK'
    <3>1. PICK pc \in {"store", "text", "run"} : relay' = [relay EXCEPT ![r].pc = pc]
      BY <2>4 DEF LookAtSession
    <3>2. relay \in [Request -> RelayRecord] /\ relay[r].pc # "idle"
      BY <2>4 DEF LookAtSession
    <3>. QED BY <1>1, <3>1, <3>2
  <2>. QED BY <2>1, <2>2, <2>3, <2>4 DEF CheckBound, StartFails, RelayEnds
<1>. QED BY <1>1, <1>2, <1>3, <1>4, TableStays

\* A new conversation is begun only for a session that has none, and stored later.
LEMMA StartRelayKeeps ==
  ASSUME RelayInv, NEW r \in Request, StartRelay(r)
  PROVE  RelayInv'
<1>. USE DEF RelayInv
<1>1. relay[r].to \in Bot /\ relay[r].pc # "idle"
      /\ UNCHANGED <<engines, binding, bots, made, writing, binder, agentSessionID, lastAnswer,
                     overwritten, fatal>>
  BY DEF StartRelay, TargetsOK
<1>2. RelayTablesOK' /\ BinderOK'
  BY <1>1, TableStays DEF RelayTablesOK
<1>3. \E c \in RelayConv :
        relay' = [relay EXCEPT ![r].pc = "started", ![r].conv = c] /\ convs' \in RelayConv
  BY <1>1 DEF StartRelay, ConvTypeOK, RelayConv
<1>4. ConvTypeOK' /\ TargetsOK'
  <2>1. PICK c \in RelayConv : relay' = [relay EXCEPT ![r].pc = "started", ![r].conv = c]
    BY <1>3
  <2>2. 0 \in 0..MaxBinding
    BY DEF RelayTablesOK
  <2>3. relay' \in [Request -> RelayRecord] /\ TargetsOK'
    BY <1>1, <2>1, <2>2, GoesOnKeeps
  <2>. QED BY <1>1, <1>3, <2>3 DEF ConvTypeOK
<1>5. AnswerKept'
  BY <1>1 DEF AnswerKept
<1>. QED BY <1>2, <1>4, <1>5

\* What an agent calls its conversation is one.
LEMMA NamedIsConv ==
  ASSUME RelayInv, NEW r \in Request, NEW conv \in Named(r), Opens(conv)
  PROVE  conv \in RelayConv /\ convs' \in RelayConv
BY DEF Named, Opens, RelayInv, ConvTypeOK, RelayConv

\* A store from a check that came before the answer marks the target.
LEMMA StoreMarks ==
  ASSUME RelayInv, NEW to \in Bot, NEW id \in RelayConv, StoreInSession(to, id),
         UNCHANGED lastAnswer
  PROVE  /\ agentSessionID' \in [Bot -> RelayConv] /\ overwritten' \subseteq Bot
         /\ AnswerKept'
<1>1. agentSessionID' \in [Bot -> RelayConv] /\ overwritten' \subseteq Bot
  BY DEF StoreInSession, RelayInv, ConvTypeOK
<1>2. \A b \in Bot : b # to => agentSessionID'[b] = agentSessionID[b]
  BY DEF StoreInSession, RelayInv, ConvTypeOK
<1>3. to \notin overwritten' => to \notin overwritten /\ agentSessionID[to] = 0
  BY DEF StoreInSession
<1>4. \A b \in Bot : b \notin overwritten' => b \notin overwritten
  BY DEF StoreInSession
<1>. QED BY <1>1, <1>2, <1>3, <1>4 DEF RelayInv, AnswerKept

LEMMA StoresKeep ==
  ASSUME RelayInv, NEW r \in Request, StoresCurrent(r) \/ StoresText(r)
  PROVE  RelayInv'
<1>. USE DEF RelayInv
<1>1. relay[r].to \in Bot /\ relay[r].pc # "idle" /\ relay[r].conv \in RelayConv
      /\ UNCHANGED <<engines, binding, bots, made, writing, binder, lastAnswer, fatal>>
  BY DEF StoresCurrent, StoresText, TargetsOK, ConvTypeOK
<1>2. RelayTablesOK' /\ BinderOK'
  BY <1>1, TableStays DEF RelayTablesOK
<1>3. PICK id \in RelayConv, c \in RelayConv :
        /\ StoreInSession(relay[r].to, id)
        /\ relay' = [relay EXCEPT ![r].pc = "run", ![r].conv = c]
        /\ convs' \in RelayConv
  <2>1. CASE StoresCurrent(r)
    <3>1. relay' = [relay EXCEPT ![r].pc = "run", ![r].conv = relay[r].conv]
      BY <2>1 DEF StoresCurrent, ConvTypeOK
    <3>2. PICK id \in {0, relay[r].conv} : StoreInSession(relay[r].to, id)
      BY <2>1 DEF StoresCurrent
    <3>3. id \in RelayConv /\ convs' \in RelayConv
      BY <1>1, <2>1 DEF StoresCurrent, ConvTypeOK, RelayConv
    <3>. QED BY <1>1, <3>1, <3>2, <3>3
  <2>2. CASE StoresText(r)
    BY <2>2, NamedIsConv DEF StoresText
  <2>. QED BY <2>1, <2>2
<1>4. 0 \in 0..MaxBinding
  BY DEF RelayTablesOK
<1>5. relay' \in [Request -> RelayRecord] /\ TargetsOK'
  BY <1>1, <1>3, <1>4, GoesOnKeeps
<1>6. agentSessionID' \in [Bot -> RelayConv] /\ overwritten' \subseteq Bot /\ AnswerKept'
  BY <1>1, <1>3, StoreMarks
<1>. QED BY <1>1, <1>2, <1>3, <1>5, <1>6 DEF ConvTypeOK

LEMMA RelayResultKeeps ==
  ASSUME RelayInv, NEW r \in Request, RelayResult(r)
  PROVE  RelayInv'
<1>. USE DEF RelayInv
<1>1. relay[r].to \in Bot /\ UNCHANGED <<engines, binding, bots, made, writing, binder,
                                         fatal>>
  BY DEF RelayResult, TargetsOK
<1>2. RelayTablesOK' /\ BinderOK'
  BY <1>1, TableStays DEF RelayTablesOK
<1>3. relay' \in [Request -> RelayRecord] /\ TargetsOK'
  BY FinishKeeps DEF RelayResult
<1>4. CASE UNCHANGED <<agentSessionID, lastAnswer, overwritten, convs>>
  BY <1>2, <1>3, <1>4 DEF ConvTypeOK, AnswerKept
<1>5. ASSUME NEW conv \in Named(r), Opens(conv),
             agentSessionID' = [agentSessionID EXCEPT ![relay[r].to] = conv],
             lastAnswer' = [lastAnswer EXCEPT ![relay[r].to] = conv],
             overwritten' = overwritten \ {relay[r].to}
      PROVE  RelayInv'
  <2>1. conv \in RelayConv /\ convs' \in RelayConv
    BY <1>5, NamedIsConv
  <2>2. ConvTypeOK'
    BY <1>1, <1>3, <1>5, <2>1 DEF ConvTypeOK
  <2>3. AnswerKept'
    BY <1>1, <1>5 DEF ConvTypeOK, AnswerKept
  <2>. QED BY <1>2, <1>3, <2>2, <2>3
<1>. QED BY <1>4, <1>5 DEF RelayResult

-----------------------------------------------------------------------------
(* The theorems.                                                           *)

\* Types hold, and the session of a target that has answered is bound to the
\* conversation its last answer named, unless it was overwritten since.
THEOREM RelayInvariance == RelaySpec => []RelayInv
<1>1. RelayInit => RelayInv
  BY DEF RelayInit, RelayInv, ConvTypeOK, RelayTablesOK, BinderOK, TargetsOK, AnswerKept, IdleRelay, Object, RelayConv
<1>2. RelayInv /\ [RelayNext]_relayVars => RelayInv'
  <2>. SUFFICES ASSUME RelayInv, [RelayNext]_relayVars PROVE RelayInv'
    OBVIOUS
  <2>1. CASE UNCHANGED relayVars
    BY <2>1 DEF relayVars, RelayInv, ConvTypeOK, RelayTablesOK, BinderOK, TargetsOK, AnswerKept
  <2>. QED BY <2>1, TableKeeps, RequestKeeps, StartRelayKeeps, StoresKeep, RelayResultKeeps
           DEF RelayNext
<1>. QED BY <1>1, <1>2, PTL DEF RelaySpec

\* Every variable of the relay has its type.
THEOREM RelayTypeCorrect == RelaySpec => []RelayTypeOK
<1>1. RelayInv => RelayTypeOK
  BY DEF RelayInv, ConvTypeOK, RelayTablesOK, RelayTypeOK
<1>. QED BY <1>1, RelayInvariance, PTL

\* HandleRelay: a relay goes on in the conversation the last answer of its target
\* named, whichever relays overlap, fail or expire, unless a store from a stale check
\* came after that answer.
THEOREM LastAnswerResumed == RelaySpec => ResumesLastAnswer
<1>. DEFINE Resumes ==
       \A r \in Request :
         /\ relay[r].pc = "start" /\ relay'[r].pc = "started"
         /\ lastAnswer[relay[r].to] # 0 /\ relay[r].to \notin overwritten
         => relay'[r].conv = lastAnswer[relay[r].to]
<1>1. RelayInv /\ [RelayNext]_relayVars => [Resumes]_relayVars
  <2>. SUFFICES ASSUME RelayInv, RelayNext,
                       NEW r \in Request, relay[r].pc = "start", relay'[r].pc = "started",
                       lastAnswer[relay[r].to] # 0, relay[r].to \notin overwritten
                PROVE  relay'[r].conv = lastAnswer[relay[r].to]
    OBVIOUS
  <2>1. relay \in [Request -> RelayRecord]
    BY DEF RelayInv, ConvTypeOK
  <2>2. agentSessionID[relay[r].to] = lastAnswer[relay[r].to]
    BY DEF RelayInv, TargetsOK, AnswerKept
  <2>3. ASSUME NEW q \in Request, StartRelay(q) PROVE relay'[r].conv = lastAnswer[relay[r].to]
    <3>1. q = r
      BY <2>1, <2>3 DEF StartRelay
    <3>. QED BY <2>1, <2>2, <2>3, <3>1 DEF StartRelay
  <2>4. ASSUME NEW q \in Request,
               \/ \E to \in Bot : RelaySend(q, to)
               \/ CheckBound(q) \/ StartFails(q) \/ RelayResult(q) \/ RelayEnds(q)
               \/ LooksAfterStart(q) \/ StoresCurrent(q) \/ RelayText(q) \/ StoresText(q)
        PROVE  FALSE
    <3>1. ASSUME NEW to \in Bot, RelaySend(q, to) PROVE FALSE
      BY <2>1, <3>1 DEF RelaySend, IdleRelay
    <3>2. CASE CheckBound(q)
      BY <2>1, <3>2 DEF CheckBound, Finish, IdleRelay
    <3>3. CASE StartFails(q) \/ RelayResult(q) \/ RelayEnds(q)
      BY <2>1, <3>3 DEF StartFails, RelayResult, RelayEnds, Finish, IdleRelay
    <3>4. CASE LooksAfterStart(q) \/ RelayText(q)
      BY <2>1, <3>4 DEF LooksAfterStart, RelayText, LookAtSession
    <3>5. CASE StoresCurrent(q) \/ StoresText(q)
      BY <2>1, <3>5 DEF StoresCurrent, StoresText
    <3>. QED BY <2>4, <3>1, <3>2, <3>3, <3>4, <3>5
  <2>5. CASE UNCHANGED relay
    BY <2>5
  <2>. QED
    BY <2>3, <2>4, <2>5 DEF RelayNext, Bind, Unbind, RemoveFromBind, BeginAdd, EndAdd, CmdBind, CmdBindReplies,
       CmdBindStatus
<1>. QED BY <1>1, RelayInvariance, PTL DEF RelaySpec, ResumesLastAnswer

-----------------------------------------------------------------------------
(* The parts around the engine next to each other.

   A behaviour of the instance is one of a single part, so each of them keeps what it
   keeps alone. *)

\* The state of every part around the engine stays well formed, for any sizes of the
\* instance (cron.go, qqbot.go, qq.go, relay.go, iflow/session.go, config.go, engine.go,
\* main.go and updater.go).
THEOREM EdgesTypeCorrect == Spec => []EdgesTypeOK
<1>. DEFINE PartOK == part \in {"cron", "gateway", "onebot", "relay", "iflow", "settings",
                               "conversations", "dispatch", "lifecycle", "upgrade", "sender"}
<1>1. Init => /\ PartOK
              /\ CronInit /\ GatewayInit /\ OneBotInit /\ RelayInit /\ IFlowInit /\ SettingsInit
              /\ ConversationInit /\ DispatchInit /\ LifecycleInit /\ UpgradeInit /\ SenderInit
  BY Zenon DEF Init
<1>2. [Next]_edgesVars =>
        /\ [CronNext]_cronVars /\ [GatewayNext]_gatewayVars /\ [OneBotNext]_onebotVars
        /\ [RelayNext]_relayVars /\ [IFlowNext]_iflowVars /\ [SettingsNext]_settingsVars
        /\ [ConversationNext]_conversationVars /\ [DispatchNext]_dispatchVars
        /\ [LifecycleNext]_lifecycleVars /\ [UpgradeNext]_upgradeVars /\ [SenderNext]_senderVars
        /\ UNCHANGED part
  BY Zenon DEF Next, edgesVars
<1>3. PartOK /\ UNCHANGED part => PartOK'
  OBVIOUS
<1>. HIDE DEF PartOK
<1>4. Spec => /\ CronSpec /\ GatewaySpec /\ OneBotSpec /\ RelaySpec /\ IFlowSpec /\ SettingsSpec
              /\ ConversationSpec /\ DispatchSpec /\ LifecycleSpec /\ UpgradeSpec /\ SenderSpec
              /\ []PartOK
  BY <1>1, <1>2, <1>3, PTL
     DEF Spec, CronSpec, GatewaySpec, OneBotSpec, RelaySpec, IFlowSpec, SettingsSpec,
         ConversationSpec, DispatchSpec, LifecycleSpec, UpgradeSpec, SenderSpec
<1>5. CronInv => CronTypeOK
  BY DEF CronInv
<1>6. /\ PartOK /\ CronTypeOK /\ GatewayTypeOK /\ OneBotTypeOK /\ RelayTypeOK /\ IFlowTypeOK
      /\ SettingsTypeOK /\ ConversationTypeOK /\ DispatchTypeOK /\ LifecycleTypeOK
      /\ UpgradeTypeOK /\ SenderTypeOK
      => EdgesTypeOK
  BY DEF PartOK, EdgesTypeOK
<1>. QED BY <1>4, <1>5, <1>6, CronInvariance, GatewayTypeCorrect, OneBotTypeCorrect,
            RelayTypeCorrect, IFlowTypeCorrect, SettingsTypeCorrect, ConversationTypeCorrect,
            DispatchTypeCorrect, LifecycleTypeCorrect, UpgradeTypeCorrect, SenderTypeCorrect, PTL
=============================================================================
