----------------------------- MODULE Lifecycle -----------------------------
(***************************************************************************)
(* The life of the process (cmd/cc-connect/main.go): the engines start and *)
(* take messages before cron, the API and the relay are there; main then   *)
(* announces the restart it comes from and waits for a signal or for       *)
(* /restart and /upgrade confirm (core/engine.go), which speak to it       *)
(* through RestartCh. A restart stops everything in the order of the start,*)
(* leaves a file with the chat that asked, and replaces the process by     *)
(* itself; the file outlives a failure of that and every crash.            *)
(***************************************************************************)
EXTENDS Naturals, Sequences, FiniteSets

CONSTANTS
  Project,   \* one engine each, with one platform and a chat on it
  PlatformKind, \* names of platforms, which projects may share
  MaxStart,  \* bound on the processes
  MaxAsk,    \* bound on the commands of one process
  NoProject

ASSUME LifecycleAssumption ==
  NoProject \notin Project /\ MaxStart \in Nat /\ MaxAsk \in Nat

VARIABLES
  kind,       \* the platform of each project
  phase,      \* where main is
  todo,       \* the projects that the loop of main has still to visit
  up,         \* the projects whose platform listens
  failed,     \* the projects whose platform did not start
  relayed,    \* the projects that have the relay manager
  channel,    \* RestartCh, of capacity 1
  signalled,  \* sigCh holds a signal
  asking,     \* the handlers of /restart that have answered and not yet sent
  answered,   \* the chats whose /restart or /upgrade has returned
  taken,      \* restartReq
  notify,     \* the chat to tell, or the content of the file before it is read
  notifyFile, \* run/restart_notify
  told,       \* pairs of an engine and the chat it announced the restart to
  owed,       \* the chat whose restart brought this process up
  stale,      \* a process has ended with the file in place
  asks, starts

lifecycleVars == <<kind, phase, todo, up, failed, relayed, channel, signalled, asking,
                   answered, taken, notify, notifyFile, told, owed, stale, asks, starts>>

MaybeProject == Project \union {NoProject}
Coming == {"starting", "cron", "api", "notice", "announce"}
Going == {"stopCron", "stopApi", "stopping", "save", "exec"}

LifecycleTypeOK ==
  /\ kind \in [Project -> PlatformKind]
  /\ phase \in Coming \union Going \union {"down", "serving"}
  /\ todo \subseteq Project /\ failed \subseteq Project
  /\ up \subseteq Project \ failed
  /\ relayed \subseteq Project
  /\ channel \in Seq(Project) /\ Len(channel) <= 1
  /\ signalled \in BOOLEAN /\ stale \in BOOLEAN
  /\ asking \subseteq Project /\ answered \subseteq Project
  /\ {taken, notify, notifyFile, owed} \subseteq MaybeProject
  /\ told \subseteq Project \X Project
  /\ asks \in 0..MaxAsk /\ starts \in 0..MaxStart

LifecycleInit ==
  /\ kind \in [Project -> PlatformKind]
  /\ phase = "down"
  /\ todo = {} /\ up = {} /\ failed = {} /\ relayed = {}
  /\ channel = <<>> /\ signalled = FALSE /\ asking = {} /\ answered = {}
  /\ taken = NoProject /\ notify = NoProject /\ notifyFile = NoProject
  /\ told = {} /\ owed = NoProject /\ stale = FALSE
  /\ asks = 0 /\ starts = 0

\* What a process holds in its memory ends with it.
Forget ==
  /\ up' = {} /\ failed' = {} /\ relayed' = {}
  /\ channel' = <<>> /\ signalled' = FALSE /\ asking' = {} /\ answered' = {}
  /\ taken' = NoProject /\ notify' = NoProject
  /\ told' = {} /\ asks' = 0

Process == <<failed, relayed, channel, signalled, asking, answered, taken, notify, told,
             asks>>
Untouched == <<kind, notifyFile, owed, stale, starts>>

\* main from its first line to the engines: agents, platforms and callbacks are made.
Boot(asker) ==
  /\ starts < MaxStart
  /\ starts' = starts + 1
  /\ phase' = "starting" /\ todo' = Project
  /\ owed' = asker
  /\ Forget

MainExits ==
  /\ phase' = "down" /\ todo' = {}
  /\ owed' = NoProject
  /\ stale' = (stale \/ notifyFile # NoProject)
  /\ Forget

\* A user or the service manager starts the program.
Launch ==
  /\ phase = "down"
  /\ Boot(NoProject)
  /\ UNCHANGED <<kind, notifyFile, stale>>

\* A crash, or a signal before main has asked for signals.
Crash ==
  /\ phase # "down"
  /\ MainExits
  /\ UNCHANGED <<kind, notifyFile, starts>>

\* The loop of main goes on with the next project, or is left.
NextProject(p, next) ==
  /\ todo' = todo \ {p}
  /\ phase' = IF todo = {p} THEN next ELSE phase

-----------------------------------------------------------------------------
(* The start.                                                              *)

\* Engine.Start: messages may come from now on.
StartEngine(p) ==
  /\ phase = "starting" /\ p \in todo
  /\ NextProject(p, "cron")
  /\ up' = up \union {p}
  /\ UNCHANGED <<Untouched, Process>>

\* Its platform fails; main goes on while one engine is left.
StartEngineFails(p) ==
  /\ phase = "starting" /\ p \in todo
  /\ failed' = failed \union {p}
  /\ failed' # Project
  /\ NextProject(p, "cron")
  /\ UNCHANGED <<Untouched, up, relayed, channel, signalled, asking, answered, taken,
                 notify, told, asks>>

AllEnginesFail ==
  /\ phase = "starting" /\ todo # {}
  /\ failed \union todo = Project
  /\ MainExits
  /\ UNCHANGED <<kind, notifyFile, starts>>

\* CronScheduler.Start.
StartCron ==
  /\ phase = "cron"
  /\ phase' = "api" /\ todo' = Project
  /\ UNCHANGED <<Untouched, Process, up>>

\* The API server, with a relay manager that every engine is given ...
SetRelayManager(p) ==
  /\ phase = "api" /\ p \in todo
  /\ NextProject(p, "notice")
  /\ relayed' = relayed \union {p}
  /\ UNCHANGED <<Untouched, up, failed, channel, signalled, asking, answered, taken, notify,
                 told, asks>>

\* ... or, when its socket cannot be made, no API and no relay.
NewAPIServerFails ==
  /\ phase = "api" /\ todo = Project
  /\ phase' = "notice" /\ todo' = {}
  /\ UNCHANGED <<Untouched, Process, up>>

\* ConsumeRestartNotify reads the file and removes it.
ConsumeRestartNotify ==
  /\ phase = "notice"
  /\ notify' = notifyFile /\ notifyFile' = NoProject
  /\ IF notifyFile = NoProject THEN phase' = "serving" /\ todo' = {}
                         ELSE phase' = "announce" /\ todo' = Project
  /\ UNCHANGED <<kind, owed, stale, starts, up, failed, relayed, channel, signalled, asking,
                 answered, taken, told, asks>>

\* SendRestartNotification: every engine with a platform of that name speaks to the
\* chat that asked, if that platform is connected.
SendRestartNotification(p) ==
  /\ phase = "announce" /\ p \in todo
  /\ NextProject(p, "serving")
  /\ told' = IF kind[p] = kind[notify] /\ p \in up THEN told \union {<<p, notify>>} ELSE told
  /\ UNCHANGED <<Untouched, up, failed, relayed, channel, signalled, asking, answered,
                 taken, notify, asks>>

-----------------------------------------------------------------------------
(* The commands, which run whenever the platform listens, also before main *)
(* is ready and while it stops.                                            *)

\* cmdRestart answers ...
CmdRestart(p) ==
  /\ p \in up /\ p \notin asking
  /\ asks < MaxAsk
  /\ asks' = asks + 1
  /\ asking' = asking \union {p}
  /\ UNCHANGED <<Untouched, phase, todo, up, failed, relayed, channel, signalled, answered,
                 taken, notify, told>>

\* Mutant of SendRequest: a RestartCh without a buffer takes a request only while
\* main waits for it.
SendUnbuffered(p) ==
  /\ p \in asking
  /\ asking' = asking \ {p}
  /\ answered' = answered \union {p}
  /\ channel' = IF channel = <<>> /\ phase = "serving" THEN <<p>> ELSE channel
  /\ UNCHANGED <<Untouched, phase, todo, up, failed, relayed, signalled, taken, notify,
                 told, asks>>

\* ... and sends its request, unless one waits already.
SendRequest(p) ==
  /\ p \in asking
  /\ asking' = asking \ {p}
  /\ answered' = answered \union {p}
  /\ channel' = IF channel = <<>> THEN <<p>> ELSE channel
  /\ UNCHANGED <<Untouched, phase, todo, up, failed, relayed, signalled, taken, notify,
                 told, asks>>

\* cmdUpgradeConfirm: there is nothing to upgrade to, or the new version is in place
\* and the restart is asked for in the same way.
CmdUpgradeConfirm(p) ==
  /\ p \in up /\ p \notin asking
  /\ asks < MaxAsk
  /\ asks' = asks + 1
  /\ asking' \in {asking, asking \union {p}}
  /\ UNCHANGED <<Untouched, phase, todo, up, failed, relayed, channel, signalled, answered,
                 taken, notify, told>>

-----------------------------------------------------------------------------
(* The end.                                                                *)

\* SIGINT or SIGTERM, once main waits for it.
Signal ==
  /\ phase \in {"serving"} \union Going
  /\ ~signalled
  /\ signalled' = TRUE
  /\ UNCHANGED <<Untouched, phase, todo, up, failed, relayed, channel, asking, answered,
                 taken, notify, told, asks>>

\* The select of main: either, when both are ready.
TakeSignal ==
  /\ phase = "serving" /\ signalled
  /\ signalled' = FALSE
  /\ phase' = "stopCron"
  /\ UNCHANGED <<Untouched, todo, up, failed, relayed, channel, asking, answered, taken,
                 notify, told, asks>>

TakeRestart ==
  /\ phase = "serving" /\ channel # <<>>
  /\ taken' = Head(channel) /\ channel' = <<>>
  /\ phase' = "stopCron"
  /\ UNCHANGED <<Untouched, todo, up, failed, relayed, signalled, asking, answered, notify,
                 told, asks>>

\* No job starts any more; those that run are not waited for.
StopCron ==
  /\ phase = "stopCron"
  /\ phase' = "stopApi"
  /\ UNCHANGED <<Untouched, Process, todo, up>>

StopApi ==
  /\ phase = "stopApi"
  /\ phase' = "stopping" /\ todo' = Project
  /\ UNCHANGED <<Untouched, Process, up>>

\* Engine.Stop begins with the platform; what it does to the turns is in Engine.
StopEngine(p) ==
  /\ phase = "stopping" /\ p \in todo
  /\ NextProject(p, "save")
  /\ up' = up \ {p}
  /\ UNCHANGED <<Untouched, Process>>

\* main returns after a signal.
Bye ==
  /\ phase = "save" /\ taken = NoProject
  /\ MainExits
  /\ UNCHANGED <<kind, notifyFile, starts>>

\* SaveRestartNotify writes the file, or cannot.
SaveRestartNotify ==
  /\ phase = "save" /\ taken # NoProject
  /\ notifyFile' \in {taken, notifyFile}
  /\ phase' = "exec"
  /\ UNCHANGED <<kind, owed, stale, starts, Process, todo, up>>

\* restartProcess: the same program, with a memory of its own.
Exec ==
  /\ phase = "exec"
  /\ Boot(notifyFile)
  /\ UNCHANGED <<kind, notifyFile, stale>>

\* The program is gone, or cannot be executed: exit, with the file in place.
ExecFails ==
  /\ phase = "exec"
  /\ MainExits
  /\ UNCHANGED <<kind, notifyFile, starts>>

LifecycleNext ==
  \/ Launch \/ Crash \/ AllEnginesFail \/ StartCron \/ NewAPIServerFails
  \/ ConsumeRestartNotify \/ Signal \/ TakeSignal \/ TakeRestart
  \/ StopCron \/ StopApi \/ Bye \/ SaveRestartNotify \/ Exec \/ ExecFails
  \/ \E p \in Project :
       \/ StartEngine(p) \/ StartEngineFails(p) \/ SetRelayManager(p)
       \/ SendRestartNotification(p)
       \/ CmdRestart(p) \/ SendRequest(p) \/ CmdUpgradeConfirm(p)
       \/ StopEngine(p)

LifecycleSpec == LifecycleInit /\ [][LifecycleNext]_lifecycleVars

-----------------------------------------------------------------------------
(* What the user of /restart is promised.                                  *)

\* A chat that was answered "restarting" is restarted for, whenever it asked: its
\* request, or one before it, waits for main until main stops. The process that
\* comes up tells the chat whose request was taken, through every engine that has
\* its platform, and no other, unless a process ended before it could tell.
RestartIsKept ==
  /\ answered # {} /\ phase \in Coming \union {"serving"} => channel # <<>>
  /\ phase = "serving" /\ owed # NoProject =>
       told = {p \in up : kind[p] = kind[owed]} \X {owed}
  /\ told # {} /\ ~stale => told \subseteq Project \X {owed}
=============================================================================
