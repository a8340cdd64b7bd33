---------------------------- MODULE ProcessProofs ---------------------------
(***************************************************************************)
(* The life of the process and its upgrade, for any number of projects,    *)
(* commands, starts, releases and chats that upgrade, and of the processes *)
(* of an iflow session, for any number of prompts, lines and callbacks.    *)
(***************************************************************************)
EXTENDS Lifecycle, Upgrade, IFlowSession, SequenceTheorems, TLAPS

-----------------------------------------------------------------------------
(* cmd/cc-connect/main.go: /restart.

   A request lies in RestartCh from the answer on until main takes it; the
   file run/restart_notify carries the chat to the next process. Where a
   process stands tells where the chat is by now: still in the file until
   ConsumeRestartNotify, in notify while the engines announce it.

   Without a stale file the file a process finds is the one it was started
   with. *)

USE LifecycleAssumption

\* No engine is started twice.
StartOK == phase = "starting" => todo \cap (up \union failed) = {}

\* Before ConsumeRestartNotify, while the engines announce, and between processes.
NotifyOK ==
  /\ phase \in {"starting", "cron", "api", "notice"} =>
       told = {} /\ (owed # NoProject \/ ~stale => notifyFile = owed)
  /\ phase = "announce" =>
       /\ told = {p \in up \ todo : kind[p] = kind[notify]} \X {notify}
       /\ notify # NoProject /\ (owed # NoProject \/ ~stale => notify = owed)
  /\ phase = "down" => /\ told = {} /\ answered = {} /\ asking = {} /\ up = {}
                       /\ stale \/ notifyFile = NoProject

LifecycleInv == LifecycleTypeOK /\ StartOK /\ NotifyOK /\ RestartIsKept

\* What main does before and after it serves.
LEMMA PhasesKeep ==
  ASSUME LifecycleInv,
         \/ Launch \/ Crash \/ AllEnginesFail \/ StartCron \/ NewAPIServerFails
         \/ Signal \/ TakeSignal \/ TakeRestart
         \/ StopCron \/ StopApi \/ Bye \/ SaveRestartNotify \/ Exec \/ ExecFails
  PROVE  LifecycleInv'
<1>. USE DEF LifecycleInv
<1>1. ASSUME NEW asker \in MaybeProject, Boot(asker), UNCHANGED <<kind, notifyFile, stale>>,
             asker # NoProject \/ ~stale => notifyFile = asker
      PROVE  LifecycleInv'
  <2>1. LifecycleTypeOK'
    <3>1. <<>> \in Seq(Project) /\ Len(<<>>) <= 1
      BY EmptySeq
    <3>2. signalled' \in BOOLEAN
      BY <1>1, Zenon DEF Boot, Forget
    <3>. QED BY <1>1, <3>1, <3>2 DEF Boot, Forget, LifecycleTypeOK, Coming, MaybeProject
  <2>. QED BY <1>1, <2>1 DEF Boot, Forget, StartOK, NotifyOK, RestartIsKept
<1>2. ASSUME MainExits, UNCHANGED <<kind, notifyFile, starts>> PROVE LifecycleInv'
  <2>1. stale' \in BOOLEAN /\ (stale' \/ notifyFile' = NoProject)
    BY <1>2, Zenon DEF MainExits
  <2>2. LifecycleTypeOK'
    <3>1. <<>> \in Seq(Project) /\ Len(<<>>) <= 1
      BY EmptySeq
    <3>2. signalled' \in BOOLEAN
      BY <1>2, Zenon DEF MainExits, Forget
    <3>3. UNCHANGED <<kind, notifyFile, starts>> /\ phase' = "down" /\ todo' = {}
          /\ up' = {} /\ failed' = {} /\ relayed' = {} /\ channel' = <<>> /\ asking' = {}
          /\ answered' = {} /\ taken' = NoProject /\ notify' = NoProject /\ owed' = NoProject
          /\ told' = {} /\ asks' = 0
      BY <1>2 DEF MainExits, Forget
    <3>. QED BY <2>1, <3>1, <3>2, <3>3 DEF LifecycleTypeOK, MaybeProject
  <2>. QED BY <1>2, <2>1, <2>2 DEF MainExits, Forget, StartOK, NotifyOK, RestartIsKept, Coming
<1>3. CASE Launch
  BY <1>1, <1>3 DEF Launch, NotifyOK, MaybeProject
<1>4. CASE Crash \/ AllEnginesFail \/ Bye \/ ExecFails
  BY <1>2, <1>4 DEF Crash, AllEnginesFail, Bye, ExecFails
<1>5. CASE Exec
  BY <1>1, <1>5 DEF Exec, LifecycleTypeOK
<1>6. CASE StartCron \/ NewAPIServerFails \/ StopCron \/ StopApi
  <2>1. LifecycleTypeOK'
    BY <1>6 DEF StartCron, NewAPIServerFails, StopCron, StopApi, LifecycleTypeOK, Coming, Going,
                Untouched, Process
  <2>. QED BY <1>6, <2>1 DEF StartCron, NewAPIServerFails, StopCron, StopApi, Untouched, Process,
                StartOK, NotifyOK, RestartIsKept, Coming
<1>7. CASE Signal \/ TakeSignal
  <2>1. signalled' \in BOOLEAN
    BY <1>7 DEF Signal, TakeSignal
  <2>2. LifecycleTypeOK'
    BY <1>7, <2>1 DEF Signal, TakeSignal, LifecycleTypeOK, Going, Untouched
  <2>. QED BY <1>7, <2>2 DEF Signal, TakeSignal, Untouched, StartOK, NotifyOK, RestartIsKept,
                Coming, Going
<1>8. CASE TakeRestart
  <2>1. Head(channel) \in Project
    BY <1>8, HeadTailProperties DEF TakeRestart, LifecycleTypeOK
  <2>2. LifecycleTypeOK'
    BY <1>8, <2>1, EmptySeq DEF TakeRestart, LifecycleTypeOK, Going, Untouched, MaybeProject
  <2>. QED BY <1>8, <2>2 DEF TakeRestart, Untouched, StartOK, NotifyOK, RestartIsKept, Coming
<1>9. CASE SaveRestartNotify
  <2>1. LifecycleTypeOK'
    BY <1>9 DEF SaveRestartNotify, LifecycleTypeOK, Going, Process
  <2>. QED BY <1>9, <2>1 DEF SaveRestartNotify, Process, StartOK, NotifyOK, RestartIsKept, Coming
<1>. QED BY <1>3, <1>4, <1>5, <1>6, <1>7, <1>8, <1>9

\* The file is read, and what it said is announced.
LEMMA AnnounceKeeps ==
  ASSUME LifecycleInv, ConsumeRestartNotify \/ \E p \in Project : SendRestartNotification(p)
  PROVE  LifecycleInv'
<1>. USE DEF LifecycleInv
<1>1. CASE ConsumeRestartNotify
  <2>1. LifecycleTypeOK'
    BY <1>1 DEF ConsumeRestartNotify, LifecycleTypeOK, Coming, MaybeProject
  <2>2. CASE notifyFile = NoProject
    BY <1>1, <2>1, <2>2 DEF ConsumeRestartNotify, StartOK, NotifyOK, RestartIsKept, Coming
  <2>3. CASE notifyFile # NoProject
    <3>1. phase' = "announce" /\ todo' = Project /\ notify' = notifyFile /\ up' = up /\ told' = {}
          /\ UNCHANGED <<owed, stale, kind, channel, answered>> /\ phase = "notice"
          /\ notify' # NoProject
      BY <1>1, <2>3 DEF ConsumeRestartNotify, NotifyOK
    <3>2. up \ Project = {}
      BY DEF LifecycleTypeOK
    <3>3. told' = {p \in up' \ todo' : kind'[p] = kind'[notify']} \X {notify'}
      BY <3>1, <3>2
    <3>4. owed # NoProject \/ ~stale => notify' = owed
      BY <3>1 DEF NotifyOK
    <3>5. NotifyOK' /\ StartOK'
      BY <3>1, <3>3, <3>4 DEF NotifyOK, StartOK
    <3>. QED BY <2>1, <3>1, <3>5 DEF RestartIsKept, Coming
  <2>. QED BY <2>2, <2>3
<1>2. ASSUME NEW p \in Project, SendRestartNotification(p) PROVE LifecycleInv'
  <2>1. /\ phase = "announce" /\ p \in todo /\ todo' = todo \ {p}
        /\ phase' = IF todo = {p} THEN "serving" ELSE "announce"
        /\ UNCHANGED <<kind, notifyFile, owed, stale, starts, up, failed, relayed, channel,
                       signalled, asking, answered, taken, notify, asks>>
    BY <1>2 DEF SendRestartNotification, NextProject, Untouched
  <2>2. told' = {q \in up' \ todo' : kind'[q] = kind'[notify']} \X {notify'}
    <3>1. told = {q \in up \ todo : kind[q] = kind[notify]} \X {notify}
      BY <2>1 DEF NotifyOK
    <3>2. CASE kind[p] = kind[notify] /\ p \in up
      <4>1. told' = told \union {<<p, notify>>}
        BY <1>2, <3>2 DEF SendRestartNotification
      <4>2. {q \in up \ (todo \ {p}) : kind[q] = kind[notify]}
              = {q \in up \ todo : kind[q] = kind[notify]} \union {p}
        BY <2>1, <3>2
      <4>. QED BY <2>1, <3>1, <4>1, <4>2
    <3>3. CASE ~(kind[p] = kind[notify] /\ p \in up)
      <4>1. told' = told
        BY <1>2, <3>3 DEF SendRestartNotification
      <4>2. {q \in up \ (todo \ {p}) : kind[q] = kind[notify]}
              = {q \in up \ todo : kind[q] = kind[notify]}
        BY <2>1, <3>3
      <4>. QED BY <2>1, <3>1, <4>1, <4>2
    <3>. QED BY <3>2, <3>3
  <2>3. up' \subseteq Project
    BY <2>1 DEF LifecycleTypeOK
  <2>4. told' \subseteq Project \X {notify}
    BY <2>1, <2>2, <2>3
  <2>5. owed # NoProject \/ ~stale => notify = owed
    BY <2>1 DEF NotifyOK
  <2>6. LifecycleTypeOK'
    <3>1. notify \in Project
      BY <2>1 DEF NotifyOK, LifecycleTypeOK, MaybeProject
    <3>2. told' \subseteq Project \X Project
      BY <2>4, <3>1
    <3>. QED BY <2>1, <3>2 DEF LifecycleTypeOK, Coming
  <2>7. StartOK' /\ NotifyOK'
    BY <2>1, <2>2, <2>5 DEF StartOK, NotifyOK
  <2>8. ASSUME phase' = "serving" PROVE told' = {q \in up' : kind'[q] = kind'[notify']} \X {notify'}
    <3>1. up' \ todo' = up'
      BY <2>1, <2>8
    <3>. QED BY <2>2, <3>1
  <2>9. RestartIsKept'
    BY <2>1, <2>4, <2>5, <2>8 DEF RestartIsKept, Coming
  <2>. QED BY <2>6, <2>7, <2>9
<1>. QED BY <1>1, <1>2

\* The engines start and stop, and their chats ask for a restart.
LEMMA EnginesKeep ==
  ASSUME LifecycleInv, NEW p \in Project,
         \/ StartEngine(p) \/ StartEngineFails(p) \/ SetRelayManager(p)
         \/ CmdRestart(p) \/ SendRequest(p) \/ CmdUpgradeConfirm(p) \/ StopEngine(p)
  PROVE  LifecycleInv'
<1>. USE DEF LifecycleInv
<1>1. CASE StartEngine(p) \/ StartEngineFails(p) \/ SetRelayManager(p)
  <2>1. /\ phase \in {"starting", "api"} /\ p \in todo /\ todo' = todo \ {p}
        /\ phase' \in {phase, "cron", "notice"} /\ (phase = "api" => phase' # "cron")
        /\ (phase = "starting" => phase' # "notice")
        /\ UNCHANGED <<kind, notifyFile, owed, stale, starts, channel, signalled, asking,
                       answered, taken, notify, told, asks>>
    BY <1>1 DEF StartEngine, StartEngineFails, SetRelayManager, NextProject, Untouched, Process
  <2>2. p \notin up \union failed \/ phase = "api"
    BY <2>1 DEF StartOK
  <2>3. /\ up' \subseteq up \union {p} /\ failed' \subseteq failed \union {p}
        /\ relayed' \subseteq Project
        /\ (up' = up /\ failed' = failed) \/ (phase = "starting" /\ (up' = up \/ failed' = failed))
    BY <1>1 DEF StartEngine, StartEngineFails, SetRelayManager, Untouched, Process, LifecycleTypeOK
  <2>4. LifecycleTypeOK'
    BY <2>1, <2>2, <2>3 DEF LifecycleTypeOK, Coming
  <2>. QED BY <2>1, <2>3, <2>4 DEF StartOK, NotifyOK, RestartIsKept, Coming
<1>2. CASE CmdRestart(p) \/ CmdUpgradeConfirm(p)
  <2>1. LifecycleTypeOK'
    BY <1>2 DEF CmdRestart, CmdUpgradeConfirm, LifecycleTypeOK, Untouched
  <2>. QED BY <1>2, <2>1 DEF CmdRestart, CmdUpgradeConfirm, Untouched, StartOK, NotifyOK,
                RestartIsKept
<1>3. CASE SendRequest(p)
  <2>1. channel' # <<>> /\ channel' \in Seq(Project) /\ Len(channel') <= 1
    BY <1>3 DEF SendRequest, LifecycleTypeOK
  <2>2. phase # "down"
    BY <1>3 DEF SendRequest, NotifyOK
  <2>3. LifecycleTypeOK'
    BY <1>3, <2>1 DEF SendRequest, LifecycleTypeOK, Untouched
  <2>. QED BY <1>3, <2>1, <2>2, <2>3 DEF SendRequest, Untouched, StartOK, NotifyOK, RestartIsKept
<1>4. CASE StopEngine(p)
  <2>1. LifecycleTypeOK'
    BY <1>4 DEF StopEngine, NextProject, LifecycleTypeOK, Untouched, Process, Going
  <2>. QED BY <1>4, <2>1 DEF StopEngine, NextProject, Untouched, Process, StartOK, NotifyOK,
                RestartIsKept, Coming
<1>. QED BY <1>1, <1>2, <1>3, <1>4

LEMMA LifecycleInvariance == LifecycleSpec => []LifecycleInv
<1>1. LifecycleInit => LifecycleInv
  <2> SUFFICES ASSUME LifecycleInit PROVE LifecycleInv
    OBVIOUS
  <2>1. <<>> \in Seq(Project) /\ Len(<<>>) <= 1
    BY EmptySeq
  <2>2. signalled \in BOOLEAN /\ stale \in BOOLEAN
    BY Zenon DEF LifecycleInit
  <2>3. LifecycleTypeOK
    BY <2>1, <2>2 DEF LifecycleInit, LifecycleTypeOK, MaybeProject
  <2>. QED BY <2>3 DEF LifecycleInit, LifecycleInv, StartOK, NotifyOK, RestartIsKept, Coming
<1>2. LifecycleInv /\ [LifecycleNext]_lifecycleVars => LifecycleInv'
  <2> SUFFICES ASSUME LifecycleInv, [LifecycleNext]_lifecycleVars PROVE LifecycleInv'
    OBVIOUS
  <2>1. CASE UNCHANGED lifecycleVars
    BY <2>1 DEF lifecycleVars, LifecycleInv, LifecycleTypeOK, StartOK, NotifyOK, RestartIsKept
  <2>. QED BY <2>1, PhasesKeep, AnnounceKeeps, EnginesKeep DEF LifecycleNext
<1>. QED BY <1>1, <1>2, PTL DEF LifecycleSpec

\* The life of the process is well typed, in particular RestartCh never holds more than
\* one request, and no engine that failed to start has a platform that listens.
THEOREM LifecycleTypeCorrect == LifecycleSpec => []LifecycleTypeOK
<1>1. LifecycleInv => LifecycleTypeOK
  BY DEF LifecycleInv
<1>. QED BY <1>1, LifecycleInvariance, PTL

\* RestartIsKept for any number of projects, commands and starts: a chat that was
\* answered is restarted for, and told so by the next process, and no other chat is
\* (cmdRestart, RestartCh, SaveRestartNotify, ConsumeRestartNotify).
THEOREM RestartIsAlwaysKept == LifecycleSpec => []RestartIsKept
<1>1. LifecycleInv => RestartIsKept
  BY DEF LifecycleInv
<1>. QED BY <1>1, LifecycleInvariance, PTL

-----------------------------------------------------------------------------
(* core/updater.go and cmd/cc-connect/update.go: /upgrade confirm.

   While no two replacements cross, the first whole file of the row name,
   name.old, name.old.old ... is at least what was promised: a replacement
   removes the file behind the one it is about to rename, which is never
   the first one, and what it installs in front is no older than what was
   promised. That the running program is never found under the name of an
   unfinished copy is what keeps /upgrade away from it. *)

HIDE LifecycleAssumption
USE UpgradeAssumption

UpgradeRecord ==
  [pc : {"idle", "download", "remove", "backup", "install"}, path : Path, new : Version]
BotRecord ==
  [phase : {"up", "stopping", "down"}, version : Version, path : Path, linked : BOOLEAN]

Replacing(u) == upgrade[u].pc \in {"remove", "backup", "install"}

FirstIsKept ==
  \E w \in Path : Whole(w) /\ binary[w] >= promised /\ \A p \in Path : p < w => ~Whole(p)

\* A copy is unfinished under the program's own name only, and then nothing runs there.
BotOK ==
  /\ \A p \in Path : binary[p] = Unfinished => p = 0
  /\ bot.phase # "down" /\ bot.path = 0 => bot.linked /\ Whole(0)

\* One replacement at a time, and how far it is.
UpgradeOK ==
  \A u \in Confirm : Replacing(u) =>
    /\ upgrade[u].new >= promised /\ bot.phase # "down"
    /\ update.pc = "idle" /\ \A v \in Confirm : Replacing(v) => v = u
    /\ upgrade[u].pc = "install" => ~Exists(upgrade[u].path) /\ Whole(upgrade[u].path + 1)
    /\ upgrade[u].pc # "install" => Whole(upgrade[u].path) /\ bot.path = upgrade[u].path

UpdateOK ==
  update.pc # "idle" =>
    /\ update.new >= promised
    /\ update.pc \in {"remove", "backup"} => Whole(0)
    /\ update.pc \in {"create", "copy"} => ~Whole(0) /\ Whole(1)
    /\ update.pc = "clean" => binary[0] = update.new

UpgradeInv ==
  /\ UpgradeTypeOK
  /\ \A u \in Confirm : Replacing(u) => upgrade[u].path < MaxPath
  /\ ~upgradeCrossed => FirstIsKept /\ BotOK /\ UpgradeOK /\ UpdateOK

\* The end of the process is the end of its chats' upgrades.
ChatsRun == bot.phase = "down" => \A u \in Confirm : upgrade[u].pc = "idle"

LEMMA Paths ==
  /\ 0 \in Path /\ 1 \in Path /\ Path \subseteq Nat /\ Version \subseteq Nat \ {0}
  /\ \A p \in Path : p < MaxPath => p + 1 \in Path
  /\ NoVersion \notin Version /\ Unfinished \notin Version /\ NoVersion # Unfinished
BY DEF Path, Version, NoVersion, Unfinished

\* What the steps do to the files and to the file that runs.
LEMMA RenameTypes ==
  ASSUME UpgradeTypeOK, NEW p \in Path, NEW q \in Path, p # q, Rename(p, q)
  PROVE  /\ binary' \in [Path -> Version \union {NoVersion, Unfinished}]
         /\ binary'[q] = binary[p] /\ binary'[p] = NoVersion
         /\ \A r \in Path : r # p /\ r # q => binary'[r] = binary[r]
         /\ bot' \in BotRecord
         /\ bot'.phase = bot.phase /\ bot'.path \in {bot.path, q}
         /\ bot.linked /\ bot.path = p => bot'.path = q /\ bot'.linked
         /\ ~(bot.linked /\ bot.path = p) => bot'.path = bot.path
         /\ bot.path # p /\ bot.path # q => bot' = bot
<1>1. binary' = [binary EXCEPT ![q] = binary[p], ![p] = NoVersion]
  BY DEF Rename
<1>2. /\ binary' \in [Path -> Version \union {NoVersion, Unfinished}]
      /\ binary'[q] = binary[p] /\ binary'[p] = NoVersion
      /\ \A r \in Path : r # p /\ r # q => binary'[r] = binary[r]
  BY <1>1 DEF UpgradeTypeOK, BotRecord
<1>3. CASE bot.linked /\ bot.path = p
  <2>1. bot' = [bot EXCEPT !.path = q]
    BY <1>3 DEF Rename
  <2>. QED BY <1>2, <1>3, <2>1 DEF UpgradeTypeOK, BotRecord
<1>4. CASE ~(bot.linked /\ bot.path = p) /\ bot.path = q
  <2>1. bot' = [bot EXCEPT !.linked = FALSE]
    BY <1>4 DEF Rename
  <2>. QED BY <1>2, <1>4, <2>1 DEF UpgradeTypeOK, BotRecord
<1>5. CASE ~(bot.linked /\ bot.path = p) /\ bot.path # q
  <2>1. bot' = bot
    BY <1>5 DEF Rename
  <2>. QED BY <1>2, <1>5, <2>1 DEF UpgradeTypeOK, BotRecord
<1>. QED BY <1>3, <1>4, <1>5

LEMMA PutTypes ==
  ASSUME UpgradeTypeOK, NEW p \in Path, NEW content \in Version \union {NoVersion, Unfinished},
         Put(p, content)
  PROVE  /\ binary' \in [Path -> Version \union {NoVersion, Unfinished}]
         /\ binary'[p] = content
         /\ \A r \in Path : r # p => binary'[r] = binary[r]
         /\ bot' \in BotRecord
         /\ bot'.phase = bot.phase /\ bot'.path = bot.path
         /\ bot.path # p => bot' = bot
<1>1. binary' = [binary EXCEPT ![p] = content]
  BY DEF Put
<1>2. bot' = bot \/ bot' = [bot EXCEPT !.linked = FALSE]
  BY DEF Put
<1>3. bot.path # p => bot' = bot
  BY DEF Put
<1>. QED BY <1>1, <1>2, <1>3 DEF UpgradeTypeOK, BotRecord

LEMMA UpgradeSteps ==
  ASSUME UpgradeTypeOK, NEW u \in Confirm
  PROVE  /\ Return(u) => /\ upgrade' \in [Confirm -> UpgradeRecord]
                         /\ upgrade'[u].pc = "idle"
                         /\ \A v \in Confirm : v # u => upgrade'[v] = upgrade[v]
         /\ \A pc \in {"idle", "download", "remove", "backup", "install"} :
              Step(u, pc) => /\ upgrade' \in [Confirm -> UpgradeRecord]
                             /\ upgrade'[u].pc = pc /\ upgrade'[u].path = upgrade[u].path
                             /\ upgrade'[u].new = upgrade[u].new
                             /\ \A v \in Confirm : v # u => upgrade'[v] = upgrade[v]
<1>1. IdleUpgrade \in UpgradeRecord /\ IdleUpgrade.pc = "idle"
  BY DEF IdleUpgrade, UpgradeRecord, Path, Version
<1>2. Return(u) => /\ upgrade' \in [Confirm -> UpgradeRecord]
                   /\ upgrade'[u].pc = "idle"
                   /\ \A v \in Confirm : v # u => upgrade'[v] = upgrade[v]
  BY <1>1 DEF Return, UpgradeTypeOK, UpgradeRecord
<1>3. ASSUME NEW pc \in {"idle", "download", "remove", "backup", "install"}, Step(u, pc)
      PROVE  /\ upgrade' \in [Confirm -> UpgradeRecord]
             /\ upgrade'[u].pc = pc /\ upgrade'[u].path = upgrade[u].path
             /\ upgrade'[u].new = upgrade[u].new
             /\ \A v \in Confirm : v # u => upgrade'[v] = upgrade[v]
  BY <1>3 DEF Step, UpgradeTypeOK, UpgradeRecord
<1>. QED BY <1>2, <1>3

\* What is not the first whole file may change.
LEMMA FirstStays ==
  ASSUME UpgradeTypeOK, FirstIsKept, NEW p \in Path, \E q \in Path : q < p /\ Whole(q),
         \A r \in Path : r # p => binary'[r] = binary[r], promised' = promised
  PROVE  FirstIsKept'
<1> PICK w \in Path : Whole(w) /\ binary[w] >= promised /\ \A q \in Path : q < w => ~Whole(q)
  BY DEF FirstIsKept
<1>1. w < p
  BY DEF Path
<1>2. \A q \in Path : q < w => Whole(q)' = Whole(q)
  <2>1. \A q \in Path : q < w => q # p
    BY <1>1 DEF Path
  <2>. QED BY <2>1 DEF Whole, Version
<1>3. Whole(w)' /\ binary'[w] >= promised'
  BY <1>1 DEF Path, Whole, Version
<1>. QED BY <1>2, <1>3 DEF FirstIsKept

\* The first whole file goes from p to q, next to each other, or another one does.
LEMMA FirstMoves ==
  ASSUME UpgradeTypeOK, FirstIsKept, NEW p \in Path, NEW q \in Path, q = p + 1 \/ p = q + 1,
         Whole(p), q < p => ~Whole(q), Rename(p, q), promised' = promised
  PROVE  FirstIsKept'
<1> PICK w \in Path : Whole(w) /\ binary[w] >= promised /\ \A r \in Path : r < w => ~Whole(r)
  BY DEF FirstIsKept
<1>1. w <= p /\ p # q
  BY Paths
<1>2. /\ binary'[q] = binary[p] /\ binary'[p] = NoVersion
      /\ \A r \in Path : r # p /\ r # q => binary'[r] = binary[r]
  BY <1>1, RenameTypes
<1>3. CASE w = p
  <2>1. Whole(q)' /\ binary'[q] >= promised'
    BY <1>2, <1>3 DEF Whole
  <2>2. \A r \in Path : r < q => ~Whole(r)'
    <3>1. ASSUME NEW r \in Path, r < q, r # p PROVE r < w /\ r # q
      BY <1>3, <3>1, Paths
    <3>. QED BY <1>2, <3>1, Paths DEF Whole
  <2>. QED BY <2>1, <2>2 DEF FirstIsKept
<1>4. CASE w # p
  <2>1. w < p
    BY <1>1, <1>4 DEF Path
  <2>2. w # q
    BY <2>1 DEF Path
  <2>3. Whole(w)' /\ binary'[w] >= promised'
    BY <1>2, <1>4, <2>2 DEF Whole
  <2>4. \A r \in Path : r < w => r # p /\ r # q
    BY <2>1, <2>2 DEF Path
  <2>5. \A r \in Path : r < w => ~Whole(r)'
    BY <1>2, <2>4 DEF Whole, Version
  <2>. QED BY <2>3, <2>5 DEF FirstIsKept
<1>. QED BY <1>3, <1>4

\* What is written in front of all the others is the first one.
LEMMA FirstIsNew ==
  ASSUME UpgradeTypeOK, FirstIsKept, NEW p \in Path, ~Whole(p), NEW new \in Version,
         new >= promised, binary' = [binary EXCEPT ![p] = new],
         promised' = promised \/ (promised' = new /\ p = 0)
  PROVE  FirstIsKept'
<1> PICK w \in Path : Whole(w) /\ binary[w] >= promised /\ \A r \in Path : r < w => ~Whole(r)
  BY DEF FirstIsKept
<1>1. w # p /\ binary'[p] = new /\ \A r \in Path : r # p => binary'[r] = binary[r]
  BY DEF UpgradeTypeOK
<1>2. CASE p < w
  <2>1. Whole(p)' /\ binary'[p] >= promised'
    BY <1>1, Paths DEF Whole
  <2>2. \A r \in Path : r < p => ~Whole(r)'
    BY <1>1, <1>2, Paths DEF Whole
  <2>. QED BY <2>1, <2>2 DEF FirstIsKept
<1>3. CASE w < p
  <2>1. promised' = promised
    BY <1>3, Paths
  <2>2. Whole(w)' /\ binary'[w] >= promised'
    BY <1>1, <2>1 DEF Whole
  <2>3. \A r \in Path : r < w => ~Whole(r)'
    BY <1>1, <1>3, Paths DEF Whole
  <2>. QED BY <2>2, <2>3 DEF FirstIsKept
<1>. QED BY <1>1, <1>2, <1>3, Paths

\* A step of one replacement, the only one.
LEMMA OneReplaces ==
  ASSUME UpgradeTypeOK, UpgradeTypeOK', NEW u \in Confirm, UNCHANGED <<update, upgradeCrossed>>,
         \A v \in Confirm : v # u => upgrade'[v] = upgrade[v],
         update.pc = "idle", \A v \in Confirm : Replacing(v) => v = u,
         Replacing(u)' =>
           /\ upgrade'[u].new >= promised' /\ bot'.phase # "down"
           /\ upgrade'[u].pc = "install" => ~Exists(upgrade[u].path)' /\ Whole(upgrade[u].path + 1)'
           /\ upgrade'[u].pc # "install" => Whole(upgrade[u].path)' /\ bot'.path = upgrade'[u].path
  PROVE  UpgradeOK' /\ UpdateOK'
<1>1. \A v \in Confirm : Replacing(v)' => v = u
  BY DEF Replacing
<1>2. ASSUME NEW v \in Confirm, Replacing(v)'
      PROVE  /\ upgrade'[v].new >= promised' /\ bot'.phase # "down"
             /\ update'.pc = "idle" /\ \A t \in Confirm : Replacing(t)' => t = v
             /\ upgrade'[v].pc = "install"
                  => ~Exists(upgrade[v].path)' /\ Whole(upgrade[v].path + 1)'
             /\ upgrade'[v].pc # "install"
                  => Whole(upgrade[v].path)' /\ bot'.path = upgrade'[v].path
  <2>1. v = u
    BY <1>1, <1>2
  <2>. QED BY <1>1, <1>2, <2>1
<1>3. UpgradeOK'
  BY <1>2 DEF UpgradeOK
<1>. QED BY <1>3 DEF UpdateOK

LEMMA RemoveOldKeeps ==
  ASSUME UpgradeInv, NEW u \in Confirm, RemoveOld(u)
  PROVE  UpgradeInv'
<1>. USE DEF UpgradeInv
<1>. DEFINE p == upgrade[u].path
<1>1. /\ p \in Path /\ p < MaxPath /\ Replacing(u) /\ p + 1 \in Path
      /\ UNCHANGED <<latest, update, promised, upgradeCrossed>>
  BY Paths DEF RemoveOld, Replacing, UpgradeTypeOK
<1>2. /\ upgrade' \in [Confirm -> UpgradeRecord]
      /\ upgrade'[u].pc = "backup" /\ upgrade'[u].path = p /\ upgrade'[u].new = upgrade[u].new
      /\ \A v \in Confirm : v # u => upgrade'[v] = upgrade[v]
  BY UpgradeSteps DEF RemoveOld
<1>3. /\ binary' \in [Path -> Version \union {NoVersion, Unfinished}]
      /\ binary'[p + 1] = NoVersion
      /\ \A r \in Path : r # p + 1 => binary'[r] = binary[r]
      /\ bot' \in BotRecord
      /\ bot'.phase = bot.phase /\ bot'.path = bot.path
      /\ bot.path # p + 1 => bot' = bot
  <2>. HIDE DEF p
  <2>1. Put(p + 1, NoVersion)
    BY DEF RemoveOld, RemoveFile, p
  <2>. QED BY <1>1, <2>1, PutTypes
<1>4. UpgradeTypeOK'
  BY <1>1, <1>2, <1>3 DEF UpgradeTypeOK, UpgradeRecord, BotRecord
<1>5. \A v \in Confirm : Replacing(v)' => upgrade'[v].path < MaxPath
  BY <1>1, <1>2 DEF Replacing
<1>6. ASSUME ~upgradeCrossed PROVE FirstIsKept' /\ BotOK' /\ UpgradeOK' /\ UpdateOK'
  <2>1. /\ FirstIsKept /\ BotOK /\ Whole(p) /\ bot.path = p
        /\ upgrade[u].new >= promised /\ bot.phase # "down"
        /\ update.pc = "idle" /\ \A v \in Confirm : Replacing(v) => v = u
    BY <1>1, <1>6 DEF UpgradeOK, RemoveOld
  <2>2. p < p + 1 /\ p # p + 1 /\ p + 1 # 0
    BY <1>1 DEF Path
  <2>3. FirstIsKept'
    BY <1>1, <1>3, <2>1, <2>2, FirstStays
  <2>4. BotOK'
    BY <1>3, <2>1, <2>2, Paths DEF BotOK, Whole
  <2>5. UpgradeOK' /\ UpdateOK'
    <3>1. Whole(p)'
      BY <1>1, <1>2, <1>3, <2>1, <2>2 DEF Whole, Version
    <3>2. /\ upgrade'[u].new >= promised' /\ bot'.phase # "down"
          /\ Whole(upgrade[u].path)' /\ bot'.path = upgrade'[u].path
      BY <1>1, <1>2, <1>3, <2>1, <3>1
    <3>. QED BY <1>1, <1>2, <1>4, <2>1, <3>2, OneReplaces
  <2>. QED BY <2>3, <2>4, <2>5
<1>. QED BY <1>1, <1>4, <1>5, <1>6

LEMMA BackUpKeeps ==
  ASSUME UpgradeInv, NEW u \in Confirm, BackUp(u)
  PROVE  UpgradeInv'
<1>. USE DEF UpgradeInv
<1>. DEFINE p == upgrade[u].path
<1>1. /\ p \in Path /\ p < MaxPath /\ Replacing(u) /\ p + 1 \in Path /\ p # p + 1
      /\ upgrade[u].pc = "backup"
      /\ UNCHANGED <<latest, update, promised, upgradeCrossed>>
  BY DEF BackUp, Replacing, UpgradeTypeOK, Path
<1>2. ~upgradeCrossed =>
        /\ FirstIsKept /\ BotOK /\ Whole(p) /\ bot.path = p
        /\ upgrade[u].new >= promised /\ bot.phase # "down"
        /\ update.pc = "idle" /\ \A v \in Confirm : Replacing(v) => v = u
  BY <1>1 DEF UpgradeOK
<1>3. CASE Rename(p, p + 1) /\ Step(u, "install")
  <2>1. /\ upgrade' \in [Confirm -> UpgradeRecord]
        /\ upgrade'[u].pc = "install" /\ upgrade'[u].path = p
        /\ upgrade'[u].new = upgrade[u].new
        /\ \A v \in Confirm : v # u => upgrade'[v] = upgrade[v]
    BY <1>3, UpgradeSteps
  <2>2. /\ binary' \in [Path -> Version \union {NoVersion, Unfinished}]
        /\ binary'[p + 1] = binary[p] /\ binary'[p] = NoVersion
        /\ \A r \in Path : r # p /\ r # p + 1 => binary'[r] = binary[r]
        /\ bot' \in BotRecord
        /\ bot'.phase = bot.phase /\ bot'.path \in {bot.path, p + 1}
        /\ bot.linked /\ bot.path = p => bot'.path = p + 1 /\ bot'.linked
    <3>. HIDE DEF p
    <3>. QED BY <1>1, <1>3, RenameTypes
  <2>3. UpgradeTypeOK'
    BY <1>1, <2>1, <2>2 DEF UpgradeTypeOK, UpgradeRecord, BotRecord
  <2>4. \A v \in Confirm : Replacing(v)' => upgrade'[v].path < MaxPath
    BY <1>1, <2>1 DEF Replacing
  <2>5. ASSUME ~upgradeCrossed PROVE FirstIsKept' /\ BotOK' /\ UpgradeOK' /\ UpdateOK'
    <3>1. FirstIsKept'
      <4>1. p + 1 = p + 1 \/ p = p + 1 + 1
        OBVIOUS
      <4>2. ~(p + 1 < p)
        BY <1>1 DEF Path
      <4>. HIDE DEF p
      <4>. QED BY <1>1, <1>2, <1>3, <2>5, <4>1, <4>2, FirstMoves
    <3>2. Whole(p + 1)' /\ ~Exists(p)'
      BY <1>2, <2>1, <2>2, <2>5 DEF Whole, Exists, Version
    <3>3. bot'.path # 0
      BY <1>1, <1>2, <2>2, <2>5 DEF BotOK, Path
    <3>4. \A r \in Path : binary'[r] = Unfinished => r = 0
      BY <1>1, <1>2, <2>2, <2>5 DEF BotOK, Whole, Version, Unfinished, NoVersion
    <3>5. UpgradeOK' /\ UpdateOK'
      <4>1. /\ upgrade'[u].new >= promised' /\ bot'.phase # "down"
            /\ ~Exists(upgrade[u].path)' /\ Whole(upgrade[u].path + 1)'
        BY <1>1, <1>2, <2>1, <2>2, <2>5, <3>2
      <4>. QED BY <1>1, <1>2, <2>1, <2>3, <2>5, <4>1, OneReplaces
    <3>. QED BY <3>1, <3>3, <3>4, <3>5 DEF BotOK
  <2>. QED BY <1>1, <2>3, <2>4, <2>5
<1>4. CASE Return(u) /\ UNCHANGED <<binary, bot>>
  <2>1. /\ upgrade' \in [Confirm -> UpgradeRecord]
        /\ upgrade'[u].pc = "idle"
        /\ \A v \in Confirm : v # u => upgrade'[v] = upgrade[v]
    BY <1>4, UpgradeSteps
  <2>2. UpgradeTypeOK'
    BY <1>1, <1>4, <2>1 DEF UpgradeTypeOK, UpgradeRecord
  <2>3. \A v \in Confirm : Replacing(v)' => upgrade'[v].path < MaxPath
    BY <2>1 DEF Replacing
  <2>4. ~upgradeCrossed => UpgradeOK' /\ UpdateOK'
    BY <1>1, <1>2, <2>1, <2>2, OneReplaces DEF Replacing
  <2>5. ~upgradeCrossed => FirstIsKept' /\ BotOK'
    BY <1>1, <1>2, <1>4 DEF FirstIsKept, BotOK, Whole
  <2>. QED BY <1>1, <2>2, <2>3, <2>4, <2>5
<1>. QED BY <1>3, <1>4 DEF BackUp

LEMMA InstallKeeps ==
  ASSUME UpgradeInv, NEW u \in Confirm, Install(u)
  PROVE  UpgradeInv'
<1>. USE DEF UpgradeInv
<1>. DEFINE p == upgrade[u].path
            new == upgrade[u].new
<1>1. /\ p \in Path /\ new \in Version /\ Replacing(u) /\ upgrade[u].pc = "install"
      /\ binary' = [binary EXCEPT ![p] = new] /\ (promised' = promised \/ (promised' = new /\ p = 0))
      /\ UNCHANGED <<latest, update, upgradeCrossed>>
  BY DEF Install, Replacing, UpgradeTypeOK
<1>2. /\ upgrade' \in [Confirm -> UpgradeRecord]
      /\ upgrade'[u].pc = "idle"
      /\ \A v \in Confirm : v # u => upgrade'[v] = upgrade[v]
  BY UpgradeSteps DEF Install
<1>3. /\ binary' \in [Path -> Version \union {NoVersion, Unfinished}]
      /\ binary'[p] = new /\ \A r \in Path : r # p => binary'[r] = binary[r]
  BY <1>1 DEF UpgradeTypeOK
<1>4. /\ bot' \in BotRecord /\ bot'.path = bot.path
      /\ bot.linked /\ bot.path # p => bot'.linked
      /\ bot.phase = "down" => bot'.phase = "down"
  <2>1. bot \in BotRecord
    BY DEF UpgradeTypeOK, BotRecord
  <2>2. bot' = [bot EXCEPT !.linked = bot.linked /\ bot.path # p,
                           !.phase = IF bot.phase = "up" THEN "stopping" ELSE bot.phase]
    BY DEF Install
  <2>3. (bot.linked /\ bot.path # p) \in BOOLEAN
    BY <2>1 DEF BotRecord
  <2>4. (IF bot.phase = "up" THEN "stopping" ELSE bot.phase) \in {"up", "stopping", "down"}
    BY <2>1 DEF BotRecord
  <2>5. \A a \in BOOLEAN, b \in {"up", "stopping", "down"} :
          /\ [bot EXCEPT !.linked = a, !.phase = b] \in BotRecord
          /\ [bot EXCEPT !.linked = a, !.phase = b].path = bot.path
          /\ [bot EXCEPT !.linked = a, !.phase = b].linked = a
          /\ [bot EXCEPT !.linked = a, !.phase = b].phase = b
    BY <2>1 DEF BotRecord
  <2>. QED BY <2>2, <2>3, <2>4, <2>5
<1>5. UpgradeTypeOK'
  BY <1>1, <1>2, <1>3, <1>4 DEF UpgradeTypeOK, UpgradeRecord, BotRecord
<1>6. \A v \in Confirm : Replacing(v)' => upgrade'[v].path < MaxPath
  BY <1>2 DEF Replacing
<1>7. ASSUME ~upgradeCrossed PROVE FirstIsKept' /\ BotOK' /\ UpgradeOK' /\ UpdateOK'
  <2>1. /\ FirstIsKept /\ BotOK /\ ~Exists(p) /\ new >= promised
        /\ update.pc = "idle" /\ \A v \in Confirm : Replacing(v) => v = u
    BY <1>1, <1>7 DEF UpgradeOK
  <2>2. ~Whole(p)
    BY <2>1, Paths DEF Whole, Exists
  <2>3. FirstIsKept'
    BY <1>1, <2>1, <2>2, FirstIsNew
  <2>4. BotOK'
    BY <1>1, <1>3, <1>4, <2>1, <2>2, Paths DEF BotOK, Whole
  <2>5. UpgradeOK' /\ UpdateOK'
    BY <1>1, <1>2, <1>5, <2>1, OneReplaces DEF Replacing
  <2>. QED BY <2>3, <2>4, <2>5
<1>. QED BY <1>1, <1>5, <1>6, <1>7

LEMMA InstallFailsKeeps ==
  ASSUME UpgradeInv, NEW u \in Confirm, InstallFails(u)
  PROVE  UpgradeInv'
<1>. USE DEF UpgradeInv
<1>. DEFINE p == upgrade[u].path
<1>1. /\ p \in Path /\ p < MaxPath /\ Replacing(u) /\ upgrade[u].pc = "install"
      /\ p + 1 \in Path /\ p # p + 1 /\ p < p + 1
      /\ UNCHANGED <<latest, update, promised, upgradeCrossed>>
  BY DEF InstallFails, Replacing, UpgradeTypeOK, Path
<1>2. /\ upgrade' \in [Confirm -> UpgradeRecord]
      /\ upgrade'[u].pc = "idle"
      /\ \A v \in Confirm : v # u => upgrade'[v] = upgrade[v]
  BY UpgradeSteps DEF InstallFails
<1>3. ~upgradeCrossed =>
        /\ FirstIsKept /\ BotOK /\ ~Exists(p) /\ Whole(p + 1) /\ Exists(p + 1)
        /\ update.pc = "idle" /\ \A v \in Confirm : Replacing(v) => v = u
  BY <1>1, Paths DEF UpgradeOK, Whole, Exists
<1>4. \A v \in Confirm : Replacing(v)' => upgrade'[v].path < MaxPath
  BY <1>2 DEF Replacing
<1>5. CASE Rename(p + 1, p)
  <2>. HIDE DEF p
  <2>1. /\ binary' \in [Path -> Version \union {NoVersion, Unfinished}]
        /\ binary'[p] = binary[p + 1] /\ binary'[p + 1] = NoVersion
        /\ \A r \in Path : r # p + 1 /\ r # p => binary'[r] = binary[r]
        /\ bot' \in BotRecord /\ bot'.phase = bot.phase
        /\ bot.linked /\ bot.path = p + 1 => bot'.path = p /\ bot'.linked
        /\ ~(bot.linked /\ bot.path = p + 1) => bot'.path = bot.path
        /\ bot.path # p + 1 /\ bot.path # p => bot' = bot
    BY <1>1, <1>5, RenameTypes
  <2>2. UpgradeTypeOK'
    BY <1>1, <1>2, <2>1 DEF UpgradeTypeOK, UpgradeRecord, BotRecord
  <2>3. ASSUME ~upgradeCrossed PROVE FirstIsKept' /\ BotOK' /\ UpgradeOK' /\ UpdateOK'
    <3>1. ~Whole(p)
      BY <1>3, <2>3, Paths DEF Whole, Exists
    <3>2. FirstIsKept'
      BY <1>1, <1>3, <1>5, <2>3, <3>1, FirstMoves
    <3>3. \A r \in Path : binary'[r] = Unfinished => r = 0
      BY <1>1, <1>3, <2>1, <2>3, Paths DEF BotOK, Whole
    <3>4. ASSUME bot'.phase # "down", bot'.path = 0 PROVE bot'.linked /\ Whole(0)'
      <4>1. CASE bot.linked /\ bot.path = p + 1
        BY <1>3, <2>1, <2>3, <3>4, <4>1 DEF Whole, Version
      <4>2. CASE ~(bot.linked /\ bot.path = p + 1)
        <5>1. bot.path = 0 /\ Whole(0) /\ bot.linked
          BY <1>3, <2>1, <2>3, <3>4, <4>2 DEF BotOK
        <5>2. p # 0 /\ p + 1 # 0
          BY <1>1, <3>1, <5>1 DEF Path
        <5>. QED BY <2>1, <5>1, <5>2, Paths DEF Whole, Version
      <4>. QED BY <4>1, <4>2
    <3>5. UpgradeOK' /\ UpdateOK'
      BY <1>1, <1>2, <1>3, <2>2, <2>3, OneReplaces DEF Replacing
    <3>. QED BY <3>2, <3>3, <3>4, <3>5 DEF BotOK
  <2>. QED BY <1>1, <1>4, <2>2, <2>3
<1>6. CASE ~Exists(p + 1) /\ UNCHANGED <<binary, bot>>
  <2>1. UpgradeTypeOK'
    BY <1>1, <1>2, <1>6 DEF UpgradeTypeOK, UpgradeRecord
  <2>. QED BY <1>1, <1>3, <1>4, <1>6, <2>1
<1>. QED BY <1>5, <1>6 DEF InstallFails

\* While `cc-connect update` replaces the file no chat does.
LEMMA NobodyElse ==
  ASSUME UpgradeTypeOK, UpgradeOK, update.pc # "idle", upgrade' = upgrade
  PROVE  UpgradeOK'
BY DEF UpgradeOK, Replacing

\* An unfinished or missing file at p stays one.
LEMMA FirstUntouched ==
  ASSUME UpgradeTypeOK, FirstIsKept, NEW p \in Path, ~Whole(p), ~Whole(p)',
         \A r \in Path : r # p => binary'[r] = binary[r], promised' = promised
  PROVE  FirstIsKept'
<1>1. \A r \in Path : Whole(r)' = Whole(r) /\ (Whole(r) => binary'[r] = binary[r])
  BY DEF Whole, Version
<1>. QED BY <1>1 DEF FirstIsKept

\* The steps of `cc-connect update` that remove a file or write one.
LEMMA UpdatePutKeeps ==
  ASSUME UpgradeInv, UpdateRemovesOld \/ UpdateCreates \/ UpdateCopies \/ UpdateCleans
  PROVE  UpgradeInv'
<1>. USE DEF UpgradeInv
<1>1. /\ UNCHANGED <<latest, upgrade, upgradeCrossed>> /\ update.pc # "idle"
      /\ update.new \in Version /\ update.pc \in {"remove", "backup", "create", "copy", "clean"}
      /\ bot \in BotRecord
  BY DEF UpgradeTypeOK, UpdateRemovesOld, UpdateCreates, UpdateCopies, UpdateCleans, BotRecord
<1>2. \A v \in Confirm : Replacing(v)' => upgrade'[v].path < MaxPath
  BY <1>1 DEF Replacing
<1>3. ~upgradeCrossed => FirstIsKept /\ BotOK /\ UpgradeOK /\ UpdateOK /\ UpgradeOK'
  BY <1>1, NobodyElse
<1>4. CASE UpdateRemovesOld \/ UpdateCleans
  <2>1. /\ Put(1, NoVersion)
        /\ \/ update.pc = "remove" /\ update' = [update EXCEPT !.pc = "backup"] /\ promised' = promised
           \/ update.pc = "clean" /\ update' = IdleUpdate /\ promised' = update.new
    BY <1>4 DEF UpdateRemovesOld, UpdateCleans, RemoveFile
  <2>2. /\ binary' \in [Path -> Version \union {NoVersion, Unfinished}]
        /\ binary'[1] = NoVersion /\ \A r \in Path : r # 1 => binary'[r] = binary[r]
        /\ bot' \in BotRecord /\ bot'.phase = bot.phase /\ bot'.path = bot.path
        /\ bot.path # 1 => bot' = bot
    BY <2>1, Paths, PutTypes
  <2>3. UpgradeTypeOK'
    <3>1. update' \in [pc : {"idle", "remove", "backup", "create", "copy", "clean"}, new : Version]
      BY <2>1 DEF UpgradeTypeOK, IdleUpdate, Version
    <3>2. promised' \in Version
      BY <1>1, <2>1 DEF UpgradeTypeOK
    <3>. QED BY <1>1, <2>2, <3>1, <3>2 DEF UpgradeTypeOK, BotRecord
  <2>4. ASSUME ~upgradeCrossed PROVE FirstIsKept' /\ BotOK' /\ UpdateOK'
    <3>1. Whole(0) /\ update.new >= promised /\ (update.pc = "clean" => binary[0] = update.new)
      BY <1>1, <1>3, <2>1, <2>4 DEF UpdateOK, Whole
    <3>2. Whole(0)' /\ binary'[0] = binary[0]
      BY <2>2, <3>1, Paths DEF Whole
    <3>3. BotOK'
      BY <1>3, <2>2, <2>4, <3>2, Paths DEF BotOK
    <3>4. UpdateOK'
      BY <1>1, <2>1, <3>1, <3>2 DEF UpdateOK, IdleUpdate, UpgradeTypeOK
    <3>5. CASE update.pc = "remove"
      <4>1. 0 \in Path /\ 1 \in Path /\ 0 < 1 /\ promised' = promised
        BY <2>1, <3>5, Paths
      <4>2. FirstIsKept'
        BY <1>3, <2>2, <2>4, <3>1, <4>1, FirstStays
      <4>. QED BY <3>3, <3>4, <4>2
    <3>6. CASE update.pc = "clean"
      <4>1. promised' = binary'[0] /\ 0 \in Path
        BY <2>1, <3>1, <3>2, <3>6, Paths
      <4>2. binary'[0] >= promised' /\ \A r \in Path : ~(r < 0)
        BY <1>1, <2>1, <3>6, <4>1 DEF Path, Version
      <4>. QED BY <3>2, <3>3, <3>4, <4>1, <4>2 DEF FirstIsKept
    <3>. QED BY <2>1, <3>5, <3>6
  <2>. QED BY <1>1, <1>2, <1>3, <2>3, <2>4
<1>5. CASE UpdateCreates \/ UpdateCopies
  <2>1. PICK content \in Version \union {Unfinished} :
          /\ Put(0, content)
          /\ \/ update.pc = "create" /\ content = Unfinished /\ update' = [update EXCEPT !.pc = "copy"]
             \/ update.pc = "copy" /\ content = update.new /\ update' = [update EXCEPT !.pc = "clean"]
          /\ promised' = promised
    BY <1>1, <1>5 DEF UpdateCreates, UpdateCopies
  <2>2. /\ binary' \in [Path -> Version \union {NoVersion, Unfinished}]
        /\ binary'[0] = content /\ \A r \in Path : r # 0 => binary'[r] = binary[r]
        /\ bot' \in BotRecord /\ bot'.phase = bot.phase /\ bot'.path = bot.path
        /\ bot.path # 0 => bot' = bot
    BY <2>1, Paths, PutTypes
  <2>3. UpgradeTypeOK'
    BY <1>1, <2>1, <2>2 DEF UpgradeTypeOK, BotRecord
  <2>4. ASSUME ~upgradeCrossed PROVE FirstIsKept' /\ BotOK' /\ UpdateOK'
    <3>1. ~Whole(0) /\ Whole(1) /\ update.new >= promised
      BY <1>1, <1>3, <2>1, <2>4 DEF UpdateOK
    <3>2. BotOK'
      BY <1>3, <2>2, <2>4, <3>1 DEF BotOK
    <3>3. CASE content = Unfinished
      <4>1. ~Whole(0)' /\ Whole(1)'
        BY <2>2, <3>1, <3>3, Paths DEF Whole
      <4>2. FirstIsKept'
        BY <1>3, <2>1, <2>2, <2>4, <3>1, <4>1, Paths, FirstUntouched
      <4>3. update'.pc = "copy" /\ update'.new = update.new
        BY <1>1, <2>1, <3>3, Paths DEF UpgradeTypeOK
      <4>. QED BY <2>1, <3>1, <3>2, <4>1, <4>2, <4>3 DEF UpdateOK
    <3>4. CASE content # Unfinished
      <4>1. binary' = [binary EXCEPT ![0] = update.new]
        BY <2>1, <3>4 DEF Put
      <4>2. FirstIsKept'
        BY <1>1, <1>3, <2>1, <2>4, <3>1, <4>1, Paths, FirstIsNew
      <4>3. update'.pc = "clean" /\ update'.new = update.new /\ binary'[0] = update.new
        BY <1>1, <2>1, <2>2, <3>4 DEF UpgradeTypeOK
      <4>. QED BY <2>1, <3>1, <3>2, <4>2, <4>3 DEF UpdateOK
    <3>. QED BY <3>3, <3>4
  <2>. QED BY <1>1, <1>2, <1>3, <2>3, <2>4
<1>. QED BY <1>4, <1>5

\* The steps that rename one, and those that only end the command.
LEMMA UpdateMoveKeeps ==
  ASSUME UpgradeInv, UpdateBacksUp \/ UpdateCopyFails \/ UpdateChmodFails \/ UpdateKilled
  PROVE  UpgradeInv'
<1>. USE DEF UpgradeInv
<1>1. /\ UNCHANGED <<latest, upgrade, promised, upgradeCrossed>> /\ update.pc # "idle"
      /\ update.new \in Version /\ bot \in BotRecord
  BY DEF UpgradeTypeOK, UpdateBacksUp, UpdateCopyFails, UpdateChmodFails, UpdateKilled, BotRecord
<1>2. \A v \in Confirm : Replacing(v)' => upgrade'[v].path < MaxPath
  BY <1>1 DEF Replacing
<1>3. ~upgradeCrossed => FirstIsKept /\ BotOK /\ UpgradeOK /\ UpdateOK /\ UpgradeOK'
  BY <1>1, NobodyElse
<1>4. IdleUpdate.pc = "idle" /\ IdleUpdate.new \in Version
  BY DEF IdleUpdate, Version
<1>5. CASE UNCHANGED <<binary, bot>> /\ update' = IdleUpdate
  <2>1. UpgradeTypeOK'
    BY <1>1, <1>5, Paths DEF UpgradeTypeOK, IdleUpdate, Version
  <2>2. ~upgradeCrossed => FirstIsKept' /\ BotOK' /\ UpdateOK'
    BY <1>1, <1>3, <1>4, <1>5 DEF FirstIsKept, BotOK, UpdateOK, Whole
  <2>. QED BY <1>1, <1>2, <1>3, <2>1, <2>2
<1>6. CASE update.pc = "backup" /\ Rename(0, 1) /\ update' = [update EXCEPT !.pc = "create"]
  <2>1. /\ binary' \in [Path -> Version \union {NoVersion, Unfinished}]
        /\ binary'[1] = binary[0] /\ binary'[0] = NoVersion
        /\ \A r \in Path : r # 0 /\ r # 1 => binary'[r] = binary[r]
        /\ bot' \in BotRecord /\ bot'.phase = bot.phase
        /\ bot.linked /\ bot.path = 0 => bot'.path = 1 /\ bot'.linked
        /\ ~(bot.linked /\ bot.path = 0) => bot'.path = bot.path
    BY <1>6, Paths, RenameTypes
  <2>2. update'.pc = "create" /\ update'.new = update.new
    BY <1>6 DEF UpgradeTypeOK
  <2>3. UpgradeTypeOK'
    BY <1>1, <1>6, <2>1 DEF UpgradeTypeOK, BotRecord
  <2>4. ASSUME ~upgradeCrossed PROVE FirstIsKept' /\ BotOK' /\ UpdateOK'
    <3>1. Whole(0) /\ update.new >= promised
      BY <1>1, <1>3, <1>6, <2>4 DEF UpdateOK
    <3>2. FirstIsKept'
      <4>1. 0 \in Path /\ 1 \in Path /\ 1 = 0 + 1 /\ ~(1 < 0)
        BY Paths
      <4>. QED BY <1>1, <1>3, <1>6, <2>4, <3>1, <4>1, FirstMoves
    <3>3. ~Whole(0)' /\ Whole(1)'
      BY <2>1, <3>1, Paths DEF Whole
    <3>4. BotOK'
      BY <1>3, <2>1, <2>4, <3>1, Paths DEF BotOK, Whole
    <3>. QED BY <1>1, <2>2, <3>1, <3>2, <3>3, <3>4 DEF UpdateOK
  <2>. QED BY <1>1, <1>2, <1>3, <2>3, <2>4
<1>7. CASE update.pc \in {"create", "copy"} /\ Rename(1, 0) /\ update' = IdleUpdate
  <2>1. /\ binary' \in [Path -> Version \union {NoVersion, Unfinished}]
        /\ binary'[0] = binary[1] /\ binary'[1] = NoVersion
        /\ \A r \in Path : r # 1 /\ r # 0 => binary'[r] = binary[r]
        /\ bot' \in BotRecord /\ bot'.phase = bot.phase
        /\ bot.linked /\ bot.path = 1 => bot'.path = 0 /\ bot'.linked
        /\ ~(bot.linked /\ bot.path = 1) => bot'.path = bot.path
    BY <1>7, Paths, RenameTypes
  <2>2. UpgradeTypeOK'
    BY <1>1, <1>7, <2>1 DEF UpgradeTypeOK, BotRecord, IdleUpdate, Version
  <2>3. ASSUME ~upgradeCrossed PROVE FirstIsKept' /\ BotOK' /\ UpdateOK'
    <3>1. ~Whole(0) /\ Whole(1)
      BY <1>1, <1>3, <1>7, <2>3 DEF UpdateOK
    <3>2. FirstIsKept'
      <4>1. 0 \in Path /\ 1 \in Path /\ 1 = 0 + 1
        BY Paths
      <4>. QED BY <1>1, <1>3, <1>7, <2>3, <3>1, <4>1, FirstMoves
    <3>3. Whole(0)' /\ ~Whole(1)'
      BY <2>1, <3>1, Paths DEF Whole
    <3>4. BotOK'
      BY <1>3, <2>1, <2>3, <3>1, <3>3, Paths DEF BotOK, Whole
    <3>. QED BY <1>4, <1>7, <3>2, <3>4 DEF UpdateOK
  <2>. QED BY <1>1, <1>2, <1>3, <2>2, <2>3
<1>. QED BY <1>5, <1>6, <1>7 DEF UpdateBacksUp, UpdateCopyFails, UpdateChmodFails, UpdateKilled

\* A chat looks up or gives up: nothing else changes.
LEMMA OthersReplace ==
  ASSUME UpgradeInv, UpgradeTypeOK', NEW u \in Confirm, upgrade'[u].pc \in {"idle", "download"},
         \A v \in Confirm : v # u => upgrade'[v] = upgrade[v],
         UNCHANGED <<binary, bot, update, promised, upgradeCrossed>>
  PROVE  UpgradeInv'
<1>1. \A v \in Confirm : Replacing(v)' => Replacing(v) /\ upgrade'[v] = upgrade[v]
  BY DEF Replacing
<1>2. UpgradeOK => UpgradeOK'
  BY <1>1 DEF UpgradeOK, Whole, Exists
<1>3. /\ FirstIsKept => FirstIsKept'
      /\ BotOK => BotOK'
      /\ UpdateOK => UpdateOK'
  BY DEF FirstIsKept, BotOK, UpdateOK, Whole
<1>. QED BY <1>1, <1>2, <1>3 DEF UpgradeInv

\* A replacement begins: what it found is written down, and whether it crosses another.
LEMMA BeginKeeps ==
  ASSUME UpgradeInv, ChatsRun, RunUpdate \/ \E u \in Confirm : ConfirmUpgrade(u) \/ SelfUpdate(u)
  PROVE  UpgradeInv'
<1>. USE DEF UpgradeInv
<1>1. CASE RunUpdate
  <2>1. /\ update.pc = "idle" /\ Whole(0) /\ update' = [pc |-> "remove", new |-> latest]
        /\ upgradeCrossed' = (upgradeCrossed \/ Busy \/ latest < promised)
        /\ UNCHANGED <<binary, latest, bot, upgrade, promised>>
    BY <1>1 DEF RunUpdate, ReplacementCrosses
  <2>2. upgradeCrossed' \in BOOLEAN
    BY <2>1, Zenon
  <2>3. UpgradeTypeOK'
    BY <2>1, <2>2 DEF UpgradeTypeOK
  <2>4. \A v \in Confirm : Replacing(v)' => upgrade'[v].path < MaxPath
    BY <2>1 DEF Replacing
  <2>5. ~upgradeCrossed' => ~upgradeCrossed /\ ~Busy /\ latest >= promised
    <3>1. ~upgradeCrossed' => ~upgradeCrossed /\ ~Busy /\ ~(latest < promised)
      BY <2>1, Zenon
    <3>. QED BY <3>1 DEF UpgradeTypeOK, Version
  <2>6. ~upgradeCrossed' => FirstIsKept' /\ BotOK' /\ UpgradeOK' /\ UpdateOK'
    BY <2>1, <2>5 DEF FirstIsKept, BotOK, UpgradeOK, UpdateOK, Whole, Busy, Replacing
  <2>. QED BY <2>3, <2>4, <2>6
<1>2. ASSUME NEW u \in Confirm, ConfirmUpgrade(u)
      PROVE  UpgradeInv'
  <2>1. /\ UNCHANGED <<binary, latest, bot, update, promised, upgradeCrossed>>
        /\ upgrade' = [upgrade EXCEPT ![u] = [IdleUpgrade EXCEPT !.pc = "download", !.new = latest]]
    BY <1>2 DEF ConfirmUpgrade
  <2>2. /\ upgrade' \in [Confirm -> UpgradeRecord] /\ upgrade'[u].pc = "download"
        /\ \A v \in Confirm : v # u => upgrade'[v] = upgrade[v]
    BY <2>1, Paths DEF UpgradeTypeOK, UpgradeRecord, IdleUpgrade
  <2>3. UpgradeTypeOK'
    BY <2>1, <2>2 DEF UpgradeTypeOK, UpgradeRecord
  <2>. QED BY <2>1, <2>2, <2>3, OthersReplace
<1>3. ASSUME NEW u \in Confirm, SelfUpdate(u)
      PROVE  UpgradeInv'
  <2>1. /\ UNCHANGED <<binary, latest, bot, update, promised>>
        /\ upgrade[u].pc = "download" /\ bot.path < MaxPath /\ bot.path \in Path
    BY <1>3 DEF SelfUpdate, UpgradeTypeOK
  <2>2. CASE Return(u) /\ UNCHANGED upgradeCrossed
    <3>1. /\ upgrade' \in [Confirm -> UpgradeRecord] /\ upgrade'[u].pc = "idle"
          /\ \A v \in Confirm : v # u => upgrade'[v] = upgrade[v]
      BY <2>2, UpgradeSteps
    <3>2. UpgradeTypeOK'
      BY <2>1, <2>2, <3>1 DEF UpgradeTypeOK, UpgradeRecord
    <3>. QED BY <2>1, <2>2, <3>1, <3>2, OthersReplace
  <2>3. CASE /\ Exists(bot.path) /\ ReplacementCrosses(upgrade[u].new)
             /\ upgrade' = [upgrade EXCEPT ![u].pc = "remove", ![u].path = bot.path]
    <3>1. /\ upgrade' \in [Confirm -> UpgradeRecord] /\ upgrade'[u].pc = "remove"
          /\ upgrade'[u].path = bot.path /\ upgrade'[u].new = upgrade[u].new
          /\ \A v \in Confirm : v # u => upgrade'[v] = upgrade[v]
      BY <2>1, <2>3 DEF UpgradeTypeOK, UpgradeRecord
    <3>2. upgradeCrossed' = (upgradeCrossed \/ Busy \/ upgrade[u].new < promised)
      BY <2>3 DEF ReplacementCrosses
    <3>3. upgradeCrossed' \in BOOLEAN
      BY <3>2, Zenon
    <3>4. UpgradeTypeOK'
      BY <2>1, <3>1, <3>3 DEF UpgradeTypeOK, UpgradeRecord
    <3>5. \A v \in Confirm : Replacing(v)' => upgrade'[v].path < MaxPath
      BY <2>1, <3>1 DEF Replacing
    <3>6. ASSUME ~upgradeCrossed' PROVE FirstIsKept' /\ BotOK' /\ UpgradeOK' /\ UpdateOK'
      <4>1. ~upgradeCrossed /\ ~Busy /\ upgrade[u].new >= promised
        <5>1. ~upgradeCrossed /\ ~Busy /\ ~(upgrade[u].new < promised)
          BY <3>2, <3>6, Zenon
        <5>. QED BY <5>1 DEF UpgradeTypeOK, Version
      <4>2. FirstIsKept' /\ BotOK' /\ UpdateOK'
        BY <2>1, <4>1 DEF FirstIsKept, BotOK, UpdateOK, Whole
      <4>3. update.pc = "idle" /\ \A v \in Confirm : ~Replacing(v)
        BY <4>1 DEF Busy, Replacing
      <4>4. Whole(bot.path)
        <5>1. binary[bot.path] \in Version \union {Unfinished}
          BY <2>1, <2>3 DEF Exists, UpgradeTypeOK
        <5>2. bot.phase # "down"
          BY <2>1 DEF ChatsRun
        <5>. QED BY <2>1, <4>1, <5>1, <5>2 DEF BotOK, Whole
      <4>5. UpgradeOK'
        <5>1. bot.phase # "down"
          BY <2>1 DEF ChatsRun
        <5>. QED BY <2>1, <3>1, <4>1, <4>3, <4>4, <5>1 DEF UpgradeOK, Replacing, Whole
      <4>. QED BY <4>2, <4>5
    <3>. QED BY <3>4, <3>5, <3>6
  <2>. QED BY <1>3, <2>2, <2>3 DEF SelfUpdate
<1>. QED BY <1>1, <1>2, <1>3

\* The program restarts, is killed, or is started again; a release comes out.
LEMMA ProcessKeeps ==
  ASSUME UpgradeInv, Release \/ RestartUpgraded \/ ExecBinary \/ Killed \/ LaunchBinary
  PROVE  UpgradeInv'
<1>. USE DEF UpgradeInv
<1>0. bot \in BotRecord /\ bot.path \in Path
  BY DEF UpgradeTypeOK, BotRecord
<1>1. CASE Release
  <2>1. UNCHANGED <<binary, bot, upgrade, update, promised, upgradeCrossed>> /\ latest' \in Version
    BY <1>1 DEF Release, UpgradeTypeOK, Version
  <2>. QED BY <2>1 DEF UpgradeTypeOK, FirstIsKept, BotOK, UpgradeOK, UpdateOK, Replacing, Whole,
                       Exists
<1>2. CASE RestartUpgraded
  <2>1. /\ bot' \in BotRecord /\ bot'.path = bot.path /\ bot'.linked = bot.linked
        /\ bot.phase = "up" /\ bot'.phase = "stopping"
        /\ UNCHANGED <<binary, latest, upgrade, update, promised, upgradeCrossed>>
    BY <1>0, <1>2 DEF RestartUpgraded, BotRecord
  <2>2. UpgradeTypeOK'
    BY <2>1 DEF UpgradeTypeOK, BotRecord
  <2>. QED BY <2>1, <2>2 DEF FirstIsKept, BotOK, UpgradeOK, UpdateOK, Replacing, Whole, Exists
<1>3. CASE ExecBinary \/ Killed
  <2>1. /\ upgrade' = [u \in Confirm |-> IdleUpgrade]
        /\ UNCHANGED <<binary, latest, update, promised, upgradeCrossed>>
    BY <1>3 DEF ExecBinary, Killed
  <2>2. bot' \in BotRecord /\ (bot'.phase = "down" \/ (bot'.linked /\ Whole(bot'.path)))
    <3>1. CASE ExecBinary /\ Whole(ExecPath)
      <4>1. ExecPath \in Path
        BY <1>0 DEF ExecPath, Path
      <4>2. bot' = [phase |-> "up", version |-> binary[ExecPath], path |-> ExecPath, linked |-> TRUE]
        BY <3>1 DEF ExecBinary
      <4>. QED BY <3>1, <4>1, <4>2 DEF BotRecord, Whole
    <3>2. CASE ~(ExecBinary /\ Whole(ExecPath))
      <4>1. bot' = [bot EXCEPT !.phase = "down"]
        BY <1>3, <3>2 DEF ExecBinary, Killed
      <4>. QED BY <1>0, <4>1 DEF BotRecord
    <3>. QED BY <3>1, <3>2
  <2>3. \A v \in Confirm : upgrade'[v] \in UpgradeRecord /\ upgrade'[v].pc = "idle"
    BY <2>1 DEF IdleUpgrade, UpgradeRecord, Path, Version
  <2>4. UpgradeTypeOK'
    BY <2>1, <2>2, <2>3 DEF UpgradeTypeOK, BotRecord, UpgradeRecord
  <2>. QED BY <2>1, <2>2, <2>3, <2>4 DEF FirstIsKept, BotOK, UpgradeOK, UpdateOK, Replacing, Whole
<1>4. CASE LaunchBinary
  <2>1. /\ bot' = [phase |-> "up", version |-> binary[0], path |-> 0, linked |-> TRUE]
        /\ Whole(0) /\ bot.phase = "down"
        /\ UNCHANGED <<binary, latest, upgrade, update, promised, upgradeCrossed>>
    BY <1>4 DEF LaunchBinary
  <2>2. bot' \in BotRecord /\ bot'.linked
    BY <2>1, Paths DEF BotRecord, Whole
  <2>3. UpgradeTypeOK'
    BY <2>1, <2>2 DEF UpgradeTypeOK, BotRecord
  <2>. QED BY <2>1, <2>2, <2>3 DEF FirstIsKept, BotOK, UpgradeOK, UpdateOK, Replacing, Whole, Exists
<1>. QED BY <1>1, <1>2, <1>3, <1>4

LEMMA ChatsRunStays ==
  ASSUME UpgradeTypeOK, ChatsRun, UpgradeNext
  PROVE  ChatsRun'
<1>1. bot \in BotRecord
  BY DEF UpgradeTypeOK, BotRecord
<1>2. CASE Killed \/ ExecBinary
  BY <1>2 DEF Killed, ExecBinary, ChatsRun, IdleUpgrade
<1>3. CASE Release \/ RestartUpgraded \/ LaunchBinary
  BY <1>1, <1>3 DEF Release, RestartUpgraded, LaunchBinary, ChatsRun, BotRecord
<1>4. \A p, q \in Path : Rename(p, q) => bot'.phase = bot.phase
  BY <1>1 DEF Rename, BotRecord
<1>5. \A p \in Path : (RemoveFile(p) => bot'.phase = bot.phase)
                       /\ (Put(p, Unfinished) => bot'.phase = bot.phase)
                       /\ (Put(p, update.new) => bot'.phase = bot.phase)
  BY <1>1 DEF RemoveFile, Put, BotRecord
<1>6. CASE \/ RunUpdate \/ UpdateRemovesOld \/ UpdateBacksUp \/ UpdateCreates \/ UpdateCopies
           \/ UpdateCopyFails \/ UpdateChmodFails \/ UpdateCleans \/ UpdateKilled
  <2>1. bot'.phase = bot.phase /\ upgrade' = upgrade
    BY <1>4, <1>5, <1>6, Paths
    DEF RunUpdate, UpdateRemovesOld, UpdateBacksUp, UpdateCreates, UpdateCopies, UpdateCopyFails,
        UpdateChmodFails, UpdateCleans, UpdateKilled
  <2>. QED BY <2>1 DEF ChatsRun
<1>7. ASSUME NEW u \in Confirm,
             \/ ConfirmUpgrade(u) \/ SelfUpdate(u) \/ RemoveOld(u) \/ BackUp(u)
             \/ Install(u) \/ InstallFails(u)
      PROVE  ChatsRun'
  <2>1. bot.phase # "down"
    BY <1>7 DEF ConfirmUpgrade, SelfUpdate, RemoveOld, BackUp, Install, InstallFails, ChatsRun
  <2>2. bot' = bot \/ bot'.phase # "down"
    <3>1. CASE ConfirmUpgrade(u) \/ SelfUpdate(u)
      BY <3>1 DEF ConfirmUpgrade, SelfUpdate
    <3>2. CASE RemoveOld(u) \/ BackUp(u) \/ InstallFails(u)
      <4>1. \A p, q : Rename(p, q) => bot'.phase = bot.phase
        BY <1>1 DEF Rename, BotRecord
      <4>2. \A p : RemoveFile(p) => bot'.phase = bot.phase
        BY <1>1 DEF RemoveFile, Put, BotRecord
      <4>. QED BY <2>1, <3>2, <4>1, <4>2 DEF RemoveOld, BackUp, InstallFails
    <3>3. CASE Install(u)
      BY <1>1, <2>1, <3>3 DEF Install, BotRecord
    <3>. QED BY <1>7, <3>1, <3>2, <3>3
  <2>. QED BY <2>1, <2>2 DEF ChatsRun
<1>. QED BY <1>2, <1>3, <1>6, <1>7 DEF UpgradeNext

LEMMA UpgradeInvariance == UpgradeSpec => [](UpgradeInv /\ ChatsRun)
<1>1. UpgradeInit => UpgradeInv /\ ChatsRun
  <2> SUFFICES ASSUME UpgradeInit PROVE UpgradeInv /\ ChatsRun
    OBVIOUS
  <2>1. UpgradeTypeOK
    <3>1. upgradeCrossed \in BOOLEAN /\ bot.linked \in BOOLEAN
      BY Zenon DEF UpgradeInit
    <3>. QED BY <3>1, Paths DEF UpgradeInit, UpgradeTypeOK, IdleUpgrade, IdleUpdate, Version
  <2>2. /\ \A u \in Confirm : ~Replacing(u)
        /\ update.pc = "idle"
    BY DEF UpgradeInit, Replacing, IdleUpgrade, IdleUpdate
  <2>3. Whole(0) /\ binary[0] >= promised /\ 0 \in Path /\ \A p \in Path : ~(p < 0)
    BY DEF UpgradeInit, Whole, Version, Path
  <2>4. BotOK
    BY <2>3, Paths DEF BotOK, UpgradeInit
  <2>5. ChatsRun
    BY DEF ChatsRun, UpgradeInit
  <2>. QED BY <2>1, <2>2, <2>3, <2>4, <2>5 DEF UpgradeInv, FirstIsKept, UpgradeOK, UpdateOK
<1>2. UpgradeInv /\ ChatsRun /\ [UpgradeNext]_upgradeVars => (UpgradeInv /\ ChatsRun)'
  <2> SUFFICES ASSUME UpgradeInv, ChatsRun, [UpgradeNext]_upgradeVars
               PROVE  UpgradeInv' /\ ChatsRun'
    OBVIOUS
  <2>1. CASE UNCHANGED upgradeVars
    BY <2>1 DEF upgradeVars, UpgradeInv, UpgradeTypeOK, FirstIsKept, BotOK, UpgradeOK, UpdateOK,
                Replacing, Whole, Exists, ChatsRun
  <2>2. CASE UpgradeNext
    <3>1. ChatsRun'
      BY <2>2, ChatsRunStays DEF UpgradeInv
    <3>. QED BY <2>2, <3>1, RemoveOldKeeps, BackUpKeeps, InstallKeeps, InstallFailsKeeps,
                UpdatePutKeeps, UpdateMoveKeeps, BeginKeeps, ProcessKeeps DEF UpgradeNext
  <2>. QED BY <2>1, <2>2
<1>. QED BY <1>1, <1>2, PTL DEF UpgradeSpec

\* The state of the replacements is well typed: no upgrade writes behind the last path.
THEOREM UpgradeTypeCorrect == UpgradeSpec => []UpgradeTypeOK
<1>1. UpgradeInv => UpgradeTypeOK
  BY DEF UpgradeInv
<1>. QED BY <1>1, UpgradeInvariance, PTL

\* UpgradeIsKept for any number of chats, releases and ".old" suffixes: what a user was
\* told is installed stays on the disk, whatever fails or is killed (replaceBinary,
\* replaceExecutable), as long as no two replacements cross.
THEOREM UpgradeIsAlwaysKept == UpgradeSpec => []UpgradeIsKept
<1>1. UpgradeInv => UpgradeIsKept
  BY DEF UpgradeInv, UpgradeTypeOK, FirstIsKept, UpgradeIsKept
<1>. QED BY <1>1, UpgradeInvariance, PTL

-----------------------------------------------------------------------------
(* agent/iflow/session.go: the end of a turn.

   A turn has one sender, then one reader; the watcher is gone before the
   reader reports, and the process before the last look at the transcript. *)

InTurn == sender # "no" \/ reader # "none"

TurnOK ==
  /\ ~turnActive => ~InTurn
  /\ sender # "no" => /\ reader = "none" /\ watcher = NoWatcher /\ pendingTool = {}
                      /\ reports = 0
  /\ sender = "start" => process = "none"
  /\ process = "run" => sender = "add" \/ reader = "wait"
  /\ reader \in {"join", "report"} => process \in {"ok", "fail", "canceled"}
  /\ reader = "none" => watcher.pc \in {"none", "gone"}
  /\ reader # "none" => watcher.pc # "none" /\ reports = 0
  /\ reader = "report" => watcher.pc = "gone"
  /\ InTurn /\ killed => resultReady
  /\ process = "canceled" => cancelled \/ killed
  /\ closer # "no" => cancelled
  /\ watcher.exit => process # "run"

\* A session that has no conversation yet has read no line: what changed since the
\* start of the turn is unread, and what is unread of its own process has changed,
\* unless the last look at it failed.
UnnamedOK ==
  /\ InTurn /\ transcriptPath = "unknown" => iflowID = "unknown"
  /\ iflowID = "unknown" =>
       /\ \A f \in fresh : unread[f] # <<>>
       /\ transcriptPath # "unknown" => transcriptPath \in fresh
       /\ unread["own"] # <<>> /\ ~cancelled =>
            missed \/ ("own" \in fresh /\ (reader # "none" \/ sender = "add"))

\* The last look: the process has ended, and nothing of it is left, unless that look
\* failed.
LastLook ==
  /\ watcher.pc = "emit" => transcriptPath # "unknown"
  /\ ~cancelled =>
       /\ watcher.pc = "gone" => watcher.exit
       /\ watcher.exit /\ watcher.pc = "read" /\ transcriptPath = "unknown" =>
            unread["own"] = <<>> \/ missed
       /\ watcher.pc = "gone" /\ transcriptPath # "other" => unread["own"] = <<>> \/ missed
       /\ watcher.pc = "gone" /\ transcriptPath # "unknown" => iflowID # "unknown" \/ missed

\* The type invariant, by the sorts of the variables.
FlagTypes ==
  /\ alive \in BOOLEAN /\ cancelled \in BOOLEAN /\ turnActive \in BOOLEAN
  /\ missed \in BOOLEAN /\ resultReady \in BOOLEAN /\ killed \in BOOLEAN
  /\ abandoned \in BOOLEAN /\ iflowCrossed \in BOOLEAN /\ crash \in BOOLEAN
WordTypes ==
  /\ iflowID \in {"unknown", "own", "other"} /\ transcriptPath \in File \union {"unknown"}
  /\ sender \in {"no", "start", "add"}
  /\ process \in {"none", "run", "ok", "fail", "canceled"}
  /\ reader \in {"none", "wait", "join", "report"}
  /\ closer \in {"no", "waiting", "done"}
SetTypes ==
  /\ pendingTool \subseteq Tool /\ doneTool \subseteq Tool /\ used \subseteq Tool
  /\ timer \subseteq EventKind /\ fresh \subseteq File /\ heard \subseteq File
NumberTypes == queued \in 0..Capacity /\ turns \in 0..MaxTurn /\ reports \in 0..1
FunctionTypes ==
  /\ unread \in [File -> Seq(Line)]
  /\ lines \in [File -> 0..(MaxLine + MaxOther)]
  /\ late \in [EventKind -> 0..MaxLate]
WatcherType ==
  watcher \in [pc : {"none", "find", "read", "emit", "wait", "gone"}, line : Line, exit : BOOLEAN]

LEMMA TypesBySort ==
  IFlowTypeOK <=> FlagTypes /\ WordTypes /\ SetTypes /\ NumberTypes /\ FunctionTypes /\ WatcherType
BY DEF IFlowTypeOK, FlagTypes, WordTypes, SetTypes, NumberTypes, FunctionTypes, WatcherType

IFlowInv ==
  /\ FlagTypes /\ WordTypes /\ SetTypes /\ NumberTypes /\ FunctionTypes /\ WatcherType
  /\ TurnOK /\ UnnamedOK /\ LastLook /\ PendingHasTimer

USE IFlowAssumption

\* Lines are appended behind and read in front.
LEMMA UnreadLines ==
  ASSUME NEW t \in Seq(Line)
  PROVE  /\ [kind |-> "text"] \in Line
         /\ \A line \in Line : Append(t, line) \in Seq(Line) /\ Append(t, line) # <<>>
         /\ t # <<>> => Tail(t) \in Seq(Line) /\ Head(t) \in Line
BY AppendProperties, HeadTailProperties, EmptySeq DEF Line

LEMMA InitIFlow == IFlowInit => IFlowInv
<1>. SUFFICES ASSUME IFlowInit PROVE IFlowInv
  OBVIOUS
<1>. USE DEF IFlowInit
<1>0. <<>> \in Seq(Line) /\ [kind |-> "text"] \in Line
  BY EmptySeq DEF Line
<1>1. FlagTypes
  BY DEF FlagTypes
<1>5. WordTypes /\ SetTypes
  BY DEF WordTypes, SetTypes, File
<1>6. NumberTypes
  BY DEF NumberTypes
<1>2. FunctionTypes
  BY <1>0 DEF FunctionTypes
<1>3. WatcherType
  BY <1>0 DEF WatcherType, NoWatcher
<1>4. TurnOK /\ UnnamedOK /\ LastLook /\ PendingHasTimer
  BY DEF TurnOK, InTurn, UnnamedOK, LastLook, PendingHasTimer, NoWatcher, File
<1>. QED BY <1>1, <1>2, <1>3, <1>4, <1>5, <1>6 DEF IFlowInv

\* A prompt begins a turn: nothing runs, nothing waits.
LEMMA SendKept ==
  ASSUME IFlowInv, Send
  PROVE  IFlowInv'
<1>. USE DEF Send,
         fileVars, sessionVars, turnVars, closeVars
<1>1. FlagTypes'
  BY DEF IFlowInv, FlagTypes
<1>2. WordTypes'
  BY DEF IFlowInv, WordTypes, File
<1>3. SetTypes'
  BY DEF IFlowInv, SetTypes
<1>4. NumberTypes'
  BY DEF IFlowInv, NumberTypes
<1>5. FunctionTypes'
  BY EmptySeq DEF IFlowInv, FunctionTypes
<1>6. WatcherType'
  BY UnreadLines, EmptySeq DEF IFlowInv, WatcherType, NoWatcher
<1>7. TurnOK'
  BY DEF IFlowInv, WordTypes, TurnOK, InTurn, NoWatcher
<1>8. UnnamedOK'
  BY DEF IFlowInv, FunctionTypes, WordTypes, TurnOK, UnnamedOK, InTurn, File
<1>9. LastLook'
  BY DEF IFlowInv, WordTypes, TurnOK, LastLook, NoWatcher
<1>10. PendingHasTimer'
  BY DEF IFlowInv, SetTypes, FunctionTypes, TurnOK, PendingHasTimer, EventKind
<1>. QED BY <1>1, <1>2, <1>3, <1>4, <1>5, <1>6, <1>7, <1>8, <1>9, <1>10 DEF IFlowInv

\* The process, or none, and the goroutines.
LEMMA StartersKept ==
  ASSUME IFlowInv, StartProcess \/ ProcessStartFails \/ StartReader
  PROVE  IFlowInv'
<1>. USE DEF StartProcess, ProcessStartFails, StartReader,
         fileVars, sessionVars, turnVars, closeVars
<1>1. FlagTypes'
  BY DEF IFlowInv, FlagTypes
<1>2. WordTypes'
  BY DEF IFlowInv, WordTypes, File
<1>3. SetTypes'
  BY DEF IFlowInv, SetTypes
<1>4. NumberTypes'
  BY DEF IFlowInv, NumberTypes
<1>5. FunctionTypes'
  BY DEF IFlowInv, FunctionTypes, File
<1>6. WatcherType'
  BY UnreadLines, EmptySeq DEF IFlowInv, WatcherType, NoWatcher
<1>7. TurnOK'
  BY DEF IFlowInv, WordTypes, TurnOK, InTurn, NoWatcher
<1>8. UnnamedOK'
  BY DEF IFlowInv, FunctionTypes, WordTypes, TurnOK, UnnamedOK, InTurn, File
<1>9. LastLook'
  BY DEF IFlowInv, WordTypes, TurnOK, LastLook, NoWatcher
<1>10. PendingHasTimer'
  BY DEF IFlowInv, SetTypes, FunctionTypes, TurnOK, PendingHasTimer, EventKind
<1>. QED BY <1>1, <1>2, <1>3, <1>4, <1>5, <1>6, <1>7, <1>8, <1>9, <1>10 DEF IFlowInv

\* The processes write.
LEMMA LineKept ==
  ASSUME IFlowInv, (\E line \in Line : WriteLine(line)) \/ OtherWrites
  PROVE  IFlowInv'
<1>. USE DEF fileVars, sessionVars, turnVars, closeVars
<1>1. PICK f \in File, line \in Line :
        /\ unread' = [unread EXCEPT ![f] = Append(@, line)]
        /\ fresh' = fresh \union {f} /\ lines' = [lines EXCEPT ![f] = @ + 1]
        /\ lines[f] < MaxLine + MaxOther
        /\ used' \subseteq Tool
        /\ f = "own" => process = "run"
        /\ UNCHANGED <<missed, sessionVars, queued, turnVars, closeVars, crash>>
  <2>1. lines["own"] \in Nat /\ lines["other"] \in Nat
    BY DEF IFlowInv, FunctionTypes, File
  <2>2. [kind |-> "text"] \in Line
    BY UnreadLines, EmptySeq
  <2>3. CASE \E line \in Line : WriteLine(line)
    <3>1. PICK line \in Line : WriteLine(line)
      BY <2>3
    <3>2. used' \subseteq Tool
      BY <3>1 DEF WriteLine, IFlowInv, SetTypes, Line
    <3>3. "own" \in File /\ lines["own"] < MaxLine + MaxOther
      BY <2>1, <3>1 DEF WriteLine, File
    <3>4. /\ unread' = [unread EXCEPT !["own"] = Append(@, line)]
          /\ fresh' = fresh \union {"own"} /\ lines' = [lines EXCEPT !["own"] = @ + 1]
          /\ "own" = "own" => process = "run"
          /\ UNCHANGED <<missed, sessionVars, queued, turnVars, closeVars, crash>>
      BY <3>1 DEF WriteLine
    <3>. QED BY <3>2, <3>3, <3>4, Zenon
  <2>4. CASE OtherWrites
    <3>1. used' \subseteq Tool
      BY <2>4 DEF OtherWrites, IFlowInv, SetTypes
    <3>2. "other" \in File /\ lines["other"] < MaxLine + MaxOther /\ "other" # "own"
      BY <2>1, <2>4 DEF OtherWrites, File
    <3>3. /\ unread' = [unread EXCEPT !["other"] = Append(@, [kind |-> "text"])]
          /\ fresh' = fresh \union {"other"} /\ lines' = [lines EXCEPT !["other"] = @ + 1]
          /\ UNCHANGED <<missed, sessionVars, queued, turnVars, closeVars, crash>>
      BY <2>4 DEF OtherWrites
    <3>. QED BY <2>2, <3>1, <3>2, <3>3, Zenon
  <2>. QED BY <2>3, <2>4
<1>2. FlagTypes' /\ WordTypes' /\ NumberTypes' /\ WatcherType'
  BY <1>1 DEF IFlowInv, FlagTypes, WordTypes, NumberTypes, WatcherType
<1>3. SetTypes'
  BY <1>1 DEF IFlowInv, SetTypes
<1>4. /\ unread' \in [File -> Seq(Line)] /\ unread'[f] # <<>>
      /\ \A g \in File \ {f} : unread'[g] = unread[g]
  <2>1. unread \in [File -> Seq(Line)] /\ unread[f] \in Seq(Line)
    BY DEF IFlowInv, FunctionTypes
  <2>2. Append(unread[f], line) \in Seq(Line) /\ Append(unread[f], line) # <<>>
    BY <2>1, UnreadLines
  <2>. QED BY <1>1, <2>1, <2>2
<1>5. FunctionTypes'
  BY <1>1, <1>4 DEF IFlowInv, FunctionTypes
<1>6. TurnOK' /\ PendingHasTimer'
  BY <1>1 DEF IFlowInv, TurnOK, InTurn, PendingHasTimer
<1>7. UnnamedOK'
  BY <1>1, <1>4 DEF IFlowInv, SetTypes, WordTypes, TurnOK, UnnamedOK, InTurn, File
<1>8. LastLook'
  BY <1>1, <1>4 DEF IFlowInv, WordTypes, TurnOK, LastLook, File
<1>. QED BY <1>2, <1>3, <1>5, <1>6, <1>7, <1>8 DEF IFlowInv

\* The engine takes an event, or closes.
LEMMA CloseKept ==
  ASSUME IFlowInv, TakeEvent \/ BeginClose \/ CloseEvents
  PROVE  IFlowInv'
<1>. USE DEF TakeEvent, BeginClose, CloseEvents,
         fileVars, sessionVars, turnVars, closeVars
<1>1. FlagTypes'
  BY Zenon DEF IFlowInv, FlagTypes
<1>2. WordTypes'
  BY DEF IFlowInv, WordTypes, File
<1>3. SetTypes'
  BY DEF IFlowInv, SetTypes
<1>4. NumberTypes'
  BY DEF IFlowInv, NumberTypes
<1>5. FunctionTypes'
  BY DEF IFlowInv, FunctionTypes, File
<1>6. WatcherType'
  BY DEF IFlowInv, WatcherType
<1>7. TurnOK'
  BY DEF IFlowInv, WordTypes, WatcherType, TurnOK, InTurn
<1>8. UnnamedOK'
  BY DEF IFlowInv, FunctionTypes, WordTypes, TurnOK, UnnamedOK, InTurn, File
<1>9. LastLook'
  BY DEF IFlowInv, FunctionTypes, WordTypes, WatcherType, TurnOK, UnnamedOK, LastLook, File
<1>10. PendingHasTimer'
  BY DEF IFlowInv, SetTypes, FunctionTypes, TurnOK, PendingHasTimer, EventKind
<1>. QED BY <1>1, <1>2, <1>3, <1>4, <1>5, <1>6, <1>7, <1>8, <1>9, <1>10 DEF IFlowInv

\* The process ends, and cmd.Wait returns.
LEMMA ExitKept ==
  ASSUME IFlowInv, (\E how \in {"ok", "fail", "canceled"} : Exit(how)) \/ WaitProcess
  PROVE  IFlowInv'
<1>. USE DEF Exit, WaitProcess,
         fileVars, sessionVars, turnVars, closeVars
<1>1. FlagTypes'
  BY DEF IFlowInv, FlagTypes
<1>2. WordTypes'
  BY DEF IFlowInv, WordTypes, File
<1>3. SetTypes'
  BY DEF IFlowInv, SetTypes
<1>4. NumberTypes'
  BY DEF IFlowInv, NumberTypes
<1>5. FunctionTypes'
  BY DEF IFlowInv, FunctionTypes, File
<1>6. WatcherType'
  BY DEF IFlowInv, WatcherType
<1>7. TurnOK'
  BY DEF IFlowInv, WordTypes, WatcherType, TurnOK, InTurn
<1>8. UnnamedOK'
  BY DEF IFlowInv, FunctionTypes, WordTypes, TurnOK, UnnamedOK, InTurn, File
<1>9. LastLook'
  BY DEF IFlowInv, FunctionTypes, WordTypes, WatcherType, TurnOK, UnnamedOK, LastLook, File
<1>10. PendingHasTimer'
  BY DEF IFlowInv, SetTypes, FunctionTypes, TurnOK, PendingHasTimer, EventKind
<1>. QED BY <1>1, <1>2, <1>3, <1>4, <1>5, <1>6, <1>7, <1>8, <1>9, <1>10 DEF IFlowInv

\* A timer fires; its callback ends the wait for the tools, or leaves it alone.
LEMMA TimerKept ==
  ASSUME IFlowInv, \E k \in EventKind : Fire(k) \/ Callback(k)
  PROVE  IFlowInv'
<1>. USE DEF Fire, Callback,
         fileVars, sessionVars, turnVars, closeVars
<1>1. FlagTypes'
  BY DEF IFlowInv, FlagTypes
<1>2. WordTypes'
  BY DEF IFlowInv, WordTypes, File
<1>3. SetTypes'
  BY DEF IFlowInv, SetTypes
<1>4. NumberTypes'
  BY DEF IFlowInv, NumberTypes
<1>5. FunctionTypes'
  BY DEF IFlowInv, FunctionTypes, EventKind
<1>6. WatcherType'
  BY DEF IFlowInv, WatcherType
<1>7. TurnOK'
  BY DEF IFlowInv, WordTypes, WatcherType, TurnOK, InTurn
<1>8. UnnamedOK'
  BY DEF IFlowInv, FunctionTypes, WordTypes, TurnOK, UnnamedOK, InTurn, File
<1>9. LastLook'
  BY DEF IFlowInv, FunctionTypes, WordTypes, WatcherType, TurnOK, UnnamedOK, LastLook, File
<1>10. PendingHasTimer'
  BY DEF IFlowInv, SetTypes, FunctionTypes, TurnOK, PendingHasTimer, EventKind
<1>. QED BY <1>1, <1>2, <1>3, <1>4, <1>5, <1>6, <1>7, <1>8, <1>9, <1>10 DEF IFlowInv

\* The watcher goes round. It looks for a transcript, finds one that has changed, ...
LEMMA FindKept ==
  ASSUME IFlowInv, FindTranscript
  PROVE  IFlowInv'
<1>. USE DEF fileVars, sessionVars, turnVars, closeVars
<1>1. /\ watcher.pc = "find" /\ watcher'.pc = "read" /\ watcher'.exit = watcher.exit
      /\ watcher' = [watcher EXCEPT !.pc = "read"] /\ WatcherType'
      /\ UNCHANGED <<process, reader, pendingTool, doneTool, timer, late, resultReady, killed,
                     heard, reports, unread, fresh, lines, used, sessionVars, queued, closeVars,
                     crash>>
  BY DEF FindTranscript, LooksFor, IFlowInv, WatcherType
<1>2. \/ transcriptPath = "unknown" /\ transcriptPath' \in fresh /\ transcriptPath' \in File
      \/ transcriptPath' = transcriptPath /\ (transcriptPath = "unknown" => fresh = {})
  BY DEF FindTranscript, LooksFor, IFlowInv, SetTypes
<1>0. missed' = (missed /\ transcriptPath' # "own")
  BY DEF FindTranscript
<1>3. FlagTypes' /\ WordTypes' /\ NumberTypes' /\ SetTypes' /\ FunctionTypes'
  BY <1>0, <1>1, <1>2 DEF IFlowInv, FlagTypes, WordTypes, NumberTypes, SetTypes, FunctionTypes
<1>4. TurnOK' /\ PendingHasTimer'
  BY <1>1 DEF IFlowInv, TurnOK, InTurn, PendingHasTimer, NoWatcher
<1>6. InTurn /\ reader # "none"
  BY <1>1 DEF IFlowInv, WordTypes, TurnOK, InTurn
<1>5. UnnamedOK'
  BY <1>0, <1>1, <1>2, <1>6 DEF IFlowInv, TurnOK, UnnamedOK, InTurn, File
<1>7. LastLook'
  BY <1>0, <1>1, <1>2, <1>6 DEF IFlowInv, TurnOK, UnnamedOK, LastLook, File
<1>. QED BY <1>1, <1>3, <1>4, <1>5, <1>7 DEF IFlowInv

\* ... which cannot be read, ...
LEMMA PollFailsKept ==
  ASSUME IFlowInv, PollFails
  PROVE  IFlowInv'
<1>. USE DEF fileVars, sessionVars, turnVars, closeVars
<1>1. /\ watcher.pc = "find"
      /\ watcher' = [watcher EXCEPT !.pc = IF watcher.exit THEN "gone" ELSE "wait"]
      /\ UNCHANGED <<process, reader, pendingTool, doneTool, timer, late, resultReady, killed,
                     heard, reports, unread, fresh, lines, used, sessionVars, queued, closeVars,
                     crash>>
  BY DEF PollFails, LooksFor
<1>2. \/ transcriptPath = "unknown" /\ transcriptPath' \in fresh /\ transcriptPath' \in File
      \/ transcriptPath' = transcriptPath /\ transcriptPath # "unknown"
  BY DEF PollFails, LooksFor, IFlowInv, SetTypes
<1>3. /\ WatcherType' /\ watcher'.exit = watcher.exit
      /\ \/ watcher.exit /\ watcher'.pc = "gone"
         \/ ~watcher.exit /\ watcher'.pc = "wait"
  <2>1. PICK pc \in {"gone", "wait"} :
          watcher' = [watcher EXCEPT !.pc = pc] /\ (pc = "gone" <=> watcher.exit)
    BY <1>1, Zenon
  <2>2. WatcherType
    BY DEF IFlowInv
  <2>. QED BY <2>1, <2>2 DEF WatcherType
<1>4. missed' = (missed \/ watcher.exit) /\ missed' \in BOOLEAN
  BY DEF PollFails
<1>5. FlagTypes' /\ WordTypes' /\ NumberTypes' /\ SetTypes' /\ FunctionTypes'
  BY <1>1, <1>2, <1>4 DEF IFlowInv, FlagTypes, WordTypes, NumberTypes, SetTypes, FunctionTypes
<1>6. TurnOK' /\ PendingHasTimer'
  BY <1>1, <1>3 DEF IFlowInv, TurnOK, InTurn, PendingHasTimer, NoWatcher
<1>7. InTurn /\ reader # "none"
  BY <1>1 DEF IFlowInv, WordTypes, TurnOK, InTurn
<1>8. UnnamedOK'
  BY <1>1, <1>2, <1>4, <1>7 DEF IFlowInv, TurnOK, UnnamedOK, InTurn, File
<1>9. LastLook'
  BY <1>1, <1>2, <1>3, <1>4 DEF LastLook
<1>. QED BY <1>3, <1>5, <1>6, <1>8, <1>9 DEF IFlowInv

\* ... and comes to the end of what there is, ...
LEMMA EndOfLinesKept ==
  ASSUME IFlowInv, EndOfLines
  PROVE  IFlowInv'
<1>. USE DEF fileVars, sessionVars, turnVars, closeVars
<1>1. /\ watcher.pc = "read" /\ ~HasLine
      /\ watcher' = [watcher EXCEPT !.pc = IF watcher.exit THEN "gone" ELSE "wait"]
      /\ UNCHANGED <<transcriptPath, process, reader, pendingTool, doneTool, timer, late,
                     resultReady, killed, heard, reports, fileVars, sessionVars, queued,
                     closeVars, crash>>
  BY DEF EndOfLines
<1>2. /\ WatcherType' /\ watcher'.exit = watcher.exit
      /\ \/ watcher.exit /\ watcher'.pc = "gone"
         \/ ~watcher.exit /\ watcher'.pc = "wait"
  <2>1. PICK pc \in {"gone", "wait"} :
          watcher' = [watcher EXCEPT !.pc = pc] /\ (pc = "gone" <=> watcher.exit)
    BY <1>1, Zenon
  <2>2. WatcherType
    BY DEF IFlowInv
  <2>. QED BY <2>1, <2>2 DEF WatcherType
<1>3. FlagTypes' /\ WordTypes' /\ NumberTypes' /\ SetTypes' /\ FunctionTypes'
  BY <1>1, <1>2 DEF IFlowInv, FlagTypes, WordTypes, NumberTypes, SetTypes, FunctionTypes
<1>4. TurnOK' /\ PendingHasTimer' /\ UnnamedOK'
  BY <1>1, <1>2 DEF IFlowInv, TurnOK, InTurn, PendingHasTimer, NoWatcher, UnnamedOK
<1>5. LastLook'
  BY <1>1, <1>2 DEF IFlowInv, WordTypes, TurnOK, UnnamedOK, LastLook, HasLine, File
<1>. QED BY <1>2, <1>3, <1>4, <1>5 DEF IFlowInv

\* ... and waits for a tick, for the end of the process, or of the session.
LEMMA PollKept ==
  ASSUME IFlowInv, Poll
  PROVE  IFlowInv'
<1>. USE DEF fileVars, sessionVars, turnVars, closeVars
<1>1. /\ watcher.pc = "wait"
      /\ UNCHANGED <<transcriptPath, process, reader, pendingTool, doneTool, timer, late,
                     resultReady, killed, heard, reports, fileVars, sessionVars, queued,
                     closeVars, crash>>
  BY DEF Poll
<1>2. /\ WatcherType'
      /\ \/ cancelled /\ watcher'.pc = "gone" /\ watcher'.exit = watcher.exit
         \/ reader = "join" /\ watcher'.pc = "find" /\ watcher'.exit = TRUE
         \/ watcher'.pc = "find" /\ watcher'.exit = watcher.exit
  BY DEF Poll, WatcherWakes, IFlowInv, WatcherType
<1>3. FlagTypes' /\ WordTypes' /\ NumberTypes' /\ SetTypes' /\ FunctionTypes'
  BY <1>1 DEF IFlowInv, FlagTypes, WordTypes, NumberTypes, SetTypes, FunctionTypes
<1>4. reader \in {"wait", "join"}
  BY <1>1 DEF IFlowInv, WordTypes, TurnOK
<1>5. watcher'.exit => process # "run"
  <2>1. watcher.exit => process # "run"
    BY DEF IFlowInv, TurnOK
  <2>2. reader = "join" => process # "run"
    BY DEF IFlowInv, TurnOK
  <2>. QED BY <1>2, <2>1, <2>2
<1>6. TurnOK' /\ PendingHasTimer' /\ UnnamedOK'
  BY <1>1, <1>2, <1>4, <1>5 DEF IFlowInv, TurnOK, InTurn, PendingHasTimer, NoWatcher, UnnamedOK
<1>7. LastLook'
  BY <1>1, <1>2 DEF IFlowInv, LastLook
<1>. QED BY <1>2, <1>3, <1>6, <1>7 DEF IFlowInv

\* An event of a line.
LEMMA EmitKept ==
  ASSUME IFlowInv, EmitLine
  PROVE  IFlowInv'
<1>. USE DEF EmitLine, Emitted,
         fileVars, sessionVars, turnVars, closeVars
<1>1. FlagTypes'
  BY DEF IFlowInv, FlagTypes
<1>2. WordTypes'
  BY DEF IFlowInv, WordTypes, File
<1>3. SetTypes'
  BY DEF IFlowInv, SetTypes, EventKind
<1>4. NumberTypes'
  BY DEF IFlowInv, NumberTypes
<1>5. FunctionTypes'
  BY DEF IFlowInv, FunctionTypes, File
<1>6. WatcherType'
  BY DEF IFlowInv, WatcherType
<1>7. TurnOK'
  BY DEF IFlowInv, WordTypes, WatcherType, TurnOK, InTurn
<1>8. UnnamedOK'
  BY DEF IFlowInv, FunctionTypes, WordTypes, TurnOK, UnnamedOK, InTurn, File
<1>9. LastLook'
  BY DEF IFlowInv, FunctionTypes, WordTypes, WatcherType, TurnOK, UnnamedOK, LastLook, File
<1>10. PendingHasTimer'
  BY DEF IFlowInv, SetTypes, FunctionTypes, TurnOK, PendingHasTimer, EventKind
<1>. QED BY <1>1, <1>2, <1>3, <1>4, <1>5, <1>6, <1>7, <1>8, <1>9, <1>10 DEF IFlowInv

\* A line names the conversation. The use of a tool starts its timer, a result ends
\* the wait with the last tool.
LEMMA ReadKept ==
  ASSUME IFlowInv, ReadLine
  PROVE  IFlowInv'
<1>. USE DEF fileVars, sessionVars, turnVars, closeVars
<1>1. PICK f \in File, line \in Line :
        /\ f = transcriptPath /\ f # "unknown" /\ line = Head(unread[f])
        /\ unread[f] # <<>> /\ unread' = [unread EXCEPT ![f] = Tail(@)]
  <2>1. transcriptPath \in File /\ transcriptPath # "unknown" /\ unread[transcriptPath] # <<>>
    BY DEF ReadLine, HasLine, IFlowInv, WordTypes, File
  <2>2. unread[transcriptPath] \in Seq(Line)
    BY <2>1 DEF IFlowInv, FunctionTypes
  <2>. QED BY <2>1, <2>2, UnreadLines DEF ReadLine
<1>2. /\ watcher.pc = "read" /\ iflowID' = f
      /\ UNCHANGED <<alive, cancelled, turnActive, sender, turns, queued, transcriptPath, fresh,
                     missed, lines, used, process, reader, late, resultReady, killed, reports,
                     closeVars, crash>>
  BY <1>1 DEF ReadLine
<1>3. \/ /\ heard' = heard \union {f} /\ watcher' = [watcher EXCEPT !.pc = "emit", !.line = line]
         /\ UNCHANGED <<pendingTool, doneTool, timer>>
      \/ /\ line.tool \in Tool /\ pendingTool' = pendingTool \union {line.tool}
         /\ timer' = {"tool"} /\ UNCHANGED <<doneTool, heard>>
         /\ watcher' = [watcher EXCEPT !.pc = "emit", !.line = line] \/ watcher' = watcher
      \/ UNCHANGED <<pendingTool, doneTool, timer, heard, watcher>>
      \/ /\ line.tool \in Tool /\ pendingTool' = pendingTool \ {line.tool}
         /\ doneTool' = doneTool \union {line.tool} /\ UNCHANGED <<watcher, heard>>
         /\ timer' = IF pendingTool' = {} THEN timer \ {"tool"} ELSE timer
  <2>1. CASE line.kind = "text"
    BY <1>1, <2>1 DEF ReadLine
  <2>2. CASE line.kind = "use"
    <3>1. line.tool \in Tool
      BY <2>2 DEF Line
    <3>2. AddPendingTools(line.tool) /\ UNCHANGED <<doneTool, heard>>
          /\ watcher' = IF pendingTool' = pendingTool
                          THEN watcher ELSE [watcher EXCEPT !.pc = "emit", !.line = line]
      BY <1>1, <2>2 DEF ReadLine
    <3>. QED BY <3>1, <3>2 DEF AddPendingTools
  <2>3. CASE line.kind = "result"
    <3>1. line.tool \in Tool
      BY <2>3 DEF Line
    <3>2. CompleteTools(line.tool) /\ UNCHANGED <<watcher, heard>>
      BY <1>1, <2>3 DEF ReadLine
    <3>. QED BY <3>1, <3>2 DEF CompleteTools
  <2>4. line.kind \in {"text", "use", "result"}
    BY DEF Line
  <2>. QED BY <2>1, <2>2, <2>3, <2>4
<1>4. WatcherType' /\ watcher'.exit = watcher.exit /\ watcher'.pc \in {"read", "emit"}
  BY <1>2, <1>3 DEF IFlowInv, WatcherType
<1>5. FlagTypes' /\ WordTypes' /\ NumberTypes'
  BY <1>1, <1>2 DEF IFlowInv, FlagTypes, WordTypes, NumberTypes, File
<1>6. SetTypes'
  BY <1>2, <1>3 DEF IFlowInv, SetTypes, EventKind
<1>7. FunctionTypes'
  <2>1. unread \in [File -> Seq(Line)] /\ unread[f] \in Seq(Line)
    BY DEF IFlowInv, FunctionTypes
  <2>2. Tail(unread[f]) \in Seq(Line)
    BY <1>1, <2>1, UnreadLines
  <2>3. unread' \in [File -> Seq(Line)]
    BY <1>1, <2>1, <2>2
  <2>. QED BY <1>2, <2>3 DEF IFlowInv, FunctionTypes
<1>8. sender = "no" /\ reader \in {"wait", "join"}
  BY <1>2 DEF IFlowInv, WordTypes, TurnOK, NoWatcher
<1>9. TurnOK'
  BY <1>2, <1>4, <1>8 DEF IFlowInv, TurnOK, InTurn
<1>10. UnnamedOK'
  BY <1>1, <1>2 DEF UnnamedOK
<1>11. LastLook'
  BY <1>1, <1>2, <1>4 DEF IFlowInv, LastLook
<1>12. PendingHasTimer'
  BY <1>2, <1>3 DEF IFlowInv, PendingHasTimer
<1>. QED BY <1>4, <1>5, <1>6, <1>7, <1>9, <1>10, <1>11, <1>12 DEF IFlowInv

\* The reader joins the watcher, reports and ends the turn.
LEMMA EndKept ==
  ASSUME IFlowInv, Join \/ Report \/ Silent
  PROVE  IFlowInv'
<1>. USE DEF Join, Report, Silent, SaysNothing, Emitted, ReaderEnds,
         fileVars, sessionVars, turnVars, closeVars
<1>1. FlagTypes'
  BY DEF IFlowInv, FlagTypes
<1>2. WordTypes'
  BY DEF IFlowInv, WordTypes, File
<1>3. SetTypes'
  BY DEF IFlowInv, SetTypes
<1>4. NumberTypes'
  BY DEF IFlowInv, NumberTypes, TurnOK
<1>5. FunctionTypes'
  BY DEF IFlowInv, FunctionTypes, File
<1>6. WatcherType'
  BY DEF IFlowInv, WatcherType
<1>7. TurnOK'
  BY DEF IFlowInv, WordTypes, WatcherType, TurnOK, InTurn
<1>8. UnnamedOK'
  BY DEF IFlowInv, WordTypes, TurnOK, UnnamedOK, LastLook, InTurn, File
<1>9. LastLook'
  BY DEF IFlowInv, FunctionTypes, WordTypes, WatcherType, TurnOK, UnnamedOK, LastLook, File
<1>10. PendingHasTimer'
  BY DEF IFlowInv, SetTypes, FunctionTypes, TurnOK, PendingHasTimer, EventKind
<1>. QED BY <1>1, <1>2, <1>3, <1>4, <1>5, <1>6, <1>7, <1>8, <1>9, <1>10 DEF IFlowInv

LEMMA IFlowStep == IFlowInv /\ [IFlowNext]_iflowVars => IFlowInv'
<1>. SUFFICES ASSUME IFlowInv, [IFlowNext]_iflowVars PROVE IFlowInv'
  OBVIOUS
<1>1. CASE UNCHANGED iflowVars
  BY <1>1 DEF iflowVars, IFlowInv, FlagTypes, WordTypes, SetTypes, NumberTypes, FunctionTypes,
     WatcherType, TurnOK, InTurn, UnnamedOK, LastLook, PendingHasTimer
<1>2. CASE IFlowNext
  BY <1>2, SendKept, StartersKept, LineKept, CloseKept, ExitKept, TimerKept, FindKept,
     EndOfLinesKept, PollFailsKept, PollKept, EmitKept, ReadKept, EndKept DEF IFlowNext
<1>. QED BY <1>1, <1>2

THEOREM IFlowInvariance == IFlowSpec => []IFlowInv
<1>. QED BY InitIFlow, IFlowStep, PTL DEF IFlowSpec

\* An iflow session keeps its types: a turn reports once at most.
THEOREM IFlowTypeCorrect == IFlowSpec => []IFlowTypeOK
<1>1. IFlowInv => IFlowTypeOK
  BY TypesBySort DEF IFlowInv
<1>. QED BY <1>1, IFlowInvariance, PTL

\* For any number of tools, lines and late callbacks: while a turn waits for a tool, a
\* timer or its callback is there to end the wait (addPendingTools, completeTools and
\* the callbacks of the timers).
THEOREM PendingIsTimed == IFlowSpec => []PendingHasTimer
<1>1. IFlowInv => PendingHasTimer
  BY DEF IFlowInv
<1>. QED BY <1>1, IFlowInvariance, PTL

\* For any number of prompts and lines: a turn of a session that is not closed ends with
\* one report, not before every line of its process was read, unless another chat's
\* transcript was taken for its own, or the last poll could not read it (readLoop,
\* watchTranscript and consumeTranscript).
THEOREM EveryReportIsComplete == IFlowSpec => ReportIsComplete
<1>1. IFlowInv /\ [IFlowNext]_iflowVars =>
        [reader = "report" /\ reader' = "none" /\ ~cancelled =>
           /\ reports' = 1
           /\ unread["own"] = <<>> \/ transcriptPath = "other" \/ missed]_iflowVars
  <2>. SUFFICES ASSUME IFlowInv, IFlowNext, reader = "report", reader' = "none", ~cancelled
                PROVE  reports' = 1 /\ (unread["own"] = <<>> \/ transcriptPath = "other" \/ missed)
    OBVIOUS
  <2>1. Report \/ Silent
    BY DEF IFlowNext, Send, StartProcess, ProcessStartFails, StartReader, WriteLine, OtherWrites,
           TakeEvent, Exit, FindTranscript, PollFails, LooksFor, ReadLine, EmitLine, EndOfLines, Poll, Fire, Callback,
           WaitProcess, Join, BeginClose, CloseEvents, turnVars
  <2>2. watcher.pc = "gone" /\ reports = 0 /\ closer = "no" /\ (killed => resultReady)
    BY DEF IFlowInv, WordTypes, TurnOK, InTurn
  <2>3. unread["own"] = <<>> \/ transcriptPath = "other" \/ missed
    BY <2>2 DEF IFlowInv, LastLook
  <2>4. ~SaysNothing
    BY <2>2 DEF SaysNothing, IFlowInv, TurnOK
  <2>5. Report /\ queued \in Nat
    BY <2>1, <2>4 DEF Silent, IFlowInv, NumberTypes
  <2>6. reports' = 1
    BY <2>2, <2>5 DEF Report, Emitted
  <2>. QED BY <2>3, <2>6
<1>. QED BY <1>1, IFlowInvariance, PTL DEF IFlowSpec, ReportIsComplete

-----------------------------------------------------------------------------
(* Each step of an iflow session is a step of AgentSession, or changes     *)
(* nothing there.                                                          *)

\* A turn has a number.
TurnNumbered == InTurn => turns # 0

\* Who is there: from the start of the process to the end of readLoop, since the process
\* and the watcher end before it.
LEMMA WorkingIs ==
  /\ IFlowInv =>
       IFlowWorking = IF sender = "add" \/ reader # "none" THEN {turns} ELSE {}
  /\ IFlowInv' =>
       IFlowWorking' = IF sender' = "add" \/ reader' # "none" THEN {turns'} ELSE {}
BY DEF IFlowInv, WordTypes, TurnOK, InTurn, NoWatcher, IFlowWorking

\* An event of the watcher or of the end of the turn.
LEMMA EmitWorks ==
  ASSUME IFlowInv, IFlowInv', TurnNumbered, EmitLine \/ Report \/ Silent
  PROVE  IFlowContract!Work(turns) \/ IFlowContract!Panic(turns)
<1>1. reader # "none" /\ sender = "no" /\ turns \in 1..MaxTurn /\ queued \in 0..Capacity
  BY DEF EmitLine, Report, Silent, IFlowInv, TurnOK, NumberTypes, TurnNumbered, InTurn
<1>2. UNCHANGED <<turns, cancelled, closer>> /\ sender' = "no"
  BY <1>1 DEF EmitLine, Report, Silent, sessionVars, closeVars
<1>3. IFlowWorking = {turns} /\ IFlowWorking' \in {{turns}, {}}
  BY <1>1, <1>2, WorkingIs
<1>4. IFlowWorking' = IFlowWorking \/ IFlowWorking' = IFlowWorking \ {turns}
  BY <1>3
<1>5. turns \in IFlowWorking
  BY <1>3
<1>. HIDE DEF IFlowWorking
<1>6. CASE UNCHANGED <<queued, crash>>
  BY <1>2, <1>4, <1>5, <1>6 DEF IFlowContract!Work
<1>7. CASE closer # "done" /\ queued < Capacity /\ queued' = queued + 1 /\ UNCHANGED crash
  BY <1>2, <1>4, <1>5, <1>7 DEF IFlowContract!Work
<1>8. CASE closer = "done" /\ crash' = TRUE /\ UNCHANGED queued
  BY <1>2, <1>4, <1>5, <1>8 DEF IFlowContract!Panic
<1>9. CASE Silent
  BY <1>6, <1>9 DEF Silent
<1>10. CASE EmitLine \/ Report
  BY <1>6, <1>7, <1>8, <1>10 DEF EmitLine, Report, Emitted
<1>. QED BY <1>9, <1>10

LEMMA IFlowRefines ==
  ASSUME IFlowInv, IFlowInv', TurnNumbered, [IFlowNext]_iflowVars
  PROVE  TurnNumbered' /\ [IFlowContract!Next]_(IFlowContract!vars)
<1>. USE DEF fileVars, sessionVars, turnVars, closeVars
<1>0. /\ IFlowWorking = IF sender = "add" \/ reader # "none" THEN {turns} ELSE {}
      /\ IFlowWorking' = IF sender' = "add" \/ reader' # "none" THEN {turns'} ELSE {}
  BY WorkingIs
<1>00. turns \in Nat /\ queued \in Nat /\ (closer # "no" => cancelled)
  BY DEF IFlowInv, NumberTypes, TurnOK
<1>. HIDE DEF IFlowWorking
<1>1. CASE UNCHANGED <<sender, reader, turns, cancelled, queued, closer, crash>>
  BY <1>0, <1>1 DEF TurnNumbered, InTurn, IFlowContract!vars
<1>2. CASE UNCHANGED iflowVars
  BY <1>1, <1>2 DEF iflowVars
<1>3. CASE \/ (\E line \in Line : WriteLine(line)) \/ OtherWrites
           \/ (\E how \in {"ok", "fail", "canceled"} : Exit(how))
           \/ FindTranscript \/ PollFails \/ ReadLine \/ EndOfLines \/ Poll
           \/ \E k \in EventKind : Fire(k) \/ Callback(k)
  BY <1>1, <1>3 DEF WriteLine, OtherWrites, Exit, FindTranscript, PollFails, LooksFor, ReadLine,
                    EndOfLines, Poll, Fire, Callback
<1>4. CASE Send
  <2>1. /\ sender' = "start" /\ reader' = "none" /\ reader = "none" /\ sender = "no"
        /\ turns' = turns + 1 /\ UNCHANGED <<cancelled, queued, closer, crash>>
    BY <1>4 DEF Send, IFlowInv, TurnOK, InTurn
  <2>. QED BY <1>0, <1>00, <2>1 DEF TurnNumbered, IFlowContract!vars
<1>5. CASE StartProcess
  <2>1. /\ sender = "start" /\ reader = "none" /\ sender' = "add" /\ ~cancelled
        /\ UNCHANGED <<reader, turns, cancelled, queued, closer, crash>>
    BY <1>5 DEF StartProcess, IFlowInv, TurnOK
  <2>2. turns \in 1..MaxTurn
    BY <2>1 DEF TurnNumbered, InTurn, IFlowInv, NumberTypes
  <2>3. IFlowWorking = {} /\ IFlowWorking' = {turns} /\ closer # "done"
    BY <1>0, <1>00, <2>1
  <2>4. IFlowContract!Start(turns)
    BY <2>1, <2>3 DEF IFlowContract!Start
  <2>. QED BY <2>1, <2>2, <2>4 DEF TurnNumbered, InTurn, IFlowContract!Next
<1>6. CASE ProcessStartFails \/ StartReader \/ WaitProcess \/ Join
  <2>1. UNCHANGED <<turns, cancelled, queued, closer, crash>>
    BY <1>6 DEF ProcessStartFails, StartReader, WaitProcess, Join
  <2>2. /\ (sender' = "add" \/ reader' # "none") <=> (sender = "add" \/ reader # "none")
        /\ InTurn' => InTurn
    BY <1>6 DEF ProcessStartFails, StartReader, WaitProcess, Join, InTurn, IFlowInv, TurnOK
  <2>. QED BY <1>0, <2>1, <2>2 DEF TurnNumbered, IFlowContract!vars
<1>7. CASE TakeEvent
  <2>1. queued > 0 /\ queued' = queued - 1
        /\ UNCHANGED <<sender, reader, turns, cancelled, closer, crash>>
    BY <1>7 DEF TakeEvent
  <2>2. IFlowContract!Take
    BY <1>0, <2>1 DEF IFlowContract!Take
  <2>. QED BY <2>1, <2>2 DEF TurnNumbered, InTurn, IFlowContract!Next
<1>8. CASE EmitLine \/ Report \/ Silent
  <2>1. turns \in 1..MaxTurn /\ InTurn /\ turns' = turns
    BY <1>8 DEF EmitLine, Report, Silent, IFlowInv, TurnOK, InTurn, TurnNumbered, NumberTypes
  <2>2. IFlowContract!Work(turns) \/ IFlowContract!Panic(turns)
    BY <1>8, EmitWorks
  <2>. QED BY <2>1, <2>2 DEF TurnNumbered, IFlowContract!Next
<1>9. CASE BeginClose
  <2>1. cancelled' = TRUE /\ closer = "no" /\ closer' = "waiting"
        /\ UNCHANGED <<sender, reader, turns, queued, crash>>
    BY <1>9 DEF BeginClose
  <2>2. IFlowContract!Stop
    BY <1>0, <2>1 DEF IFlowContract!Stop
  <2>. QED BY <2>1, <2>2 DEF TurnNumbered, InTurn, IFlowContract!Next
<1>10. CASE CloseEvents
  <2>1. closer = "waiting" /\ closer' = "done"
        /\ UNCHANGED <<sender, reader, turns, cancelled, queued, crash>>
    BY <1>10 DEF CloseEvents
  <2>2. IFlowContract!Return
    BY <1>0, <1>00, <2>1 DEF IFlowContract!Return
  <2>. QED BY <2>1, <2>2 DEF TurnNumbered, InTurn, IFlowContract!Next
<1>. QED BY <1>2, <1>3, <1>4, <1>5, <1>6, <1>7, <1>8, <1>9, <1>10 DEF IFlowNext

\* iFlow keeps what every AgentSession promises, for any number of prompts, tools and
\* late callbacks: IFlowKeepsContract.
THEOREM IFlowIsAgentSession == IFlowSpec => IFlowKeepsContract
<1>1. IFlowInit => TurnNumbered /\ IFlowContract!Init
  BY DEF IFlowInit, TurnNumbered, InTurn, IFlowContract!Init, IFlowWorking, NoWatcher
<1>2. IFlowInv /\ IFlowInv' /\ TurnNumbered /\ [IFlowNext]_iflowVars
        => TurnNumbered' /\ [IFlowContract!Next]_(IFlowContract!vars)
  BY IFlowRefines
<1>. QED BY <1>1, <1>2, IFlowInvariance, PTL DEF IFlowSpec, IFlowKeepsContract, IFlowContract!Spec
=============================================================================
