# cc-connect in TLA+

cc-connect is one Go program that puts coding agents (Claude Code, Codex, Gemini, ...)
behind chat platforms (Feishu, QQ, Telegram, ...). This directory holds TLA+ modules of its
concurrent core, instances that TLC checks, and theorems that TLAPS proves. Paths and line
numbers below are those of the repository; `PROJECT.json` maps every definition to the lines
it stands for.

1. [The system](#1-the-system)
2. [What is modelled where](#2-what-is-modelled-where)
3. [What the runs check](#3-what-the-runs-check)
4. [Bounds](#4-bounds)
5. [Fairness](#5-fairness)
6. [Disagreements found](#6-disagreements-found)
7. [What is proved](#7-what-is-proved)
8. [What is not modelled](#8-what-is-not-modelled)
9. [Plan](#9-plan)

## 1. The system

A platform adapter receives a chat message, drops duplicates and old ones, and calls
`Engine.handleMessage` of its project. The engine answers commands itself, gives answers to
permission requests to the agent, and turns every other message into a *turn*: it locks the
active `Session` of the chat, looks up or starts an agent process, sends it the prompt, and
forwards the agent's events until the result. Around it are a scheduler that starts turns by
itself, a relay by which one bot asks another, and a file for each store.

```
platform --handleMessage--> Engine --Send/RespondPermission/Close--> AgentSession (process)
   ^                         | ^  ^                                        |
   |        Reply/Send       | |  +----------- Events() channel -----------+
   +-------------------------+ |
   +---- streamPreview <-------+---- CronScheduler, RelayManager, API server
                               +---- SessionManager (file), CronStore (file)
```

### Inventory

| Component | State | Operations | What is hard | What makes it correct |
|---|---|---|---|---|
| **Engine: turns** (`core/engine.go`) | `interactiveStates` by session key, each with its agent session, pending permission, `approveAll`, `quiet`; one event loop per turn | `handleMessage`, permission answers, commands, `processInteractiveMessage`, `processInteractiveEvents`, `cleanupInteractiveState`, `Stop` | platform goroutines, turns, cron jobs and the shutdown meet in states looked up under one lock and used after it; agents exit, hang, answer late | one turn per Session; an agent session is closed once and never forgotten; decisions reach the agent that asked; every turn ends; nothing starts after `Stop` |
| **Engine: the way of a message** (`core/engine.go`, `command.go`, `skill.go`) | aliases, banned words, disabled commands, custom commands, skills with a cache | `resolveAlias`, `matchBannedWord`, `handleCommand`, `matchPrefix`, `splitMessage` | names by alias, prefix or second name; tables change meanwhile | what is disabled or banned gets no further; pieces of an answer are the answer |
| **Conversations** (`core/engine.go`, listing of the agents) | files of the agents, names, `AgentSessionID` of each Session | `/list`, `/search`, `/switch`, `/name`, `/delete`, `/new` | numbers are places in a list that changes; listing rewrites files of Codex | no file loses a line or comes back |
| **Session manager** (`core/session.go`, `atomicwrite.go`) | sessions, active session per user, counter, JSON file | `GetOrCreateActive`, `NewSession`, `SwitchSession`, `SetSessionName`, `Save`, load | saves under a read lock overlap; not every change is saved; crash; a file that cannot be read | the file never loses a session, ids are not given to two users |
| **Streaming preview** (`core/streaming.go`) | text so far, text last shown, timer, message id | `appendText`, `flushLocked`, `freeze`, `finish` | a timer that fired cannot be stopped; the message is edited or deleted with errors | held text is shown at last; frozen means frozen; `finish` is right about what the chat shows |
| **Intake of the platforms** (`core/dedup.go`, the handlers of eight platforms), **rate limiter** (`core/ratelimit.go`) | table of ids with times; buckets of timestamps | `IsDuplicate`, `IsOldMessage`, allow list, mention, `Allow`, cleanup loop | redelivery around a restart, edges of the windows, checks in another order on each platform | a message passes once, exactly N in any window |
| **Cron** (`core/cron.go`) | `CronStore` with file; `entries` of the library | `AddJob`, `RemoveJob`, `EnableJob`, `DisableJob`, `Start`, `executeJob` | two locks one after the other; `Start()` runs while calls come in; writes and loads fail | one live entry per job; an enabled job is scheduled; an accepted job is in the file |
| **Agents with one process per prompt** (`agent/codex`, `cursor`, `gemini`, `opencode`, `qoder`) | conversation id, event channel, `WaitGroup`, context | `Send`, `readLoop`, `Close` | `Close` gives up after 8 s and closes the channel under a reader; `Start` before `wg.Add`; processes that overlap | a closed session is quiet; a turn hears its own process; a result names its conversation |
| **Claude Code** (`agent/claudecode`) | process, stdin lock, event channel, `done` | `Send`, `RespondPermission`, `readLoop`, `Close` | selects with `ctx.Done` and their early returns; requests taken back | no request is lost; a closed session has ended; `Close` returns |
| **iFlow** (`agent/iflow`) | process, transcript watcher, pending tools, timers | `Send`, `readLoop`, watcher, `Close` | the process does not end by itself; timers, callbacks and results of tools cross; a transcript that cannot be read | one complete report per turn; a turn that waits has a timer |
| **QQ bot** (`platform/qqbot`) | connection, session id, last sequence, heartbeat flag; token, `msg_seq` table | identify, resume, heartbeat, reconnect; `sendMessage`, `apiRequest` | reconnects triggered from three places at once; lost answers; a token refused under way | somebody reconnects; a resume loses no event; no reused reply number |
| **QQ / OneBot** (`platform/qq`) | connection, echo table | `callAPI`, read loop, reconnect | a call waits for an answer only the read loop delivers | the table is the calls that wait; the read loop never blocks on it |
| **Feishu, WeCom, Telegram, Discord, Slack, DingTalk, LINE** | token caches, connections of SDKs | reply, upload | HTTP | outside the intake, see section 8 |
| **Relay** (`core/relay.go`) | bindings; the Session of a relay key | `/bind`, `Send`, `HandleRelay` | objects and the Session read without their lock; relays overlap in one Session | a relay goes on where the last one ended |
| **Configuration** (`config/config.go`, `provider.go`) | `config.toml`; copies in the engines of all projects and their agents | `/provider`, `/commands`, `/alias`, `/reload`, `cc-connect provider` | read-modify-write by several engines and another process | what was saved stays; file and memory agree at rest |
| **Lifecycle** (`cmd/cc-connect/main.go`) | where `main` is, `RestartCh`, the notice file | start, signals, `/restart`, shutdown, exec | platforms listen before the rest is there; a start or the exec may fail | who asked for a restart gets it and is told |
| **Self-update** (`core/updater.go`, `update.go`) | the program's file, its `.old` backup | `/upgrade confirm`, `cc-connect update`, restart | a replacement in three renames that may fail or be killed; two at once | the version a user was told of is there |
| **API server** (`core/api.go`) | socket | cron, relay and send requests | comes up after the engines | with the parts it calls |
| **Command line, daemon, registry, text** | none, or service files | one-shot calls | | see section 8 |

### How they interact

* *Calls*: platforms call `handleMessage` in goroutines of their own, so two messages of one
  chat may be in the engine at once. `ExecuteCronJob` and `/compress` start turns by other
  ways than `handleMessage`.
* *Shared state*: a handler and a turn meet in an `interactiveState`; its fields are read
  under `state.mu`, often through a pointer looked up earlier under `interactiveMu`.
* *Channels*: an agent session has a reader that sends events into a bounded channel. The
  turn receives them; `pending.Resolved` is closed by whoever decides a permission request.
* *Timers*: the idle timer of a turn, the flush timers of the preview, the 8 s of `Close`,
  the ticks of cron.
* *Callbacks*: cron's library calls `executeJob`, timers call the preview and end a turn of
  iFlow.
* *Files*: sessions, cron jobs, the configuration, the transcripts of the agents, the notice
  of a restart and the program itself; some are written by other processes too.

The hazards are listed, at their lines and with the properties that cover them, under
`hazards` in `PROJECT.json`.

## 2. What is modelled where

| Module | Code | Kind |
|---|---|---|
| `Engine` | `core/engine.go`, `AgentSession` of `core/interfaces.go` | detailed specification |
| `AgentService` | what `Engine` promises | abstract specification |
| `EngineProofs` | invariants of `Engine`, and that it implements `AgentService` | proofs |
| `StreamPreview` | `core/streaming.go` | detailed specification |
| `SessionStore` | `core/session.go`, `core/atomicwrite.go` | detailed specification |
| `Inbound` | `core/dedup.go`, `core/ratelimit.go`, the message handlers of all platforms | detailed specification |
| `PromptSession` | the sessions of codex, cursor, gemini, opencode and qoder | detailed specification |
| `ClaudeSession` | `agent/claudecode/session.go` | detailed specification |
| `IFlowSession` | `agent/iflow/session.go` | detailed specification |
| `AgentSession` | what those three promise | abstract specification |
| `CronScheduler` | `core/cron.go`, its callers in `engine.go` and `api.go` | detailed specification |
| `Gateway` | `platform/qqbot/qqbot.go`, the connection | detailed specification |
| `QQBotSender` | `platform/qqbot/qqbot.go`, replies and token | detailed specification |
| `OneBot` | `platform/qq/qq.go` | detailed specification |
| `Relay` | `core/relay.go`, `/bind` and `HandleRelay` of `core/engine.go`, relay requests of `core/api.go` | detailed specification |
| `Dispatch` | `core/engine.go` from `handleMessage` to the turn, `core/command.go`, `core/skill.go` | detailed specification |
| `Conversations` | `/list` ... `/delete` of `core/engine.go`, `agent/codex/list.go`, listings of the agents | detailed specification |
| `Settings` | `config/config.go`, `/provider`, `/commands`, `/alias`, `/reload`, `cmd/cc-connect/provider.go` | detailed specification |
| `Lifecycle` | `cmd/cc-connect/main.go`, `restart_unix.go`, `/restart` | detailed specification |
| `Upgrade` | `core/updater.go`, `cmd/cc-connect/update.go`, the restart into the new file | detailed specification |
| `AgentProofs` | `PromptSession`, `ClaudeSession`, and that they implement `AgentSession` | proofs |
| `ServicesProofs` | `StreamPreview`, `SessionStore`, `Inbound`, and the union `MCServices` | proofs |
| `QQProofs` | `OneBot`, `QQBotSender`, `Gateway` | proofs |
| `CommandProofs` | `Conversations`, `Dispatch`, `Settings` | proofs |
| `ProcessProofs` | `Lifecycle`, `Upgrade`, `IFlowSession`, and that it implements `AgentSession` | proofs |
| `EdgesProofs` | `CronScheduler`, `Relay`, and the union `MCEdges` | proofs |
| `SeqFilter` | the loop that keeps some items of a slice, in `/provider remove`, the limiter and the lists of conversations | operator |
| `SeqItems` | items of sequences, induction on sequences, and what that loop computes | lemmas |
| `MCEngine`, `MCServices`, `MCEdges` | symmetry, and the two unions of parts; they extend the modules and add the variable `part` | instances |

### Engine

The actors are the goroutines. A step is what one does between two points where another can
interfere: a critical section of `interactiveMu` or of `state.mu`, a call into the agent, a
wait on a channel.

| State | Code |
|---|---|
| `active`, `made`, `busy`, `convOf` | `SessionManager.activeSession`, the `Session`s, `Session.busy`, `Session.AgentSessionID` |
| `interactiveMu` | the turn that holds the lock while `StartSession` runs; other critical sections are single steps |
| `stateOf`, `agentOf`, `pending`, `approveAll`, `quiet` | `interactiveStates` and the fields of `interactiveState` |
| `handler[h]`, `turn[t]` | where a goroutine stands and the locals it carries on: the key, the state it looked up, the request it read. A stale local is thereby a possibility, never assumed away |
| `proc`, `conv`, `work`, `asking`, `chan` | the agent process, the conversation it works on, its progress, the request it waits for, its event channel |
| `engine` | `Stop`: context cancelled, then the map emptied |

| Actions | Code |
|---|---|
| `ReceiveMessage`, `ReadPending`, `RespondToAgent`, `ClearPending`, `LockSession` | `handleMessage` and `handlePendingPermission`: look the state up, read `pending`, answer the agent outside the lock, clear `pending`, or else `TryLock` and start a turn |
| `CommandCleanup`, `FinishNew`, `FinishSwitch`, `FinishModel` | `/new`, `/switch`, `/model`; `/mode` and `/provider` end with the cleanup |
| `ReceiveStop`, `StopResolve`, `StopCleanup`, `FinishStop`; `ReceiveQuiet`, `ToggleQuiet`; `ReceiveCompress`; `ExecuteCronJob` | `/stop`, `/quiet`, `/compress`, cron |
| `BeginTurn`, `ReuseState`, `EnterCreate`, `SkipCreate`, `StartSession`, `StartSessionFails`, `SendPrompt`, `FindsAgentDead`, `SendFails`, `RestartAgent` | `processInteractiveMessage` and `getOrCreateInteractiveState` |
| `TextEvent`, `AutoApprove`, `PromptUser`, `SetPending`, `PermissionResolved`, `ResultEvent`, `ErrorEvent`, `ChannelClosed`, `IdleTimeout`, `ContextDone` | `processInteractiveEvents`, one action for each way out of its `select` |
| `AgentText`, `AgentAsk`, `AgentFinish`, `AgentExit`, `AgentCloseEvents` | the process and its reader: may fail, hang or exit at any time |
| `CancelContext`, `StopStates` | `Engine.Stop` |

A message is reduced to its kind. `answer` is allow or deny: which of the two changes nothing
in the engine. A conversation is named after the agent session that opened it, so resumption
is visible in `conv`.

`AgentService` has three variables: who works on a Session, the life of each agent session,
and whether the service is down. `ImplementsService` maps `Engine` to it. Handlers, maps,
permissions and events disappear: what remains is that turns take Sessions in turn, that an
agent session goes from none to open to closed, and that nothing is opened after the end.

### Stores, preview, intake, cron

* `StreamPreview`. Every function runs under `sp.mu`, platform calls included, so each is one
  step. A timer is `armed` until due, then `fired`: its callback waits for the lock as a
  goroutine that `Timer.Stop` no longer reaches. Text is counted in chunks; an edit that
  fails may or may not have reached the chat (`AfterError`).
* `SessionStore`. Changes under the write lock are one step with the write of the file, which
  may fail. `Save()` runs under the read lock and copies one Session after another
  (`BeginSave`, `CopySession`, `WriteSnapshot`) while turns change them. `Crash` loads the
  file, or nothing: a file that cannot be read or parsed is only logged, and the next save
  replaces it (`unread` remembers that).
* `Inbound`. One action for each kind of message of each platform (`FeishuMessage`,
  `TelegramButton`, ...): its checks in the order of its code, with the table of ids where it
  has one. A platform delivers a message at any time and again; `DownloadFails` is an
  attachment that cannot be fetched after the id was remembered; `Allow` is the limiter;
  `Restart` forgets the tables.
* `CronScheduler`. Each call, from a chat or from the API, is split between the store's lock
  and the entries' lock, and so is `Start()`. `FireEntry` comes at any time. `Die` is a crash
  with a new start, which loads the jobs or, when the file cannot be read or parsed, none
  (`LoadJobs`; `lost` is what such loads did not bring back).

### Agents

* `PromptSession`. The five adapters have the same `Send`, `readLoop` and `Close`; they differ
  in the lines of output they understand (`CodexLines` ... `QoderLines`) and in when a process
  may still be writing. The adapter is chosen in `Init`. The map spreads the shared
  definitions over the five files. `Close` has two ends: after the wait (`CloseAfterWait`) and
  after 8 s (`CloseAfterTimeout`); a send on the closed channel is a panic (`SendPanics`).
* `ClaudeSession`. The process asks for permissions, takes a request back, fails or exits at
  any time; its output is a pipe of lines. `readLoop` sends each event in a select with
  `ctx.Done` (`Deliver`, `Drop`), in which Go takes any branch that is ready, so both are
  possible after a cancellation. The last of these selects returns without closing anything;
  that is the whole of the `claude_close` run. `closed` stands for `cs.events` and `cs.done`,
  which are closed one right after the other.
* `IFlowSession`. The goroutines of a turn: `Send`, the transcript watcher (`FindTranscript`,
  `ReadLine`, `EmitLine`, `EndOfLines`, `Poll`, and `PollFails`, which ends a poll that cannot
  open or read the transcript; `missed` says that the last poll of a turn was one), the reader (`WaitProcess`, `Join`, `Report`,
  `Silent`) and timer callbacks. A timer is in `timer` while its handle is known and it runs;
  a callback that has fired, or whose handle was overwritten, is counted in `late`. The
  transcript of another chat of the project (`OtherWrites`) lies in the same directory. The
  empty strings of `sessionID` and `transcriptPath` are `"unknown"`.

`AgentSession` is what the three have in common, in six variables: the workers (a process with
the goroutines that read it), whether the session was stopped, the events in the channel,
whether it is open, whether `Close` has returned, and whether a send on the closed channel
ended the program. Workers start only before the stop, only they put events into the channel,
and only while it is open; a worker that `Close` left behind may panic. With `Patient`, `Close`
leaves none. The modules map to it by `PromptContract`, `ClaudeContract` and `IFlowContract`:

| `AgentSession` | `PromptSession` | `ClaudeSession` | `IFlowSession` |
|---|---|---|---|
| `working` | the prompts whose process runs, whose readLoop is counted, or whose `Send` is between the two | the process with `readLoop` | the turn, from the start of its process to the end of `readLoop` |
| `stopped` | context done | context done | context done |
| `waiting` | length of the channel | length of the channel | number of events in it |
| `open`, `returned` | `Close` closes the channel and returns | `readLoop` closes it, `Close` returns after that | `Close` closes the channel and returns |
| `panicked` | `SendPanics` | never | `crash` |
| `Patient` | no: 8 s | yes | no: 8 s |

`Engine` does not build on the agent modules: its `Agent` is what all of them may do, with
a channel that may never be closed.

### Platforms and relay

* `Gateway`. A read loop for each connection that came up, heartbeat loops (which are not tied
  to a connection and are therefore counted), and the reconnect loop. The server numbers the
  events of a session and sends the missing ones again after a resume. `Break` loses a
  connection at any time, `Stop` comes at any time.
* `QQBotSender`. `sendMessage` is cut at what other goroutines may see: the number drawn under
  `msgSeqMu`, the read of the token, the refresh (`RefreshToken`, `StoreToken`: tokens may be
  stored in another order than issued), the request, whose answer may be lost, and the second
  try after a 401.
* `OneBot`. One WebSocket for calls and events. `echoCh` is the table of the calls that wait.
  The handler of a message runs on the read loop, so a reply made there (`reader = "reply"`)
  waits for an answer that nobody reads, until its timeout.
* `Relay`. A binding is an object behind a pointer: `binding` is what the table holds, `bots`
  the content of each object. A read without the lock while `writing` may end the process
  (`fatal`). `HandleRelay` is `StartRelay`, `RelayResult`, `RelayEnds`, and twice a look at
  `AgentSessionID` with the store that follows as a step of its own: `LooksAfterStart`,
  `StoresCurrent` (of a name that may still be empty), `RelayText`, `StoresText`. What another
  relay stored in between is overwritten (`overwritten`).

### Commands, settings, process

* `Dispatch`. `handleMessage` step by step (`ResolveAlias`, `Filter`, `HandleCommand`,
  `ResolveCommand`, `ResolveSkill`, `AnswerPermission`, `StartTurn`), each reading the tables
  as they are by then; commands of other chats change them in between, and `/reload` replaces one after the other:
  commands (`ClearCommands`, then each of the file by `ReloadCommand`), aliases (`ClearAliases`,
  `ReloadAlias`), banned words, disabled commands. `standing` is what was banned and disabled
  all the while since the message came. `SplitMessage` is one
  round of the loop of `splitMessage`, on texts as sequences of letters and newlines: `rest` is
  what is not cut yet. `SendChunk` sends the pieces when the loop is over.
* `Conversations`. A file is the number of its lines and whether its first line says `exec`.
  A command asks for its list once and acts on it later. The patch of Codex is a read
  (`ReadPatch`) and a write (`WritePatch`) of the whole file.
* `Settings`. `config.toml`, the copies of its commands and aliases in the engines of all
  projects (`Proj`), the providers of one of them (`Home`), and the two writers of the
  file: commands of any engine under `configMu` (`ReadFile`, `WriteFile`) and the other process without it
  (`CliReads`, `CliWrites`). A save may fail. `Reload` replaces the memory of
  the engine it was sent to in the steps of the code.
* `Lifecycle`. `phase` is the line `main` has come to; engines start and stop one after the
  other. Starts fail, a process crashes, the exec fails. The notice file outlives all of them.
* `Upgrade`. A path is the number of `.old` suffixes. Each rename, removal and copy is a step
  after which the process may be killed (`Killed`, `UpdateKilled`). `bot.path` is what
  `os.Executable()` gives: it follows the running file when that is renamed.

Definitions that the mutants use (`TryStartTurnUnchecked`, `CallbackAnyway`, ...) stand next to
the definition they change and say so. The specifications do not use them.

## 3. What the runs check

Passing runs:

| Run | Instance | Shows |
|---|---|---|
| `engine_full` | one chat, every command, two handlers, two turns, two agent sessions | `TypeOK`; `OneTurnPerSession`; `ClosedAtMostOnce`; `AnswersReachAsker` |
| `engine_service` | messages, `/new`, `/stop` and cron against the shutdown | `ImplementsService`: the refinement, by which no agent session starts after `Stop`; `NoForgottenAgent` |
| `engine_serial` | one handler, so the messages of a chat one after the other, two permission requests | what holds only then: `WaitingIsAnswerable`, `OneDecision`, `TurnClosesOwnAgent`; and `AutoApprovalIsEarned` |
| `engine_live` | messages, answers, `/compress`, cron, two requests, fairness | `TurnsEnd`: every turn ends |
| `services` | the disjoint union of the preview, the session file, the intake of messages and two kinds of agent sessions | below |
| `edges` | the disjoint union of eleven parts around the engine | below |

`services` and `edges` choose one part at the start; the others stand still. In the program
the parts share no state either: what passes between them is a call at one point, and the
caller appears in the part as an input that may come at any time. So the union loses nothing,
and its state space is the sum of the parts.

Properties of `services`:

| Part | Property | Says |
|---|---|---|
| preview | `NoWriteAfterFreeze` | a frozen or degraded preview is not written again, whatever timers have fired |
| | `HeldTextHasTimer` | text held back by interval or size has a timer that will show it |
| | `AnswerInPlaceIsShown` | when `finish` says the chat shows the answer, it does |
| store | `OwnSessionIsActive` | a user's active session is the user's own, also after a crash and reuse of ids |
| | `SavedVersionsStay` | the file keeps every session, and goes back to an older binding only when saves overlap (under the read lock they may; that is one exception, the save after a failed load the other) |
| inbound | `LimiterIsExact` | rejection means that the window is full, admission that it is not, with the cleanup loop running |
| | `NoRepeat` | an old message does not pass, nor an aside of a group; a message passes twice only after the TTL, around a restart within the grace period, or on a platform without a table |
| prompt | `ClosedIsQuiet` | when `Close` has returned after its full wait, no process and no reader is left, and nothing panics unless `Close` gave up or crossed a `Send` |
| | `ResultNamesConversation` | a result carries the conversation of its own process |
| | `HearsOwnProcess` | the channel outlives a prompt, but a turn takes text and results of its own process only |
| claude | `AskedIsHeard` | the process never waits for a decision nobody was asked for: its request is on the way, or known to the engine |
| prompt, claude | `AgentsKeepContract` | both implement `AgentSession`: nothing starts on a stopped session, every event comes from a worker, only one that `Close` left behind sends on the closed channel; a Claude session leaves none behind |

Properties of `edges`:

| Part | Property | Says |
|---|---|---|
| cron | `JobsFireOnce` | a tick runs each accepted and enabled job, and runs it once, also after crashes and calls that cross, unless a start could not load the file (`OneEntryPerJob`, `EnabledIsScheduled`, `AcceptedIsSaved`) |
| gateway | `SomeoneWatches` | some loop is left to notice a broken connection, until `Stop` or until the attempts are used up |
| | `ResumeLosesNothing` | `lastSeq` does not run ahead of the events that were taken, and belongs to the session of `sessionID` |
| sender | `NumbersAreFresh` | no two accepted replies to an event have one number, through lost answers, second tries and refreshes, until the TTL |
| onebot | `EchoTableIsExact` | the table is the calls that wait, so the read loop never blocks on a caller that left |
| relay | `ResumesLastAnswer` | a relay goes on in the conversation that its target's last answer named, unless a relay that saw none stored over it |
| iflow | `PendingHasTimer` | a turn that waits for a tool has a timer or a callback on its way |
| | `ReportIsComplete` | a turn of an open session ends with one report, after every line of its transcript, unless the last poll failed |
| settings | `SavedStays` | a write takes nothing out of the file but what its command removes |
| | `RestIsSaved` | at rest an engine agrees with the file, unless its commands crossed others or failed to save, or another engine saved a command or alias since it loaded |
| conversations | `FilesAreKept` | a file loses no line and does not come back once removed |
| dispatch | `FiltersHold` | whatever is reloaded meanwhile, what was disabled all the while does not run and what was banned all the while starts no turn; an answer to a permission is no prompt |
| | `AnswerIsWhole` | pieces of an answer fit, are not empty, and are the answer |
| lifecycle | `RestartIsKept` | who was told "restarting" is restarted for and told afterwards, and no other chat |
| upgrade | `UpgradeIsKept` | the version a user was told is installed is in some file, whatever failed or was killed since |

Some of these have exceptions in their statement, and the exceptions are real behaviours of
the code:

* overlapping `Save()` calls (`core/session.go:203`);
* a file that could not be loaded: `SavedVersionsStay` excepts the first save after it, which
  drops what the file held (`core/session.go:249`), and `JobsFireOnce` the jobs that a start
  did not bring back (`core/cron.go:51`); what else they say holds across failed loads;
* `ResumesLastAnswer` excepts a session that a relay set from a look which was stale by then
  (`core/engine.go:3650`, `:3669`), until the next result names a conversation;
* `ReportIsComplete` excepts a turn whose last poll could not read the transcript
  (`agent/iflow/session.go:280`), and one that followed the transcript of another chat;
* a `Close` that gives up (`agent/codex/session.go:308`) or falls between `Start` and `wg.Add`
  (`agent/codex/session.go:114`): the reader then sends on a closed channel;
* `HearsOwnProcess` excepts opencode, which reports a result for each step
  (`agent/opencode/session.go:280`), gemini, which goes on after an error line
  (`agent/gemini/session.go:314`), and late errors: a process of any adapter that fails after
  its result ends the turn of a later prompt by its error, and what that prompt still has to
  say goes to the turn after it (`overtaken`). The proof attempt found this; it takes three
  prompts, which the run has since;
* `ResultNamesConversation` excepts two prompts that opened a conversation each;
* `EnabledIsScheduled` excepts jobs of which two calls crossed (`core/cron.go:249`);
* `SavedStays` and `RestIsSaved` except writers that read the file before `cc-connect
  provider` wrote it, and commands that crossed between memory and file; `RestIsSaved` as well
  an engine beside one that saved a command or alias, which learns of it at its next `/reload`
  or restart (`cmd/cc-connect/main.go:197`);
* `FilesAreKept` excepts a file of Codex that was written to or removed while a listing
  copied it (`agent/codex/list.go:270`);
* `NumbersAreFresh` ends when the first reply is older than `msgSeqTTL`: then the entry is
  evicted and the numbers begin again (`platform/qqbot/qqbot.go:821`);
* `UpgradeIsKept` excepts two replacements under way at once: each removes the `.old` file of
  the other, which may be the only copy (`core/updater.go:275`). It excepts as well an upgrade
  that looked up its release before a newer one was installed: it installs the older one, and
  the next upgrade takes that for the backup. The proof attempt found this; it takes four
  versions, which the run has since;
* `FiltersHold` excepts text that begins with `/` and is no command: the banned words are not
  searched in it, and then it becomes a message (`core/engine.go:580`). What a reload bans or
  disables once the message has come may miss it (`cmd/cc-connect/main.go:746`).

`ServicesTypeOK` and `EdgesTypeOK` say that the part of the behaviour has the types its module
states (`PreviewTypeOK`, `StoreTypeOK`, ...).

The six other runs each find one statement violated; see section 6.

Every property of a passing run has a mutant in `PROJECT.json`, a change of one definition
that a plausible slip in the code would make (no look at the busy flag, an entry that is
not deleted, a timer handle kept, a counter not loaded), under which TLC finds it violated.

## 4. Bounds

* `Key = {k1}`: chats meet only in `interactiveMu` and in the shutdown; everything else of
  `Engine` is by key, and what goes wrong goes wrong within one. The theorems hold for any
  set of keys.
* Two Sessions are the least with which `/new` matters. Two turns and two handlers are the
  least for every race listed, three states and two agents allow a replacement of the entry
  while somebody holds the old one.
* `MaxArrivals` bounds the inputs of a run: 2 in the wide runs, where all pairs of inputs are
  covered in all interleavings, 3 in the deep one.
* `MaxBuffer = 1`: an event may be buffered while a command runs, and the agent may find the
  channel full. The code has 64; a larger one only delays the case.
* `engine_live` has four states, so that no turn is stuck for want of one.
* `services`: a limiter of one message in a window of 2 and a clock to 5 see a full window,
  its edge, a rejection and the cleanup (which removes a bucket after two windows, rounded to
  the model's ticks); a TTL of 1 and a restart see a repetition (`EarlyRestarts`: not so late that
  the TTL and a window would not pass any more). Four chunks with a limit of 3
  see the ellipsis. Two sessions, two users and two savers see overlapping saves and reuse of
  an id. Two prompts see processes that overlap; codex alone, and while nobody
  closes the session, sends a third (`FewPrompts`), which sees a turn after one that a late
  error ended: the adapters differ in their lines, and not in what a third prompt meets. Two
  permission requests and a channel of one event see a request behind another, taken back or
  blocked by a full channel.
* `edges`: two jobs, two callers and three calls see every crossing of two calls with
  `Start()` and one more after it. Three connections see a resume of a resumed session; what the
  gateway sends of its own accord comes before the last of them (`FewNotices`); one failed
  attempt stands for the thirty of the code. Three calls, two messages and a break see
  a late answer meet a newer call. One binding, two requests and two conversations see relays
  that overlap. Three lines, two tools and one late callback in two turns of iFlow see a
  callback of the first turn in the second. A poll after the end of the
  first process may fail, and the session may be closed in the second turn, when one line at
  most is written (`FewLines`). Two handlers, two providers, two
  projects, two commands and a call of the other process see every crossing of two writers,
  and an engine beside one that saves. Two chats that share
  one conversation, or one chat with two (`FewConversations`), three commands and two lines in
  a file see a listing, a deletion and a turn cross; an answer of four letters in pieces of
  two sees a cut at a line and one inside of it. One change of the tables, which may be a whole
  reload of any configuration of at most one command or one alias, sees each table change at
  each point of a message (`FewReloaded`: an answer goes out while the tables are empty, which
  it has no state in common with, and a message that meets a reload has no image and answers
  no permission); two projects on one or two platforms and
  three processes see a restart out of a restart. Four versions and two `.old` suffixes see an
  upgrade begun before the restart of another and one of an older release; a behaviour ends
  where replacements have crossed, which the property excepts (`NoneCrossed`); two senders
  with three messages, a TTL of one tick and two tokens see eviction and a refused token.

Symmetry is declared over model values that no definition tells apart, and in safety runs only.
`Fresh` picks one unused state or agent, which stands for the allocation of an object.
Deadlock is not checked: with a bound on inputs every behaviour ends, and the program itself
may come to rest with nothing to do.

## 5. Fairness

`FairSpec` is used by `engine_live` and `stop_stuck`.

* Weak fairness of each handler and of each turn: a goroutine that can go on does, as the Go
  scheduler ensures. It covers the idle timer, which is a step of the turn; the default is two
  hours (`config.example.toml:48-51`), and `idle_timeout_mins = 0`, which turns it off, is
  outside `TurnsEnd`.
* Nothing is assumed of the agents. A process may hang, its reader may never close the
  channel. `TurnsEnd` therefore rests on the timer and not on the good will of a process.
* A user who is asked keeps answering (`UserAnswers`). This is an assumption about people; it
  is needed because a turn that waits for a permission looks at nothing else
  (`core/engine.go:1081`).
* No fairness of arrivals, cron or the shutdown.

`TurnsEnd` is checked for inputs without `/stop`, `/new` and the others that take the state
away from under a waiting turn: with those it is false, as `stop_stuck` shows.

## 6. Disagreements found

| Run | Property | What happens |
|---|---|---|
| `stop_stuck` | `StopFreesSession` | A permission prompt is sent to the chat before it is recorded in the state. `/stop` in between finds nothing to cancel, the turn waits for an answer nobody can give, the chat stays busy |
| `new_mixes` | `FreshConversation` | States are kept by chat, Sessions by id. A turn still running when `/new` is handled and the turn of the new Session come to share one agent session, and two Sessions get one conversation |
| `lost_permission` | `WaitingIsAnswerable` | Of two answers at once, the second clears the *next* request, which then nobody can answer. Needs two handlers; with one, `engine_serial` shows that it cannot happen |
| `claude_close` | `CloseIsAnswered` | A Claude process that fails with text on stderr is reported in a select whose `ctx.Done` branch returns before `done` is closed. `Close`, which has cancelled that context, then waits for ever, and `Engine.Stop` with it |
| `iflow_mix` | `OwnTranscript` | A session of iFlow without a conversation id follows the newest transcript of the project directory. With another chat of the project under way that is the other chat's: its answer is shown, and the conversation goes on there |
| `provider_removed` | `RemovalKeepsActive` | `/provider remove` of another provider may change the active one, and removing the active one makes its successor active instead of clearing it: the agent keeps an index into a list that got shorter |

The lines of code and the sentences of the docs they contradict are under `findings` in
`PROJECT.json`.

Seen while modelling, without a run of their own:

* *Turns*. A result that was buffered before `/switch` or `/model` puts the old conversation
  back into the Session (`core/engine.go:1087`). A preview timer that had fired before
  `finish` edits over the finished answer (`core/streaming.go:135`, `:235`).
* *Files that cannot be read*. A session file or jobs file that cannot be read or parsed counts
  as empty (`core/session.go:249`, `core/cron.go:51`); the next write replaces it, so that all
  sessions or jobs are gone.
* *Intake*. Telegram, Discord, Slack and LINE keep no table of ids, so a message they deliver
  again within the age limit is handled again. Buttons and slash commands have no age check; a
  late "allow" becomes a prompt. Without its `open_id` feishu answers everything in a group.
  A failed download loses the message although its id is remembered.
* *Dispatch*. Banned words are not searched in text that begins with `/`. A custom command
  whose name begins a built-in one is accepted and never runs. `disabled_commands` cannot name
  custom commands, and an ambiguous beginning disables nothing. The cache of skills is never
  invalidated once it holds one. `/reload` empties commands and aliases before it fills them
  again, so that a message may find none of them, and sets the map of disabled commands
  without a lock (`core/engine.go:334`).
* *Conversations*. The numbers of `/delete` and `/switch` are places in a list made anew.
  Listing the conversations of Codex changes the times of the files, may lose a line that is
  written meanwhile, and may bring back a file that is deleted meanwhile.
* *Settings*. The commands of `/commands add` are called global (`CHANGELOG.md:114`) and are
  saved for all projects, but only the engine of the chat has them: the others do not know
  them until they are told to `/reload`. The same with aliases. `/provider add` of a name that
  exists makes a second entry in memory. The file may name an active provider that it no longer
  has. A name of a command in mixed case cannot be taken out of the file. Any chat may remove
  any cron job by its id.
* *Gateway*. Two read loops may live on one connection; `Stop` during a reconnect leaves the
  new connection open; after 30 attempts nobody tries any more.
* *QQ*. A reply made on the read loop (a command, "busy") always waits out its 15 s, although
  it was sent. Start asks for the bot's own id before the read loop runs and therefore never
  learns it (`platform/qq/qq.go:72`). The replies of the QQ bot whose answer was lost are
  reported as errors although they arrived; tokens may be stored in any order.
* *Relay*. A relay that found the session without a conversation stores its own, or `""`, over
  one that a result has stored meanwhile, and the next relay goes on there. `Send` and `/bind` read a map while it is written, which ends the process; `/bind`
  uses a binding that may be gone. A relay to an agent that closes its channel only in `Close`
  hangs after its timeout. Chats that come before `SetRelayManager` are told there is no relay.
* *iFlow*. A turn without text after the result of a tool never ends. A prompt right after a
  result may be told that the session is busy. When the last poll cannot read the transcript,
  the answer is reported without its end.
* *Process*. A `/restart` during the shutdown is answered and dropped. The notice goes out by
  every engine that has the platform. A notice left by a start that failed is announced by
  the next one.
* *Upgrade*. A second `/upgrade` before the restart works on the `.old` name, since
  `os.Executable()` follows the rename. Two replacements that cross remove the only copy. A
  restart ends the upgrades of other chats midway. The two comparisons of versions
  (`core/updater.go` and `cmd/cc-connect/update.go`) treat pre-releases differently.

## 7. What is proved

`EngineProofs` proves, for every set of keys, Sessions, handlers, turns, states, agents and
requests, every bound on arrivals and every capacity of the channels:

| Theorem | Statement |
|---|---|
| `Invariance` | `Spec => []IInv` |
| `TypeCorrect` | `Spec => []TypeOK` |
| `OneTurn` | `Spec => []OneTurnPerSession` |
| `AtMostOneClose` | `Spec => []ClosedAtMostOnce` |
| `AnswersAreForAsker` | `Spec => []AnswersReachAsker` |
| `AutoApprovalEarned` | `Spec => []AutoApprovalIsEarned` |
| `ClosesOwn` | `"new" \notin Input => (Spec => TurnClosesOwnAgent)` |
| `Answerable` | `OneHandler`, `"new" \notin Input`: `Spec => []WaitingIsAnswerable` |
| `DecidedOnce` | `OneHandler`, `"new" \notin Input`: `Spec => []OneDecision` |
| `Refinement` | `Spec => ImplementsService` |
| `StartsUnderLock` | `Spec => []LockOK` |
| `NoneForgotten` | `"quiet" \notin Input => (Spec => []NoForgottenAgent)` |

Assumptions: `InputAssumption` (inputs are among the known kinds), `BoundAssumption` (the
bounds are numbers, a channel holds at least one event), `NilAssumption` (nil is no object).

None of the properties is inductive alone. `IInv` is their strengthening:

* `TypeOK`, `HandlersOK`, `TurnsOK`: a goroutine at a program point has the locals that point
  needs, and they exist.
* `MapOK`: an entry of the map is an allocated state.
* `ClosesOK`: no state is the entry of two keys, no agent session belongs to two states, and
  one that has an entry has not been closed. `ClosedAtMostOnce` depends on it: whoever closes
  an agent session takes its only entry out of the map in the same critical section.
* `PendingOK`, `EventsOK`: a request in a channel, in `pending` or in a local of a turn comes
  from the agent of that state. It gives `AnswersReachAsker`, since a handler that still
  holds a replaced state holds its agent too.
* `ApprovalOK`, `AutoApprovalIsEarned`: `approveAll` of a state implies that the user consented
  to that state's agent. It depends on states being replaced, never rebound.
* `OneTurnPerSession` itself.

The proof has one lemma per action or group of alike actions (`HandlerStepKeeps`,
`SendPromptKeeps`, `EventKeeps`, `UnlockKeeps`, `AgentStepKeeps`, ...), each with one step per
conjunct the action can disturb. Conjuncts an action leaves alone follow from lemmas that
say which variables each depends on (`SessionsKept`, `StatesKept`, `PendingKept`, `EventsKept`,
...). `NextIInv` joins them over the disjuncts of `Next`.

Two strengthenings go with `IInv` where `/new` is not among the inputs:

* `Owned`: a key keeps its Session, so a turn holds its key as well as its Session, and a state
  has one turn. With it `OwnEntry`: while a turn has a state, the entry of its key is that state
  or has no agent. This gives `ClosesOwn` for any number of handlers.
* `PermissionsOK`, with one handler: a request is in the channels once, and nobody knows it
  before it leaves them (`QueueOK`); `state.pending` is what a turn waits for, and the other way
  round (`WaitOK`); a request was decided only if a handler is about to clear it or it is
  resolved (`DecisionOK`). With a second handler `WaitOK` breaks, as `lost_permission` shows,
  and with `/new` two turns share a state, as `new_mixes` shows.

`LockOK` is what `IInv` lacks for the refinement: a turn in `starting` holds
`interactiveMu`, the entry of its key still needs an agent session, and the engine is not
stopped. So `StartSession` opens an agent session that nobody else has opened, before the
shutdown. Each action then is `Acquire`, `Release`, `Open`, `Close`, `Shutdown` or a stutter of
`AgentService`; the lemmas about `Steady` and `Silent` steps say it once for the many actions
that are stutters. Without `/quiet` no state is stored over one with a live agent session, so
that none is forgotten; `ToggleQuiet` does just that, which is one of the hazards.

The proofs about the other parts. The last column is what makes the property inductive:

| Module | Theorems | From |
|---|---|---|
| `ServicesProofs` | `HeldTextIsShown`, `AnswerShown`, `FrozenStays` | the handle of a timer is a timer that has not run; until the turn ends the message shows `lastSentText` |
| | `OwnSession`, `SavedStay` | sessions are numbered up to the counter; the file is behind memory in sessions and bindings; a copy taken in `Save()` has the maps of the manager, since the write lock waits for it; and a save nobody overlapped is no older than the file; after a load that failed this begins again with the first save (`unread`) |
| | `PassesOnce` | what passed within the TTL is in the table with the time it passed, or is from before the start |
| | `PreviewTypeCorrect`, `InboundTypeCorrect` | a bucket grows only where the limiter looks at its length, and the cleanup loop only takes timestamps away |
| | `ExactWindow` | the timestamps kept and the messages let through agree in the window that ends now (`LimiterOK`): what the loop dropped, or the cleanup lost with the bucket, has left the window, and a message that was rejected was not added |
| `AgentProofs` | `PromptTypeCorrect`, `CloseIsQuiet` | a process that runs is waited for by a readLoop the WaitGroup counts, or belongs to a Send before `wg.Add`; nobody starts one once the context is done; and only a counted readLoop has an event in hand |
| | `ResultsNameTheirs` | as long as one prompt at most opened a conversation, there is one name that everybody means (`NamesInv`) |
| | `OwnProcessHeard` | after a result or an error a process has nothing to say but that it failed, and while no late error has ended a turn, nothing is left of the prompts before (`TurnOK`) |
| | `ClaudeTypeCorrect`, `EveryAskIsHeard`, `ClaudeCloseIsClean` | a request is a line of the output, in the hand of `readLoop`, in the channel, or known: only a loop that is over or whose context is done loses one (`LoopOK`, `AskOK`) |
| | `PromptIsAgentSession`, `ClaudeIsAgentSession`; `AgentsAreSessions` in `ServicesProofs` | below |
| `EdgesProofs` | `CronInvariance`, `JobsFire` | each live entry is its job's, and the other way round; a call between its two locks keeps its job "under way"; a job that is being added is in memory and file, unless a start could not load it (`lost`) |
| | `RelayTypeCorrect`, `LastAnswerResumed` | once a target has answered, its session is bound to the conversation of the last answer or was overwritten: a store over a conversation comes only from a look that was stale by then |
| `QQProofs` | `OneBotTypeCorrect`, `EchoTableExact` | numbers above `echoSeq` belong to no call; the call of `Start` comes before anything else runs |
| | `SenderTypeCorrect` | the number of an event's entry is at most the number of messages sent (`SenderBounds`) |
| | `FreshNumbers` | a number is drawn once for an event while its entry of the table lives, which is as long as the TTL |
| | `SomeoneAlwaysWatches` | the reconnect loop runs exactly while `reconnecting` is set, and a read loop has a connection unless it is gone (`ReconOK`) |
| | `NoEventIsLost` | one connection is up at a time and a closed one has no frames (`LinksOK`); before every event of a connection come all those before it that nobody took, and up to the server's number they are all there (`QueuesOK`) |
| | `GatewayTypeCorrect` | a heartbeat loop is not tied to its connection, but each had one of its own: there are no more of them than connections that were opened (`BeatsOK`); who handles has an event in hand (`HandOK`) |
| `CommandProofs` | `ConversationTypeCorrect`, `NoFileLosesLines` | a copy that nobody wrote past is no shorter than the file, no copy is longer than such a one, and while the file says `exec`, so that it can be copied, none is longer than the file (`CopyOK`) |
| | `FiltersAlwaysHold` | what is past the filter begins with a slash or has no word that was banned all the while, since a reload only takes from `standing` what its list does not have; a permission is asked for only in a turn that holds the Session |
| | `DispatchTypeCorrect` | what a message may be at each point of its way, whatever the commands of other chats make of aliases and registries (`WayOK`); the pieces and what is left are texts no longer than the answer (`PiecesOK`) |
| | `EveryAnswerIsWhole` | the pieces sent, those not sent and what is not cut are the answer; a cut is inside of what is left |
| | `SettingsTypeCorrect`, `SavedEntriesStay`, `RestIsAlwaysSaved` | who writes holds `configMu` and has read the file as it is, unless it was written past (`LockHeld`, `ReadsCurrent`); of an engine whose commands were alone since its last load, and beside which nobody saved a word, memory and file are as far apart as its command under way has got (`AloneProgresses`) |
| `ProcessProofs` | `LifecycleTypeCorrect`, `RestartIsAlwaysKept` | where `main` stands tells where the chat is: in the file, in `notify`, or told (`NotifyOK`) |
| | `UpgradeTypeCorrect`, `UpgradeIsAlwaysKept` | the first whole file is as new as promised, since a replacement begins by renaming it away (`FirstIsKept`, `UpgradeOK`, `UpdateOK`) |
| | `IFlowTypeCorrect`, `PendingIsTimed`, `EveryReportIsComplete` | a turn has one goroutine after the other (`TurnOK`); a session without a conversation has read no line, so that its transcript is still among the changed ones when the watcher looks for the last time (`UnnamedOK`, `LastLook`); a poll that fails then sets `missed`, and only finding its own transcript clears it |
| | `IFlowIsAgentSession` | below |
| `ServicesProofs`, `EdgesProofs` | `ServicesTypeCorrect`, `EdgesTypeCorrect` | a step of a union is one of its part, and the parts that stand still keep their invariants |

The three refinements of `AgentSession` take the invariants above and say of each step which of
the abstract ones it is. What they add:

* A worker is more than a readLoop. In `PromptSession` a process whose `Send` is between `Start`
  and `wg.Add` is a worker already, although the WaitGroup does not count it; otherwise a start
  would be no step of its own and such a process could outlive its worker. So a `Close` that has
  waited may leave a worker behind, and `Patient` is false for these agents.
* `ReaderWorks`, `ClaudeReaderWorks`, `EmitWorks`: whoever has an event in hand is a worker, so an
  event that arrives comes from one, and a send on the closed channel comes from one that `Close`
  has left behind.
* In `ClaudeSession` nothing is closed but by `readLoop` at its end, and by then the process is
  gone: the step that closes the channel is the one that ends the worker, and `Close`, which
  waits for it, finds none (`CloseCancels` says that it has stopped the session first).
* In `IFlowSession` a turn begins only when the one before is over (`turnActive`), with process,
  readLoop and watcher (`TurnOK`), so the worker can be named after the turn (`TurnNumbered`) and
  a start never meets one.

They hold for any number of users, jobs, callers, timers, senders, chats and so on. Assumed is
only what the ASSUME of each module says, which the proofs cite by name: that the bounds are
numbers (the limit of the platform, the number of tokens, `MaxCall` of OneBot and the bounds of
`Gateway` and `Upgrade` not 0), and that the names for nothing (`None`, `Nobody`, `Never`, `Cut`)
name no object and no number. `MaxMessages` is
not 0 either: with 0 the program makes no limiter. TLC evaluates the assumptions in every run,
and the runs `services` and `edges` check the same properties under the same names.

`SeqItems` holds what these proofs keep needing about sequences. The induction theorems of the
library take the predicate as an operator, which the provers cannot instantiate; here it is a
set, so that induction is a subset relation (`UpTo` for numbers, from the least element of a
set, and `SeqsByAppend`). With it the loops that the models write as recursive functions can be
reasoned about: that there is such a function, and what an item more adds to it (`FilteredAppend`,
and in `CommandProofs` `FlattenAppend`).

Only model-checked: liveness (`TurnsEnd`), which TLAPS does not reach, and the violations of
section 6. Every other property of a passing run is stated by a theorem.

Proved and in no run: `IFlowKeepsContract`, whose safety the run `edges` sees from nearer by
`ReportIsComplete` and `PendingHasTimer`; and `CloseIsClean`, which but for `Alive` says what
`AgentsKeepContract` has of a Claude session after `Close`.

## 8. What is not modelled

* Text: formatting, Markdown, i18n, redaction, logging, and commands that only read and format
  (`/history`, `/status`, `/help`, `/doctor`). `/shell`, `/memory` and `/allow`, which hand
  text to the agent or the system and keep nothing in the engine.
* What vendor SDKs and HTTP do: sending, uploads and the connections of Feishu, Telegram,
  Discord, Slack, DingTalk, LINE and WeCom; provider proxy, speech, doctor.
* Of the agents, their constructors, arguments, images and the parsers of their transcripts.
  The registry of agents and platforms is filled before `main` starts and then only read.
* The command line (`cron`, `relay`, `send`, `daemon`) and the service files: one-shot calls
  of the API server or of the system.
* `interactiveMu` blocking the engine while a process starts is a hazard of time rather than
  of state and no property is about it; the lock itself is in the model.
* Data races on plain fields, except the map of a relay binding. The fields of
  `interactiveState` are guarded by `state.mu` in the steps that are modelled.

## 9. Plan

Done: the engine with its abstract specification, the refinement and the invariants; the
services around it; all agents' sessions, which implement one abstract session; the connections
of the two QQ platforms; the intake of all platforms; the relay; commands, conversations and
settings; lifecycle and upgrade; theorems for every safety and action property that the runs
check.

Left to model, if at all: the `expiry` caches of tokens in WeCom and Feishu, which are those of
`QQBotSender` without its numbers; an engine that uses `AgentSession` in place of its own
`Agent`, which would say that what the agents promise is what the engine asks of them.

Left to prove: what each exception of section 3 costs at most, for instance that
`SavedVersionsStay` loses one binding only until the next save.
