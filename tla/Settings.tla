------------------------------- MODULE Settings -------------------------------
(***************************************************************************)
(* The settings that users change by commands: providers of the agent of a *)
(* project, and the custom commands and aliases of all projects. The       *)
(* engine of every project keeps a copy of the latter, its agent one of    *)
(* its providers; config.toml is the other one. A command (/provider,      *)
(* /commands, /alias, /lang, /display, /reload) changes the copy of its    *)
(* own engine step by step and then the file, read, changed and renamed    *)
(* under configMu; a save that fails is logged and the command stands.     *)
(* `cc-connect provider` writes the file from another process, where       *)
(* configMu does not reach.                                                *)
(*                                                                         *)
(* Names are in lower case; what else a provider holds is left out, and so *)
(* are the providers of the projects other than Home.                      *)
(***************************************************************************)
EXTENDS SeqFilter, SequencesExt

CONSTANTS
  Handler,     \* commands that may be under way at one time
  Proj, Home,  \* the projects, each with its engine; the one whose providers are modelled
  Provider, Name,
  MaxCommand,  \* bound on the commands
  MaxCli,      \* bound on the calls of `cc-connect provider`
  Nobody, NoName

ASSUME SettingsAssumption ==
  MaxCommand \in Nat /\ MaxCli \in Nat /\ Nobody \notin Handler /\ Home \in Proj

VARIABLES
  file,     \* config.toml: providers of Home, the active one, the words of all
  memory,   \* the agent's providers and activeIdx (0 for -1), the words of each engine
  configMu,
  handler,  \* each command: where it is, what it does, what it has read
  cli,      \* the other process, alike
  commands, \* so far
  calls,    \* of the other process, so far
  outdated, \* writers that read before the other process wrote
  clean     \* engines since whose last load no command crossed another, none of theirs
            \* failed to save, and no other engine saved a word

settingsVars == <<file, memory, configMu, handler, cli, commands, calls, outdated, clean>>

\* Custom commands and aliases.
SavedWord == {"command", "alias"} \X Name
Op == {"none", "add", "remove", "switch", "word add", "word delete", "other", "reload"}
IdleHandler == [pc |-> "idle", op |-> "none", at |-> Home, arg |-> NoName, list |-> <<>>,
         read |-> [providers |-> <<>>, active |-> NoName, words |-> {}]]

ConfigFile ==
  [providers : Seq(Provider), active : Provider \union {NoName}, words : SUBSET SavedWord]
Edit == [pc : {"idle", "list", "set", "save", "write", "providers", "active", "clear", "load"},
         op : Op, at : Proj, arg : Provider \union SavedWord \union {NoName}, list : Seq(Provider),
         read : ConfigFile]

SettingsTypeOK ==
  /\ file \in ConfigFile /\ IsInjective(file.providers)
  /\ memory \in [providers : Seq(Provider), activeIdx : Nat, words : [Proj -> SUBSET SavedWord]]
  /\ configMu \in Handler \union {Nobody}
  /\ handler \in [Handler -> Edit]
  /\ cli \in Edit /\ cli.pc \in {"idle", "write"}
  /\ commands \in 0..MaxCommand /\ calls \in 0..MaxCli
  /\ outdated \subseteq Handler \union {Nobody}
  /\ clean \subseteq Proj

\* SetActiveProvider: the first provider of that name, if there is one.
IndexOf(list, name) ==
  IF name \in ToSet(list) THEN CHOOSE i \in DOMAIN list :
    list[i] = name /\ \A j \in 1..(i - 1) : list[j] # name
  ELSE 0

\* main: every engine and its agent get what the file says.
Loaded(f) ==
  [providers |-> f.providers, activeIdx |-> IndexOf(f.providers, f.active),
   words |-> [e \in Proj |-> f.words]]

SettingsInit ==
  /\ \E n \in 0..2 : \E providers \in [1..n -> Provider] :
       /\ IsInjective(providers)
       /\ \E active \in ToSet(providers) \union {NoName} :
            file = [providers |-> providers, active |-> active, words |-> {}]
  /\ memory = Loaded(file)
  /\ configMu = Nobody
  /\ handler = [h \in Handler |-> IdleHandler] /\ cli = IdleHandler
  /\ commands = 0 /\ calls = 0
  /\ outdated = {} /\ clean = Proj

-----------------------------------------------------------------------------
(* Commands.                                                               *)

\* A command begins; others may be under way.
Begin(h, command) ==
  /\ handler[h].pc = "idle" /\ commands < MaxCommand
  /\ commands' = commands + 1
  /\ handler' = [handler EXCEPT ![h] = command]
  /\ clean' = IF \E other \in Handler \ {h} : handler[other].pc # "idle" THEN {}
              ELSE clean \union {e \in {command.at} : command.op = "reload"}
  /\ UNCHANGED <<configMu, cli, calls, outdated>>

\* cmdProviderAdd: no provider of that name yet ...
ProviderAdd(h, p) ==
  /\ p \notin ToSet(memory.providers)
  /\ Begin(h, [IdleHandler EXCEPT !.pc = "list", !.op = "add", !.arg = p])
  /\ UNCHANGED <<file, memory>>

\* ... the list once more ...
ProviderAddList(h) ==
  /\ handler[h].pc = "list"
  /\ handler' = [handler EXCEPT ![h].pc = "set", ![h].list = memory.providers]
  /\ UNCHANGED <<file, memory, configMu, cli, commands, calls, outdated, clean>>

\* cmdProviderRemove: the list, and the provider is in it.
ProviderRemove(h, p) ==
  /\ p \in ToSet(memory.providers)
  /\ Begin(h, [IdleHandler EXCEPT !.pc = "set", !.op = "remove", !.arg = p,
                           !.list = memory.providers])
  /\ UNCHANGED <<file, memory>>

\* SetProviders with the list that was read; activeIdx stays.
SetProviders(h) ==
  LET c == handler[h] IN
  /\ c.pc = "set" /\ c.op \in {"add", "remove"}
  /\ memory' = [memory EXCEPT !.providers =
       IF c.op = "add" THEN Append(c.list, c.arg)
                       ELSE Filtered(c.list, Provider \ {c.arg})]
  /\ handler' = [handler EXCEPT ![h].pc = "save", ![h].list = <<>>]
  /\ UNCHANGED <<file, configMu, cli, commands, calls, outdated, clean>>

\* switchProvider, and /provider clear. Engine models the cleanup that follows.
SwitchProvider(h, name) ==
  /\ name \in ToSet(memory.providers) \union {NoName}
  /\ memory' = [memory EXCEPT !.activeIdx = IndexOf(memory.providers, name)]
  /\ Begin(h, [IdleHandler EXCEPT !.pc = "save", !.op = "switch", !.arg = name])
  /\ UNCHANGED file

\* cmdCommandsAdd, cmdCommandsAddExec: Resolve, and Add after that.
CommandsAdd(h, e, n) ==
  /\ <<"command", n>> \notin memory.words[e]
  /\ Begin(h, [IdleHandler EXCEPT !.pc = "set", !.op = "word add", !.at = e,
                           !.arg = <<"command", n>>])
  /\ UNCHANGED <<file, memory>>

AddCommand(h) ==
  /\ handler[h].pc = "set" /\ handler[h].op = "word add"
  /\ memory' = [memory EXCEPT !.words[handler[h].at] = @ \union {handler[h].arg}]
  /\ handler' = [handler EXCEPT ![h].pc = "save"]
  /\ UNCHANGED <<file, configMu, cli, commands, calls, outdated, clean>>

\* cmdAliasAdd: an alias that is there is replaced.
AliasAdd(h, e, n) ==
  /\ memory' = [memory EXCEPT !.words[e] = @ \union {<<"alias", n>>}]
  /\ Begin(h, [IdleHandler EXCEPT !.pc = "save", !.op = "word add", !.at = e,
                           !.arg = <<"alias", n>>])
  /\ UNCHANGED file

\* cmdCommandsDel, cmdAliasDel.
WordDelete(h, e, word) ==
  /\ word \in memory.words[e]
  /\ memory' = [memory EXCEPT !.words[e] = @ \ {word}]
  /\ Begin(h, [IdleHandler EXCEPT !.pc = "save", !.op = "word delete", !.at = e, !.arg = word])
  /\ UNCHANGED file

\* SaveLanguage, SaveDisplayConfig: settings of their own.
SaveOther(h, e) ==
  /\ Begin(h, [IdleHandler EXCEPT !.pc = "save", !.op = "other", !.at = e])
  /\ UNCHANGED <<file, memory>>

-----------------------------------------------------------------------------
(* The file.                                                               *)

\* What a writer makes of the file it has read.
Changed(w) ==
  CASE w.op = "add" -> [w.read EXCEPT !.providers = Append(@, w.arg)]
    [] w.op = "remove" -> [w.read EXCEPT !.providers = Filtered(@, Provider \ {w.arg})]
    [] w.op = "switch" -> [w.read EXCEPT !.active = w.arg]
    [] w.op = "word add" -> [w.read EXCEPT !.words = @ \union {w.arg}]
    [] w.op = "word delete" -> [w.read EXCEPT !.words = @ \ {w.arg}]
    [] w.op = "other" -> w.read

\* A provider or command that is there is not added, one that is not there is not
\* removed; an alias is replaced.
Accepted(w) ==
  CASE w.op = "add" -> w.arg \notin ToSet(w.read.providers)
    [] w.op = "remove" -> w.arg \in ToSet(w.read.providers)
    [] w.op = "word add" -> w.arg \notin w.read.words \/ w.arg[1] = "alias"
    [] w.op = "word delete" -> w.arg \in w.read.words
    [] w.op \in {"switch", "other"} -> TRUE

\* Mutant of ReadFile: the file is read without configMu.
ReadUnlocked(h) ==
  /\ handler[h].pc = "save"
  /\ configMu' = h
  /\ handler' = [handler EXCEPT ![h].pc = "write", ![h].read = file]
  /\ outdated' = outdated \ {h}
  /\ UNCHANGED <<file, memory, cli, commands, calls, clean>>

\* configMu.Lock and the read.
ReadFile(h) ==
  /\ handler[h].pc = "save" /\ configMu = Nobody
  /\ configMu' = h
  /\ handler' = [handler EXCEPT ![h].pc = "write", ![h].read = file]
  /\ outdated' = outdated \ {h}
  /\ UNCHANGED <<file, memory, cli, commands, calls, clean>>

\* saveConfig: a temporary file and the rename, or an error that is logged. No other
\* engine hears of a word.
WriteFile(h) ==
  /\ handler[h].pc = "write"
  /\ \/ /\ Accepted(handler[h])
        /\ file' = Changed(handler[h])
        /\ outdated' = IF cli.pc = "write" THEN outdated \union {Nobody} ELSE outdated
        /\ clean' = IF handler[h].op \in {"word add", "word delete"}
                      THEN clean \intersect {handler[h].at} ELSE clean
     \/ /\ clean' = clean \ {handler[h].at}
        /\ UNCHANGED <<file, outdated>>
  /\ configMu' = Nobody
  /\ handler' = [handler EXCEPT ![h] = IdleHandler]
  /\ UNCHANGED <<memory, cli, commands, calls>>

\* `cc-connect provider add`, `remove` and `import`, in a process of their own.
CliReads(op, p) ==
  /\ cli.pc = "idle" /\ calls < MaxCli
  /\ calls' = calls + 1
  /\ cli' = [IdleHandler EXCEPT !.pc = "write", !.op = op, !.arg = p, !.read = file]
  /\ outdated' = outdated \ {Nobody}
  /\ UNCHANGED <<file, memory, configMu, handler, commands, clean>>

CliWrites ==
  /\ cli.pc = "write"
  /\ cli' = IdleHandler
  /\ IF Accepted(cli)
       THEN /\ file' = Changed(cli)
            /\ outdated' = outdated \union {h \in Handler : handler[h].pc = "write"}
            /\ clean' = {}
       ELSE UNCHANGED <<file, outdated, clean>>
  /\ UNCHANGED <<memory, configMu, handler, commands, calls>>

-----------------------------------------------------------------------------
(* /reload and restarts.                                                   *)

\* reloadConfig reads the file for the engine of the chat, without configMu ...
Reload(h, e) ==
  /\ Begin(h, [IdleHandler EXCEPT !.pc = IF e = Home THEN "providers" ELSE "clear",
                           !.op = "reload", !.at = e, !.read = file])
  /\ UNCHANGED <<file, memory>>

\* ... and goes through the settings one after the other: the providers, the active
\* one unless none is named or known, the words, which are cleared first.
ReloadProviders(h) ==
  /\ handler[h].pc = "providers"
  /\ memory' = [memory EXCEPT !.providers = handler[h].read.providers]
  /\ handler' = [handler EXCEPT ![h].pc = "active"]
  /\ UNCHANGED <<file, configMu, cli, commands, calls, outdated, clean>>

ReloadActive(h) ==
  LET i == IndexOf(memory.providers, handler[h].read.active) IN
  /\ handler[h].pc = "active"
  /\ memory' = [memory EXCEPT !.activeIdx = IF i = 0 THEN @ ELSE i]
  /\ handler' = [handler EXCEPT ![h].pc = "clear"]
  /\ UNCHANGED <<file, configMu, cli, commands, calls, outdated, clean>>

ClearWords(h) ==
  /\ handler[h].pc = "clear"
  /\ memory' = [memory EXCEPT !.words[handler[h].at] = {}]
  /\ handler' = [handler EXCEPT ![h].pc = "load"]
  /\ UNCHANGED <<file, configMu, cli, commands, calls, outdated, clean>>

\* Mutant of LoadWords: the aliases are not loaded again.
LoadCommandsOnly(h) ==
  /\ handler[h].pc = "load"
  /\ memory' = [memory EXCEPT !.words[handler[h].at] =
       @ \union {w \in handler[h].read.words : w[1] = "command"}]
  /\ handler' = [handler EXCEPT ![h] = IdleHandler]
  /\ UNCHANGED <<file, configMu, cli, commands, calls, outdated, clean>>

LoadWords(h) ==
  /\ handler[h].pc = "load"
  /\ memory' = [memory EXCEPT !.words[handler[h].at] = @ \union handler[h].read.words]
  /\ handler' = [handler EXCEPT ![h] = IdleHandler]
  /\ UNCHANGED <<file, configMu, cli, commands, calls, outdated, clean>>

\* The program stops at any time and starts again; the other process goes on.
Restart ==
  /\ memory' = Loaded(file)
  /\ handler' = [h \in Handler |-> IdleHandler]
  /\ configMu' = Nobody
  /\ outdated' = outdated \intersect {Nobody}
  /\ clean' = Proj
  /\ UNCHANGED <<file, cli, commands, calls>>

SettingsNext ==
  \/ \E h \in Handler :
       \/ \E p \in Provider : ProviderAdd(h, p) \/ ProviderRemove(h, p)
       \/ ProviderAddList(h) \/ SetProviders(h)
       \/ \E p \in Provider \union {NoName} : SwitchProvider(h, p)
       \/ \E e \in Proj :
            \/ \E n \in Name : CommandsAdd(h, e, n) \/ AliasAdd(h, e, n)
            \/ \E w \in SavedWord : WordDelete(h, e, w)
            \/ SaveOther(h, e) \/ Reload(h, e)
       \/ AddCommand(h)
       \/ ReadFile(h) \/ WriteFile(h)
       \/ ReloadProviders(h) \/ ReloadActive(h) \/ ClearWords(h) \/ LoadWords(h)
  \/ \E op \in {"add", "remove"}, p \in Provider : CliReads(op, p)
  \/ CliWrites
  \/ Restart

SettingsSpec == SettingsInit /\ [][SettingsNext]_settingsVars

-----------------------------------------------------------------------------
(* What the settings promise.                                              *)

Entries(f) == ToSet(f.providers) \union f.words

\* A write takes nothing out of the file but what its command removes, however many
\* commands and calls write at once; the exception is a writer that read the file
\* before the other process wrote it.
SavedStays ==
  [][\A entry \in Entries(file) \ Entries(file') :
       \/ /\ cli.pc = "write" /\ cli'.pc = "idle"
          /\ cli.arg = entry \/ Nobody \in outdated
       \/ \E h \in Handler :
            /\ handler[h].pc = "write" /\ handler'[h].pc = "idle"
            /\ handler[h].arg = entry \/ h \in outdated]_settingsVars

\* When all is at rest, an engine whose commands crossed no other command and were
\* all saved since it last loaded has the commands and aliases of the file, and its
\* agent the providers: a restart changes nothing for it but the active provider (see
\* RemovalKeepsActive). The exception is an engine beside one that saved a command or
\* alias, which learns of it at its next /reload or restart.
RestIsSaved ==
  (\A h \in Handler : handler[h].pc = "idle") =>
    \A e \in clean : /\ memory.words[e] = file.words
                     /\ e = Home => memory.providers = file.providers

\* GetActiveProvider.
Active == IF memory.activeIdx \in 1..Len(memory.providers)
            THEN memory.providers[memory.activeIdx] ELSE NoName

\* "If removing the active provider, clear it" (engine.go:2513): /provider remove
\* leaves the agent with the provider it had, or with none when that is removed.
RemovalKeepsActive ==
  [][\A h \in Handler :
       handler[h].pc = "set" /\ handler[h].op = "remove" /\ handler'[h].pc = "save" =>
         Active' = IF Active = handler[h].arg THEN NoName ELSE Active]_settingsVars
=============================================================================
