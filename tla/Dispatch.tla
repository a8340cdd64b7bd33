------------------------------ MODULE Dispatch ------------------------------
(***************************************************************************)
(* The way of a message through Engine.handleMessage (core/engine.go):     *)
(* voice, aliases, rate limit, banned words, built-in commands and their   *)
(* prefixes, custom commands (core/command.go), skills (core/skill.go), the*)
(* answer to a permission, the Session. Meanwhile users and programs       *)
(* change aliases, commands, files and skills, and /reload (reloadConfig   *)
(* of main.go) replaces one table after the other. The agent's answer goes *)
(* out in pieces that the platform accepts (splitMessage). What a turn is, *)
(* and what the commands do, is in Engine, Conversations and Settings.     *)
(***************************************************************************)
EXTENDS Naturals, Sequences, FiniteSets, SequencesExt, FiniteSetsExt

CONSTANTS
  MaxLen,    \* maxPlatformMessageLen
  MaxAnswer, \* bound on the answers
  MaxChange  \* bound on the changes of the registries

ASSUME DispatchAssumption == MaxLen \in Nat \ {0} /\ MaxAnswer \in Nat /\ MaxChange \in Nat

VARIABLES
  disabledCmds, \* ids of the commands the project disables
  bannedWords,
  aliases,      \* a function from what is typed to what is meant
  registered,   \* names of the commands from the configuration and from /commands add
  files,        \* names of the command files of the agent
  skills,       \* names of the skills in the directories of the agent
  scanned,      \* the skills of the last scan
  changes,      \* changes so far
  reload,       \* the table that a /reload is filling, or "none"
  standing,     \* what was banned and disabled ever since the message came
  busy,         \* the Session of the chat is locked by a turn
  pending,      \* that turn waits for a permission
  dispatchPC,   \* where the message is
  message,      \* the message
  outcome,      \* what became of it
  answer,       \* the agent's answer
  rest,         \* what splitMessage has not yet cut of it
  pieces,       \* the pieces of it that were sent
  unsent        \* and those that were not yet

dispatchVars == <<disabledCmds, bannedWords, aliases, registered, files, skills, scanned,
                  changes, reload, standing, busy, pending, dispatchPC, message, outcome, answer, rest,
                  pieces, unsent>>

-----------------------------------------------------------------------------
(* The words.                                                              *)

\* builtinCommands: each with its id and its names.
Builtin ==
  {[id |-> "new", names |-> {"new"}], [id |-> "list", names |-> {"list", "sessions"}],
   [id |-> "switch", names |-> {"switch"}], [id |-> "name", names |-> {"name", "rename"}],
   [id |-> "current", names |-> {"current"}], [id |-> "status", names |-> {"status"}],
   [id |-> "history", names |-> {"history"}], [id |-> "allow", names |-> {"allow"}],
   [id |-> "model", names |-> {"model"}], [id |-> "mode", names |-> {"mode"}],
   [id |-> "lang", names |-> {"lang"}], [id |-> "quiet", names |-> {"quiet"}],
   [id |-> "provider", names |-> {"provider"}], [id |-> "memory", names |-> {"memory"}],
   [id |-> "cron", names |-> {"cron"}], [id |-> "compress", names |-> {"compress", "compact"}],
   [id |-> "stop", names |-> {"stop"}], [id |-> "help", names |-> {"help"}],
   [id |-> "version", names |-> {"version"}],
   [id |-> "commands", names |-> {"commands", "command", "cmd"}],
   [id |-> "skills", names |-> {"skills", "skill"}], [id |-> "config", names |-> {"config"}],
   [id |-> "doctor", names |-> {"doctor"}], [id |-> "upgrade", names |-> {"upgrade", "update"}],
   [id |-> "restart", names |-> {"restart"}], [id |-> "alias", names |-> {"alias"}],
   [id |-> "delete", names |-> {"delete", "del", "rm"}], [id |-> "bind", names |-> {"bind"}],
   [id |-> "search", names |-> {"search", "find"}],
   [id |-> "shell", names |-> {"shell", "sh", "exec", "run"}]}

\* matchPrefix: a name, or the beginning of the names of one command only.
MatchPrefix(word) ==
  LET exact == {c \in Builtin : word \in c.names}
      begun == {c \in Builtin : \E n \in c.names : IsPrefix(word, n)}
      found == IF exact # {} THEN exact ELSE begun IN
  IF Cardinality(found) = 1 THEN (CHOOSE c \in found : TRUE).id ELSE ""

\* SetDisabledCommands: what is not a built-in command stays as it is.
SetDisabledCommands(list) ==
  {IF MatchPrefix(w) = "" THEN w ELSE MatchPrefix(w) : w \in list}

\* What the configuration may ban and disable.
BannedList == {{}, {"secret"}}
DisabledList == {{}, {"update", "re", "ship"}}
NoFilters == [banned |-> {}, disabled |-> {}]

\* The words of the instance, in lower case: beginnings of one and of several
\* commands, of none, names that users give, answers to a permission. A content is a
\* list of words, the first of them with or without a slash.
Word == {"up", "re", "ship", "stat", "secret", "allow"}
Custom == {"ship", "stat"}
Content == [slash : BOOLEAN, words : {<<>>} \union {<<v>> : v \in Word}
                                       \union {<<v, "secret">> : v \in {"ship", "allow"}}]
Message == [content : {c \in Content : c.words = <<>> => ~c.slash},
            image : BOOLEAN]
Silence == [content |-> [slash |-> FALSE, words |-> <<>>], image |-> FALSE]
Alias == {[slash |-> FALSE, words |-> <<"allow">>], [slash |-> TRUE, words |-> <<"ship">>]}
Meaning == [slash : {TRUE}, words : {<<"up">>, <<"ship">>}]

\* Answers of the agent: what matters is where the lines end.
Char == {"x", "newline"}
Text == UNION {[1..n -> Char] : n \in 1..MaxAnswer}

Kind == {"none", "ignored", "no voice", "limited", "blocked", "disabled", "builtin", "custom",
         "skill", "permission", "busy", "turn"}

DispatchTypeOK ==
  /\ disabledCmds \subseteq {c.id : c \in Builtin} \union Word
  /\ bannedWords \subseteq Word
  /\ aliases \in UNION {[names -> Meaning] : names \in SUBSET Alias}
  /\ registered \subseteq Custom /\ files \subseteq Custom
  /\ skills \subseteq Custom /\ scanned \subseteq Custom
  /\ changes \in 0..MaxChange
  /\ reload \in {"none", "commands", "aliases", "disabled"}
  /\ standing.banned \subseteq bannedWords /\ standing.disabled \subseteq disabledCmds
  /\ busy \in BOOLEAN /\ pending \in BOOLEAN /\ (pending => busy)
  /\ dispatchPC \in {"idle", "alias", "filter", "command", "registry", "skill", "permission",
                    "session"}
  /\ message.content.slash \in BOOLEAN /\ message.content.words \in Seq(Word)
  /\ outcome.kind \in Kind
  /\ outcome.id \in {""} \union Custom \union {c.id : c \in Builtin}
  /\ answer \in Seq(Char) /\ rest \in Seq(Char)
  /\ pieces \in Seq(Text) /\ unsent \in Seq(Text)

Nothing == [kind |-> "none", id |-> ""]

DispatchInit ==
  /\ disabledCmds \in {SetDisabledCommands(list) : list \in DisabledList}
  /\ bannedWords \in BannedList
  /\ aliases = [a \in {[slash |-> FALSE, words |-> <<"allow">>]} |->
                  [slash |-> TRUE, words |-> <<"up">>]]
  /\ registered = {"stat"} /\ files = {} /\ skills = {"ship"} /\ scanned = {}
  /\ changes = 0 /\ reload = "none" /\ standing = NoFilters
  /\ busy = FALSE /\ pending = FALSE
  /\ dispatchPC = "idle" /\ message = Silence /\ outcome = Nothing
  /\ answer = <<>> /\ rest = <<>> /\ pieces = <<>> /\ unsent = <<>>

-----------------------------------------------------------------------------
(* What changes meanwhile.                                                 *)

Registries == <<aliases, registered, files, skills>>
Settled == <<disabledCmds, bannedWords>>
Answering == <<answer, rest, pieces, unsent>>

OnTheWay == <<scanned, busy, pending, dispatchPC, message, outcome, Answering>>

Changes == changes < MaxChange /\ changes' = changes + 1

Change == Changes /\ UNCHANGED <<Settled, reload, standing, OnTheWay>>

\* /alias add and /alias del.
CmdAliasAdd(a, m) ==
  /\ Change
  /\ aliases' = [x \in DOMAIN aliases \union {a} |-> IF x = a THEN m ELSE aliases[x]]
  /\ UNCHANGED <<registered, files, skills>>

CmdAliasDel(a) ==
  /\ Change
  /\ a \in DOMAIN aliases
  /\ aliases' = [x \in DOMAIN aliases \ {a} |-> aliases[x]]
  /\ UNCHANGED <<registered, files, skills>>

\* /commands add refuses a name that resolves; it takes one that a built-in hides.
CmdCommandsAdd(n) ==
  /\ Change
  /\ n \notin registered \union files
  /\ registered' = registered \union {n}
  /\ UNCHANGED <<aliases, files, skills>>

CmdCommandsDel(n) ==
  /\ Change
  /\ n \in registered
  /\ registered' = registered \ {n}
  /\ UNCHANGED <<aliases, files, skills>>

\* Somebody writes or removes the file of a command or a skill.
FilesChange(n) ==
  /\ Change
  /\ \/ /\ files' = SymDiff(files, {n}) /\ UNCHANGED skills
     \/ /\ skills' = SymDiff(skills, {n}) /\ UNCHANGED files
  /\ UNCHANGED <<aliases, registered>>

\* /reload: ClearCommands, also of what /commands add registered, and the commands of
\* the file one by one ...
ClearCommands ==
  /\ reload = "none" /\ Changes
  /\ registered' = {} /\ reload' = "commands"
  /\ UNCHANGED <<Settled, standing, aliases, files, skills, OnTheWay>>

ReloadCommand(n) ==
  /\ reload = "commands"
  /\ registered' = registered \union {n}
  /\ UNCHANGED <<Settled, changes, reload, standing, aliases, files, skills, OnTheWay>>

\* ... the same with the aliases ...
ClearAliases ==
  /\ reload = "commands"
  /\ aliases' = <<>> /\ reload' = "aliases"
  /\ UNCHANGED <<Settled, changes, standing, registered, files, skills, OnTheWay>>

ReloadAlias(a, m) ==
  /\ reload = "aliases"
  /\ aliases' = [x \in DOMAIN aliases \union {a} |-> IF x = a THEN m ELSE aliases[x]]
  /\ UNCHANGED <<Settled, changes, reload, standing, registered, files, skills, OnTheWay>>

\* ... and the banned words, then the disabled commands, each list at once.
ReloadBannedWords(words) ==
  /\ reload = "aliases"
  /\ bannedWords' = words /\ reload' = "disabled"
  /\ standing' = [standing EXCEPT !.banned = @ \intersect words]
  /\ UNCHANGED <<disabledCmds, changes, Registries, OnTheWay>>

ReloadDisabledCommands(list) ==
  /\ reload = "disabled"
  /\ disabledCmds' = SetDisabledCommands(list) /\ reload' = "none"
  /\ standing' = [standing EXCEPT !.disabled = @ \intersect disabledCmds']
  /\ UNCHANGED <<bannedWords, changes, Registries, OnTheWay>>

\* Other messages of the chat, cron jobs and the agent lock the Session, ask for a
\* permission, get an answer, and end.
TurnGoesOn ==
  /\ dispatchPC # "idle"
  /\ \/ ~busy /\ busy' = TRUE /\ UNCHANGED pending
     \/ busy /\ ~pending /\ pending' = TRUE /\ UNCHANGED busy
     \/ busy /\ busy' = FALSE /\ pending' = FALSE
  /\ UNCHANGED <<Settled, Registries, scanned, changes, reload, standing, dispatchPC,
                 message, outcome, Answering>>

-----------------------------------------------------------------------------
(* The message.                                                            *)

DispatchGoes(to) == dispatchPC' = to /\ UNCHANGED <<message, standing, outcome>>
Ends(kind, id) ==
  /\ dispatchPC' = "idle" /\ message' = Silence /\ standing' = NoFilters
  /\ outcome' = [kind |-> kind, id |-> id]
Outside == <<Settled, Registries, changes, reload, pending, Answering>>

\* handleVoiceMessage turns speech into a text and starts again with it, or says why it
\* cannot; handleMessage passes over a message without text and image.
Receive(m) ==
  LET empty == m.content.words = <<>> /\ ~m.image IN
  /\ dispatchPC = "idle" /\ answer = <<>>
  /\ \/ Ends("no voice", "")
     \/ empty /\ Ends("ignored", "")
     \/ /\ ~empty
        /\ dispatchPC' = "alias" /\ message' = m /\ outcome' = Nothing
        /\ standing' = [banned |-> bannedWords, disabled |-> disabledCmds]
  /\ UNCHANGED <<Outside, scanned, busy>>

\* resolveAlias: the whole content, or its first word.
ResolveAlias ==
  LET c == message.content
      first == [c EXCEPT !.words = IF @ = <<>> THEN @ ELSE <<Head(@)>>] IN
  /\ dispatchPC = "alias"
  /\ message' =
       [message EXCEPT !.content =
          CASE c \in DOMAIN aliases -> aliases[c]
            [] c \notin DOMAIN aliases /\ first \in DOMAIN aliases ->
                 [aliases[first] EXCEPT !.words = @ \o Tail(c.words)]
            [] OTHER -> c]
  /\ dispatchPC' = "filter"
  /\ UNCHANGED <<Outside, standing, scanned, busy, outcome>>

\* The rate limit (Inbound), then the banned words, for which text with a slash is not
\* searched.
Filter ==
  LET c == message.content IN
  /\ dispatchPC = "filter"
  /\ \/ Ends("limited", "")
     \/ ~c.slash /\ ToSet(c.words) \intersect bannedWords # {} /\ Ends("blocked", "")
     \/ (c.slash \/ ToSet(c.words) \intersect bannedWords = {}) /\ DispatchGoes("command")
  /\ UNCHANGED <<Outside, scanned, busy>>

IsCommand == message.content.slash /\ ~message.image
Typed == Head(message.content.words)

\* Mutant of HandleCommand: the word that was typed is looked up among the disabled.
HandleCommandAsTyped ==
  /\ dispatchPC = "command"
  /\ \/ ~IsCommand /\ DispatchGoes("permission")
     \/ /\ IsCommand
        /\ LET id == MatchPrefix(Typed) IN
           \/ Typed \in disabledCmds /\ Ends("disabled", id)
           \/ id # "" /\ Typed \notin disabledCmds /\ Ends("builtin", id)
           \/ id = "" /\ DispatchGoes("registry")
  /\ UNCHANGED <<Outside, scanned, busy>>

\* handleCommand: a disabled command, a built-in one, or none of these.
HandleCommand ==
  /\ dispatchPC = "command"
  /\ \/ ~IsCommand /\ DispatchGoes("permission")
     \/ /\ IsCommand
        /\ LET id == MatchPrefix(Typed) IN
           \/ id # "" /\ id \in disabledCmds /\ Ends("disabled", id)
           \/ id # "" /\ id \notin disabledCmds /\ Ends("builtin", id)
           \/ id = "" /\ DispatchGoes("registry")
  /\ UNCHANGED <<Outside, scanned, busy>>

\* CommandRegistry.Resolve and executeCustomCommand: a shell command needs no Session,
\* a prompt does.
ResolveCommand ==
  /\ dispatchPC = "registry"
  /\ IF Typed \in registered \union files
     THEN \/ Typed \in registered /\ Ends("custom", Typed) /\ UNCHANGED busy
          \/ busy /\ Ends("busy", Typed) /\ UNCHANGED busy
          \/ ~busy /\ Ends("custom", Typed) /\ busy' = TRUE
     ELSE DispatchGoes("skill") /\ UNCHANGED busy
  /\ UNCHANGED <<Outside, scanned>>

\* SkillRegistry.ListAll scans once, and again as long as it finds nothing.
ListAll == IF scanned = {} THEN skills ELSE scanned

\* executeSkill; a word that is no command at all goes on as a message.
ResolveSkill ==
  /\ dispatchPC = "skill"
  /\ scanned' = ListAll
  /\ \/ Typed \in ListAll /\ busy /\ Ends("busy", Typed) /\ UNCHANGED busy
     \/ Typed \in ListAll /\ ~busy /\ Ends("skill", Typed) /\ busy' = TRUE
     \/ Typed \notin ListAll /\ DispatchGoes("permission") /\ UNCHANGED busy
  /\ UNCHANGED Outside

\* handlePendingPermission takes every message while a permission is asked for.
AnswerPermission ==
  /\ dispatchPC = "permission"
  /\ IF pending THEN Ends("permission", "") ELSE DispatchGoes("session")
  /\ UNCHANGED <<Outside, scanned, busy>>

\* TryLock, and the turn.
StartTurn ==
  /\ dispatchPC = "session"
  /\ IF busy THEN Ends("busy", "") ELSE Ends("turn", "")
  /\ busy' = TRUE
  /\ UNCHANGED <<Outside, scanned>>

-----------------------------------------------------------------------------
(* The answer.                                                             *)

LineEnds(t) == {i \in 2..MaxLen : t[i] = "newline" /\ i - 1 >= MaxLen \div 2}

\* Mutant of Cut: a text without lines is cut one character too late.
CutLate(t) == IF LineEnds(t) = {} THEN MaxLen + 1 ELSE Max(LineEnds(t))

\* Where a text that is too long is cut: after the last newline of the second half, or
\* at the limit, whatever byte is there.
Cut(t) == IF LineEnds(t) = {} THEN MaxLen ELSE Max(LineEnds(t))

\* The turn of the message has its result.
AgentAnswers(t) ==
  /\ dispatchPC = "idle" /\ busy /\ outcome.kind \in {"turn", "skill", "custom"}
  /\ answer = <<>>
  /\ answer' = t /\ rest' = t
  /\ UNCHANGED <<Settled, Registries, scanned, changes, reload, standing, busy, pending,
                 dispatchPC, message, outcome, pieces, unsent>>

\* splitMessage, once round its loop: a piece is cut off, or what is left is the last one.
SplitMessage ==
  LET end == IF Len(rest) <= MaxLen THEN Len(rest) ELSE Cut(rest) IN
  /\ rest # <<>>
  /\ unsent' = Append(unsent, SubSeq(rest, 1, end))
  /\ rest' = SubSeq(rest, end + 1, Len(rest))
  /\ UNCHANGED <<Settled, Registries, scanned, changes, reload, standing, busy, pending,
                 dispatchPC, message, outcome, answer, pieces>>

\* A piece is sent; the last one, or an error, ends the turn.
SendChunk ==
  /\ rest = <<>> /\ unsent # <<>>
  /\ \/ /\ Len(unsent) > 1
        /\ pieces' = Append(pieces, Head(unsent)) /\ unsent' = Tail(unsent)
        /\ UNCHANGED <<answer, outcome, busy, pending>>
     \/ /\ answer' = <<>> /\ pieces' = <<>> /\ unsent' = <<>>
        /\ outcome' = Nothing /\ busy' = FALSE /\ pending' = FALSE
  /\ UNCHANGED <<Settled, Registries, scanned, changes, reload, standing, dispatchPC,
                 message, rest>>

DispatchNext ==
  \/ \E a \in Alias :
       CmdAliasDel(a) \/ \E m \in Meaning : CmdAliasAdd(a, m) \/ ReloadAlias(a, m)
  \/ \E n \in Custom :
       CmdCommandsAdd(n) \/ CmdCommandsDel(n) \/ FilesChange(n) \/ ReloadCommand(n)
  \/ ClearCommands \/ ClearAliases
  \/ \E words \in BannedList : ReloadBannedWords(words)
  \/ \E list \in DisabledList : ReloadDisabledCommands(list)
  \/ \E m \in Message : Receive(m)
  \/ \E t \in Text : AgentAnswers(t)
  \/ TurnGoesOn \/ ResolveAlias \/ Filter \/ HandleCommand \/ ResolveCommand \/ ResolveSkill
  \/ AnswerPermission \/ StartTurn \/ SplitMessage \/ SendChunk

DispatchSpec == DispatchInit /\ [][DispatchNext]_dispatchVars

-----------------------------------------------------------------------------
(* What the filters and the pieces promise.                                *)

\* Whatever is reloaded while a message is on its way, what was banned or disabled all
\* the while holds for it; a word or command that a reload bans or disables after the
\* message came may miss it. However a command is written in the configuration and in
\* the chat, by an alias, a second name or a beginning, a disabled one does not run. No
\* text with a banned word starts a turn, unless it begins with a slash and is no
\* command (Filter does not look at it, and what is no command becomes a message). A
\* message that comes while a permission is asked for starts no turn and runs no prompt.
FiltersHold ==
  [][outcome' # outcome =>
       /\ outcome'.kind = "builtin" => outcome'.id \notin standing.disabled
       /\ outcome'.kind = "turn" /\ ToSet(message.content.words) \intersect standing.banned # {} =>
            message.content.slash
       /\ outcome'.kind \in {"turn", "skill"} => ~pending]_dispatchVars

\* The pieces of an answer fit the platform, none is empty, and together with what is
\* not cut yet they are the answer, those that were sent and those that were not.
AnswerIsWhole ==
  /\ \A piece \in ToSet(pieces \o unsent) : Len(piece) \in 1..MaxLen
  /\ FlattenSeq(pieces \o unsent) \o rest = answer
=============================================================================
