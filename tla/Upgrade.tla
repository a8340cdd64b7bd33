------------------------------ MODULE Upgrade ------------------------------
(***************************************************************************)
(* How a new version replaces the program's file while it runs:            *)
(* /upgrade confirm of the engine (core/updater.go, any number of chats at *)
(* once), `cc-connect update` in a process of its own                      *)
(* (cmd/cc-connect/update.go), and the restart that executes the result    *)
(* (cmd/cc-connect/main.go). Every step may fail, and either process may   *)
(* be killed between two steps. A path is the number of ".old" suffixes    *)
(* behind the name of the program: 0 is what a service manager starts.     *)
(***************************************************************************)
EXTENDS Integers, FiniteSets

CONSTANTS
  Confirm,     \* chats that ask for an upgrade
  MaxVersion,  \* bound on the releases
  MaxPath      \* bound on the ".old" suffixes

ASSUME UpgradeAssumption == MaxVersion \in Nat \ {0} /\ MaxPath \in Nat \ {0}

VARIABLES
  binary,        \* what each path holds: a version, an unfinished copy, or nothing
  latest,        \* the newest release
  bot,           \* the program: its version, and os.Executable(), a path that follows renames
  upgrade,       \* replaceBinary of each chat
  update,        \* replaceExecutable of `cc-connect update`
  promised,      \* the version a user was last told is installed, under the program's own name
  upgradeCrossed \* whether two of them replaced files at once, or one that had found its
                 \* release long before replaced a later one

upgradeVars == <<binary, latest, bot, upgrade, update, promised, upgradeCrossed>>

Path == 0..MaxPath
Version == 1..MaxVersion
NoVersion == 0
Unfinished == -1
IdleUpgrade == [pc |-> "idle", path |-> 0, new |-> 1]
IdleUpdate == [pc |-> "idle", new |-> 1]

UpgradeTypeOK ==
  /\ binary \in [Path -> Version \union {NoVersion, Unfinished}]
  /\ latest \in Version
  /\ bot \in [phase : {"up", "stopping", "down"}, version : Version, path : Path,
              linked : BOOLEAN]
  /\ upgrade \in [Confirm -> [pc : {"idle", "download", "remove", "backup", "install"},
                              path : Path, new : Version]]
  /\ update \in [pc : {"idle", "remove", "backup", "create", "copy", "clean"}, new : Version]
  /\ promised \in Version
  /\ upgradeCrossed \in BOOLEAN

UpgradeInit ==
  /\ binary = [p \in Path |-> IF p = 0 THEN 1 ELSE NoVersion]
  /\ latest = 1
  /\ bot = [phase |-> "up", version |-> 1, path |-> 0, linked |-> TRUE]
  /\ upgrade = [u \in Confirm |-> IdleUpgrade]
  /\ update = IdleUpdate
  /\ promised = 1
  /\ upgradeCrossed = FALSE

-----------------------------------------------------------------------------
(* The file system, and os.Executable(), which follows the running file.   *)

Exists(p) == binary[p] # NoVersion
Whole(p) == binary[p] \in Version

Rename(p, q) ==
  /\ binary' = [binary EXCEPT ![q] = binary[p], ![p] = NoVersion]
  /\ bot' = IF bot.linked /\ bot.path = p THEN [bot EXCEPT !.path = q]
            ELSE IF bot.path = q THEN [bot EXCEPT !.linked = FALSE]
            ELSE bot

Put(p, content) ==
  /\ binary' = [binary EXCEPT ![p] = content]
  /\ bot' = IF bot.path = p THEN [bot EXCEPT !.linked = FALSE] ELSE bot

RemoveFile(p) == Put(p, NoVersion)

Busy == update.pc # "idle" \/ \E u \in Confirm : upgrade[u].pc \notin {"idle", "download"}
ReplacementCrosses(new) == upgradeCrossed' = (upgradeCrossed \/ Busy \/ new < promised)

Release ==
  /\ latest < MaxVersion
  /\ latest' = latest + 1
  /\ UNCHANGED <<binary, bot, upgrade, update, promised, upgradeCrossed>>

-----------------------------------------------------------------------------
(* /upgrade confirm.                                                       *)

Step(u, pc) == upgrade' = [upgrade EXCEPT ![u].pc = pc]
Return(u) == upgrade' = [upgrade EXCEPT ![u] = IdleUpgrade]

\* What CheckForUpdate tells the running program, and isNewer `cc-connect update`.
CheckForUpdate == latest > bot.version
IsNewer == latest > binary[0]

\* The release is looked up ...
ConfirmUpgrade(u) ==
  /\ bot.phase # "down"
  /\ upgrade[u] = IdleUpgrade
  /\ CheckForUpdate
  /\ upgrade' = [upgrade EXCEPT ![u] = [IdleUpgrade EXCEPT !.pc = "download", !.new = latest]]
  /\ UNCHANGED <<binary, latest, bot, update, promised, upgradeCrossed>>

\* ... downloaded, and written to a temporary file next to the path
\* os.Executable() gives by now; an error leaves nothing behind.
SelfUpdate(u) ==
  /\ upgrade[u].pc = "download"
  /\ bot.path < MaxPath
  /\ \/ /\ Exists(bot.path)
        /\ upgrade' = [upgrade EXCEPT ![u].pc = "remove", ![u].path = bot.path]
        /\ ReplacementCrosses(upgrade[u].new)
     \/ Return(u) /\ UNCHANGED upgradeCrossed
  /\ UNCHANGED <<binary, latest, bot, update, promised>>

\* The backup of the last upgrade is removed.
RemoveOld(u) ==
  /\ upgrade[u].pc = "remove"
  /\ RemoveFile(upgrade[u].path + 1)
  /\ Step(u, "backup")
  /\ UNCHANGED <<latest, update, promised, upgradeCrossed>>

\* Mutant of BackUp: the program's file is removed, not renamed.
BackUpRemoves(u) ==
  /\ upgrade[u].pc = "backup"
  /\ \/ Exists(upgrade[u].path) /\ RemoveFile(upgrade[u].path) /\ Step(u, "install")
     \/ Return(u) /\ UNCHANGED <<binary, bot>>
  /\ UNCHANGED <<latest, update, promised, upgradeCrossed>>

\* The program's file becomes the backup, or the upgrade fails.
BackUp(u) ==
  LET p == upgrade[u].path IN
  /\ upgrade[u].pc = "backup"
  /\ \/ Exists(p) /\ Rename(p, p + 1) /\ Step(u, "install")
     \/ Return(u) /\ UNCHANGED <<binary, bot>>
  /\ UNCHANGED <<latest, update, promised, upgradeCrossed>>

\* The temporary file becomes the program, and a restart is asked for. An upgrade
\* that began before the restart of an earlier one writes under the ".old" name,
\* which the next one removes: no promise is counted for it ...
Install(u) ==
  LET p == upgrade[u].path IN
  /\ upgrade[u].pc = "install"
  /\ binary' = [binary EXCEPT ![p] = upgrade[u].new]
  /\ bot' = [bot EXCEPT !.linked = @ /\ bot.path # p,
                        !.phase = IF @ = "up" THEN "stopping" ELSE @]
  /\ promised' = IF p = 0 THEN upgrade[u].new ELSE promised
  /\ Return(u)
  /\ UNCHANGED <<latest, update, upgradeCrossed>>

\* ... or the backup is put back, as far as it is there.
InstallFails(u) ==
  LET p == upgrade[u].path IN
  /\ upgrade[u].pc = "install"
  /\ IF Exists(p + 1) THEN Rename(p + 1, p) ELSE UNCHANGED <<binary, bot>>
  /\ Return(u)
  /\ UNCHANGED <<latest, update, promised, upgradeCrossed>>

-----------------------------------------------------------------------------
(* cc-connect update.                                                      *)

RunUpdate ==
  /\ update.pc = "idle"
  /\ Whole(0)
  /\ IsNewer
  /\ update' = [pc |-> "remove", new |-> latest]
  /\ ReplacementCrosses(latest)
  /\ UNCHANGED <<binary, latest, bot, upgrade, promised>>

UpdateRemovesOld ==
  /\ update.pc = "remove"
  /\ RemoveFile(1)
  /\ update' = [update EXCEPT !.pc = "backup"]
  /\ UNCHANGED <<latest, upgrade, promised, upgradeCrossed>>

UpdateBacksUp ==
  /\ update.pc = "backup"
  /\ \/ Exists(0) /\ Rename(0, 1) /\ update' = [update EXCEPT !.pc = "create"]
     \/ update' = IdleUpdate /\ UNCHANGED <<binary, bot>>
  /\ UNCHANGED <<latest, upgrade, promised, upgradeCrossed>>

\* copyFile creates the file, which nobody can execute before the copy and the
\* Chmod are done.
UpdateCreates ==
  /\ update.pc = "create"
  /\ Put(0, Unfinished)
  /\ update' = [update EXCEPT !.pc = "copy"]
  /\ UNCHANGED <<latest, upgrade, promised, upgradeCrossed>>

UpdateCopies ==
  /\ update.pc = "copy"
  /\ Put(0, update.new)
  /\ update' = [update EXCEPT !.pc = "clean"]
  /\ UNCHANGED <<latest, upgrade, promised, upgradeCrossed>>

\* The copy cannot be made: the backup is put back, as far as it is there.
UpdateCopyFails ==
  /\ update.pc \in {"create", "copy"}
  /\ IF Exists(1) THEN Rename(1, 0) ELSE UNCHANGED <<binary, bot>>
  /\ update' = IdleUpdate
  /\ UNCHANGED <<latest, upgrade, promised, upgradeCrossed>>

\* The copy is made but cannot be made executable: it stays, and so does the backup.
UpdateChmodFails ==
  /\ update.pc = "copy"
  /\ update' = IdleUpdate
  /\ UNCHANGED <<binary, latest, bot, upgrade, promised, upgradeCrossed>>

UpdateCleans ==
  /\ update.pc = "clean"
  /\ RemoveFile(1)
  /\ update' = IdleUpdate
  /\ promised' = update.new
  /\ UNCHANGED <<latest, upgrade, upgradeCrossed>>

UpdateKilled ==
  /\ update.pc # "idle"
  /\ update' = IdleUpdate
  /\ UNCHANGED <<binary, latest, bot, upgrade, promised, upgradeCrossed>>

-----------------------------------------------------------------------------
(* The process.                                                            *)

\* /restart.
RestartUpgraded ==
  /\ bot.phase = "up"
  /\ bot' = [bot EXCEPT !.phase = "stopping"]
  /\ UNCHANGED <<binary, latest, upgrade, update, promised, upgradeCrossed>>

\* The path main executes: os.Executable() without one ".old", if that exists.
ExecPath == IF bot.path > 0 /\ Exists(bot.path - 1) THEN bot.path - 1 ELSE bot.path

\* syscall.Exec at the end of the shutdown: it ends the upgrades of the old
\* process wherever they are.
ExecBinary ==
  /\ bot.phase = "stopping"
  /\ bot' = IF Whole(ExecPath)
            THEN [phase |-> "up", version |-> binary[ExecPath], path |-> ExecPath, linked |-> TRUE]
            ELSE [bot EXCEPT !.phase = "down"]
  /\ upgrade' = [u \in Confirm |-> IdleUpgrade]
  /\ UNCHANGED <<binary, latest, update, promised, upgradeCrossed>>

Killed ==
  /\ bot.phase # "down"
  /\ bot' = [bot EXCEPT !.phase = "down"]
  /\ upgrade' = [u \in Confirm |-> IdleUpgrade]
  /\ UNCHANGED <<binary, latest, update, promised, upgradeCrossed>>

\* A service manager starts the program again.
LaunchBinary ==
  /\ bot.phase = "down"
  /\ Whole(0)
  /\ bot' = [phase |-> "up", version |-> binary[0], path |-> 0, linked |-> TRUE]
  /\ UNCHANGED <<binary, latest, upgrade, update, promised, upgradeCrossed>>

UpgradeNext ==
  \/ Release
  \/ \E u \in Confirm :
       \/ ConfirmUpgrade(u) \/ SelfUpdate(u) \/ RemoveOld(u) \/ BackUp(u)
       \/ Install(u) \/ InstallFails(u)
  \/ RunUpdate \/ UpdateRemovesOld \/ UpdateBacksUp \/ UpdateCreates \/ UpdateCopies
  \/ UpdateCopyFails \/ UpdateChmodFails \/ UpdateCleans \/ UpdateKilled
  \/ RestartUpgraded \/ ExecBinary \/ Killed \/ LaunchBinary

UpgradeSpec == UpgradeInit /\ [][UpgradeNext]_upgradeVars

-----------------------------------------------------------------------------
\* What a user was told is installed is never lost, whatever fails or is killed
\* and however often the program is replaced after it, unless two replacements
\* cross: then the second one removes the backup that is the only copy; or one
\* installs an older release, after which the next one takes that for the backup.
UpgradeIsKept == upgradeCrossed \/ \E p \in Path : Whole(p) /\ binary[p] >= promised
=============================================================================
