---------------------------- MODULE CodexProfile ----------------------------
(***************************************************************************)
(* Install, Uninstall and Restore of internal/codexprofile on the user's   *)
(* Codex config: several commands at once without a lock, the user's       *)
(* editor beside them, commands that fail or are killed at any step, and   *)
(* losses of power, after which what was not synced may be gone.           *)
(***************************************************************************)
EXTENDS CodexText, FiniteSets

CONSTANTS
    Commands,     \* runs of the router command; each names its own backup
    NoFile,       \* nothing at that path
    MaxSaves,     \* bound of edition for the user's edits
    MaxLosses     \* bound of losses of power

ASSUME ProfileConstants == NoFile \notin Text /\ MaxSaves \in Nat /\ MaxLosses \in Nat

VARIABLES
    config,       \* the content of config.toml, or NoFile
    mayBe,        \* what a loss of power may leave of it
    backup,       \* command -> the content of its backup, or NoFile
    unsynced,     \* backups that a loss of power may cut short
    command,      \* command -> its progress
    edition,      \* for the properties: counts what else writes the config: edits,
                  \* rollbacks, and commands that overwrite what they have not read
    losses,       \* losses of power so far
    shown         \* for the properties: every content the path ever had

profileVars == <<config, mayBe, backup, unsynced, command, edition, losses, shown>>

Content == Text \cup {NoFile}

NewCommand == [phase |-> "new", kind |-> "none", read |-> <<>>, result |-> <<>>, edition |-> 0]

Command ==
    [phase : {"new", "merged", "backedUp", "written", "done"},
     kind : {"none", "install", "uninstall", "rollback"},
     read : Text, result : Text, edition : Nat]

ProfileInit ==
    /\ config \in {NoFile, <<>>} \cup {<<line, "\n">> : line \in OwnLine}
    /\ mayBe = {config} /\ shown = {config}
    /\ backup = [c \in Commands |-> NoFile]
    /\ unsynced = {}
    /\ command = [c \in Commands |-> NewCommand]
    /\ edition = 0 /\ losses = 0

(* readExisting: no file reads as no text.                                 *)
Existing == IF config = NoFile THEN <<>> ELSE config

Moves(c, phase) == command' = [command EXCEPT ![c].phase = phase]

Decides(c, phase, kind, result) ==
    command' = [command EXCEPT ![c] =
        [phase |-> phase, kind |-> kind, read |-> Existing, result |-> result, edition |-> edition]]

-----------------------------------------------------------------------------
(* Install and Uninstall up to the backup; refusals change nothing.        *)
Install(c, body) ==
    /\ command[c].phase = "new"
    /\ IF Malformed(Existing) THEN Moves(c, "done")
       ELSE Decides(c, "merged", "install", Merge(Existing, body))
    /\ UNCHANGED <<config, mayBe, backup, unsynced, edition, losses, shown>>

Uninstall(c) ==
    /\ command[c].phase = "new"
    /\ IF Malformed(Existing) \/ ~HasMarker(Existing) THEN Moves(c, "done")
       ELSE Decides(c, "merged", "uninstall", Remaining(Existing))
    /\ UNCHANGED <<config, mayBe, backup, unsynced, edition, losses, shown>>

(* Restore makes no backup of what it replaces, and does not even read it: *)
(* "read" is for the properties here.                                      *)
Rollback(c, b) ==
    /\ command[c].phase = "new"
    /\ backup[b] # NoFile
    /\ Decides(c, "backedUp", "rollback", backup[b])
    /\ UNCHANGED <<config, mayBe, backup, unsynced, edition, losses, shown>>

WriteBackupOfResult(c) ==
    /\ command[c].phase = "merged"
    /\ backup' = [backup EXCEPT ![c] = command[c].result]
    /\ unsynced' = unsynced \cup {c}
    /\ Moves(c, "backedUp")
    /\ UNCHANGED <<config, mayBe, edition, losses, shown>>

WriteBackupUnchecked(c) ==
    /\ command[c].phase = "merged"
    /\ IF command[c].read = <<>> THEN UNCHANGED backup
       ELSE backup' = [backup EXCEPT ![c] = command[c].read]
    /\ unsynced' = unsynced \cup {c}
    /\ Moves(c, "backedUp")
    /\ UNCHANGED <<config, mayBe, edition, losses, shown>>

(* backupFile: no backup of an empty text; not synced.                     *)
WriteBackup(c) ==
    /\ command[c].phase = "merged"
    /\ IF command[c].read = <<>> THEN UNCHANGED <<backup, unsynced>>
       ELSE /\ backup' = [backup EXCEPT ![c] = command[c].read]
            /\ unsynced' = unsynced \cup {c}
    /\ Moves(c, "backedUp")
    /\ UNCHANGED <<config, mayBe, edition, losses, shown>>

(* What is there when a write stops half way: here, nothing or one line.   *)
CutShort(text, n) == IF n < Len(text) THEN UpTo(text, n) ELSE <<>>

BackupFails(c) ==
    /\ command[c].phase = "merged"
    /\ command[c].read # <<>>
    /\ \E n \in 0 .. 1 : backup' = [backup EXCEPT ![c] = CutShort(command[c].read, n)]
    /\ unsynced' = unsynced \cup {c}
    /\ Moves(c, "done")
    /\ UNCHANGED <<config, mayBe, edition, losses, shown>>

(* atomicWrite up to the rename: the temporary file is whole and synced.   *)
WriteTemp(c) ==
    /\ command[c].phase = "backedUp"
    /\ Moves(c, "written")
    /\ UNCHANGED <<config, mayBe, backup, unsynced, edition, losses, shown>>

EditionAfter(c) ==
    IF command[c].kind = "rollback" \/ command[c].edition # edition THEN edition + 1 ELSE edition

RenameUnsynced(c) ==
    /\ command[c].phase = "written"
    /\ config' = command[c].result
    /\ mayBe' = mayBe \cup {config'} \cup {UpTo(config', n - 1) : n \in DOMAIN config'}
    /\ edition' = EditionAfter(c)
    /\ shown' = shown \cup {config'}
    /\ Moves(c, "done")
    /\ UNCHANGED <<backup, unsynced, losses>>

(* The rename is one step for every reader, but not yet on disk.           *)
Rename(c) ==
    /\ command[c].phase = "written"
    /\ config' = command[c].result
    /\ mayBe' = mayBe \cup {config'}
    /\ edition' = EditionAfter(c)
    /\ shown' = shown \cup {config'}
    /\ Moves(c, "done")
    /\ UNCHANGED <<backup, unsynced, losses>>

(* A file that is not regular, an error of a system call, a kill: a        *)
(* temporary file that stays behind has a name nobody reads.               *)
Fails(c) ==
    /\ command[c].phase # "done"
    /\ Moves(c, "done")
    /\ UNCHANGED <<config, mayBe, backup, unsynced, edition, losses, shown>>

-----------------------------------------------------------------------------
(* What the user may make of the file: a line at its end or its beginning, *)
(* the other line ends, one marker gone.                                   *)
Edits(text) ==
    {text \o <<line, "\n">> : line \in OwnLine} \cup {<<line, "\n">> \o text : line \in OwnLine}
        \cup {[i \in DOMAIN text |-> IF text[i] = "\n" THEN "\r\n" ELSE text[i]]}
        \cup {UpTo(text, i - 1) \o After(text, i) : i \in {j \in DOMAIN text : text[j] \in Marker}}

Save ==
    /\ edition < MaxSaves
    /\ config' \in Edits(Existing)
    /\ mayBe' = mayBe \cup {config'}
    /\ edition' = edition + 1
    /\ shown' = shown \cup {config'}
    /\ UNCHANGED <<backup, unsynced, command, losses>>

(* The operating system writes everything back.                            *)
Sync ==
    /\ mayBe' = {config} /\ unsynced' = {}
    /\ UNCHANGED <<config, backup, command, edition, losses, shown>>

(* Every command dies; the config is what an earlier or the last rename    *)
(* left, and unsynced backups are cut short.                               *)
PowerLoss ==
    /\ losses < MaxLosses
    /\ losses' = losses + 1
    /\ config' \in mayBe
    /\ mayBe' = {config'}
    /\ \E lost \in SUBSET unsynced, n \in 0 .. 1 :
          backup' = [c \in Commands |-> IF c \in lost THEN CutShort(backup[c], n) ELSE backup[c]]
    /\ unsynced' = {}
    /\ command' = [c \in Commands |->
                      [command[c] EXCEPT !.phase = IF @ = "new" THEN "new" ELSE "done"]]
    /\ UNCHANGED <<edition, shown>>

ProfileNext ==
    \/ \E c \in Commands :
          \/ \E body \in Body : Install(c, body)
          \/ Uninstall(c)
          \/ \E b \in Commands : Rollback(c, b)
          \/ WriteBackup(c)
          \/ BackupFails(c)
          \/ WriteTemp(c)
          \/ Rename(c)
          \/ Fails(c)
    \/ Save
    \/ Sync
    \/ PowerLoss

ProfileSpec == ProfileInit /\ [][ProfileNext]_profileVars

-----------------------------------------------------------------------------
(* Every variable has its type, and what is at the path is what a loss of  *)
(* power may leave there.                                                  *)
ProfileTypeOK ==
    /\ mayBe \subseteq Content /\ config \in mayBe
    /\ backup \in [Commands -> Content]
    /\ unsynced \subseteq {c \in Commands : backup[c] # NoFile}
    /\ command \in [Commands -> Command]
    /\ edition \in Nat /\ losses \in Nat
    /\ shown \subseteq Content

Replaces(c) ==
    /\ command[c].phase = "written" /\ command'[c].phase = "done"
    /\ config' # config
    /\ losses' = losses

ReadOf(content) == IF content = NoFile THEN <<>> ELSE content

(* TestMergePreservesExistingAndIsIdempotent, for any number of commands   *)
(* at once: as long as nobody else writes between their reads and renames, *)
(* installs and uninstalls keep every line of the user, in order.          *)
CommandsKeepOwnLines ==
    [][\A c \in Commands :
          (Replaces(c) /\ command[c].kind # "rollback" /\ command[c].edition = edition) =>
              OwnLines(config') = OwnLines(ReadOf(config))]_profileVars

(* Whatever commands run at once, fail or are killed, and whatever a loss  *)
(* of power leaves, there are never two managed blocks.                    *)
OneBlock ==
    \A content \in mayBe \ {NoFile}, marker \in Marker :
        Cardinality({i \in DOMAIN content : content[i] = marker}) <= 1

(* docs/configuration.md: install it reversibly.  On every text an install *)
(* accepts, installing again changes nothing, and uninstalling leaves what *)
(* was there, but for the blank lines at its end.                          *)
InstallIsReversible ==
    \A body \in Body :
        ~Malformed(Existing) =>
            LET installed == Merge(Existing, body)
            IN  /\ \A other \in Body : Merge(installed, other) = Merge(Existing, other)
                /\ Remaining(installed) =
                      IF HasMarker(Existing) THEN Remaining(Existing) ELSE LineEnded(TrimRight(Existing))

(* An install or uninstall that replaces the text it read has a backup of  *)
(* it, through every failure and kill.                                     *)
ReplacedTextIsBackedUp ==
    [][\A c \in Commands :
          (Replaces(c) /\ command[c].kind # "rollback" /\ ReadOf(config) = command[c].read) =>
              ReadOf(config) = <<>> \/ backup[c] = config]_profileVars

(* A loss of power leaves a content the path once had, never a part of one *)
(* or nothing: the temporary file is synced before it takes the name.      *)
PowerLossLeavesWhole == mayBe \subseteq shown

(* docs/security.md: the editor creates a backup before modifying an       *)
(* existing file.  Even of a file nobody else touches meanwhile.           *)
BackupBeforeModifying ==
    [][\A c \in Commands :
          (Replaces(c) /\ ReadOf(config) = command[c].read /\ command[c].read # <<>>) =>
              \E b \in Commands : backup[b] = config]_profileVars
=============================================================================
