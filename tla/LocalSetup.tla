------------------------------ MODULE LocalSetup ------------------------------
(***************************************************************************)
(* scripts/setup-local.sh, run again and again on one machine: it stages   *)
(* the router's configuration, replaces the two containers of an earlier   *)
(* run, makes a new virtual key and at last points Codex to the router.    *)
(* Any command may fail, which ends a run where it stands (set -e), and so *)
(* does the user; containers stop and are started again, and read what is  *)
(* staged by then; between runs the user edits Codex's configuration and   *)
(* removes containers.  Runs do not overlap.  A key and a configuration    *)
(* are called by the number of the run they belong to.                     *)
(***************************************************************************)
EXTENDS Naturals

CONSTANT MaxSetups      \* bounds how often the script is run

ASSUME SetupConstants == MaxSetups \in Nat

VARIABLES
    step,       \* the next step of the run under way, or "idle"
    setup,      \* number of the last run
    options,    \* how it was started: with --replace, from a "terminal"
    staged,     \* whose configuration is in the file both containers mount
    core,       \* the core container: its state and key, and what it has read
    gateway,    \* the gateway container: its state, and what it has read
    keyFile,    \* the virtual key kept for the user
    codex,      \* Codex's configuration: the user's part of it and the key
    backups,    \* what is kept of earlier configurations of Codex
    served,     \* keys of the cores that have answered through a gateway
    missed,     \* runs that did not see the containers there were
    intact      \* the run that ended well, until someone agrees to replace
                \* it or the user removes its core

setupVars ==
    <<step, setup, options, staged, core, gateway, keyFile, codex, backups, served, missed, intact>>

Keys == 0 .. MaxSetups

NoCore == [is |-> "absent", key |-> 0, config |-> 0]

NoGateway == [is |-> "absent", config |-> 0]

NoCodex == [is |-> "absent", own |-> {}, key |-> 0]

(* Lines of the user's own: a default model, and everything else.          *)
OwnLines == {"defaults", "rest"}

SetupInit ==
    /\ step = "idle" /\ setup = 0 /\ options = {}
    /\ staged = 0 /\ keyFile = 0
    /\ core = NoCore /\ gateway = NoGateway
    /\ codex \in {NoCodex} \cup [is : {"file"}, own : SUBSET OwnLines, key : {0}]
    /\ backups = {} /\ served = {} /\ missed = {} /\ intact = 0

machine == <<core, gateway, keyFile, codex, backups, served>>
-----------------------------------------------------------------------------
(* parse_args, the first checks and prepare_inputs.                        *)
Begin ==
    /\ step = "idle" /\ setup < MaxSetups
    /\ step' = "asks" /\ setup' = setup + 1
    /\ options' \in SUBSET {"replace", "terminal"}
    /\ UNCHANGED <<staged, missed, intact, machine>>

(* A command failed, or the user interrupted, declined one of the first    *)
(* two questions or was not there to be asked.                             *)
Exit ==
    /\ step # "idle"
    /\ step' = "idle"
    /\ UNCHANGED <<setup, options, staged, missed, intact, machine>>

StageOnce ==
    /\ step = "asks"
    /\ staged' = IF staged = 0 THEN setup ELSE staged
    /\ step' = "looks"
    /\ UNCHANGED <<setup, options, missed, intact, machine>>

(* Both notices accepted: stage_runtime_config copies over the file that   *)
(* containers of earlier runs have mounted.                                *)
Stage ==
    /\ step = "asks"
    /\ staged' = setup
    /\ step' = "looks"
    /\ UNCHANGED <<setup, options, missed, intact, machine>>

SeesContainer == core.is # "absent" \/ gateway.is # "absent"

(* container_exists: an inspection that fails says there is none, so that  *)
(* nobody is asked.                                                        *)
FindsNone ==
    /\ step = "looks"
    /\ step' = "pulls"
    /\ missed' = IF SeesContainer THEN missed \cup {setup} ELSE missed
    /\ UNCHANGED <<setup, options, staged, intact, machine>>

(* The third question, unless --replace has answered it.                   *)
FindsOld ==
    /\ step = "looks" /\ SeesContainer
    /\ options # {}
    /\ step' = "removes" /\ intact' = 0
    /\ UNCHANGED <<setup, options, staged, missed, machine>>

Decline ==
    /\ step = "looks" /\ SeesContainer /\ "replace" \notin options
    /\ step' = "idle"
    /\ UNCHANGED <<setup, options, staged, missed, intact, machine>>

(* docker rm -f of both, whose failure is ignored.                         *)
Remove ==
    /\ step = "removes"
    /\ core' \in {NoCore, core} /\ gateway' \in {NoGateway, gateway}
    /\ step' = "pulls"
    /\ UNCHANGED <<setup, options, staged, keyFile, codex, backups, served, missed, intact>>

(* Once the image, network and volume are there: store_virtual_key.        *)
StoreKey ==
    /\ step = "pulls"
    /\ keyFile' = setup
    /\ step' = "runs core"
    /\ UNCHANGED <<setup, options, staged, core, gateway, codex, backups, served, missed, intact>>

StartedCore == [is |-> "starting", key |-> setup, config |-> 0]

RunCoreIfPossible ==
    /\ step = "runs core"
    /\ core' = IF core.is = "absent" THEN StartedCore ELSE core
    /\ step' = "runs gateway"
    /\ UNCHANGED <<setup, options, staged, gateway, keyFile, codex, backups, served, missed, intact>>

(* docker run: a name that is taken is an error.                           *)
RunCore ==
    /\ step = "runs core" /\ core.is = "absent"
    /\ core' = StartedCore
    /\ step' = "runs gateway"
    /\ UNCHANGED <<setup, options, staged, gateway, keyFile, codex, backups, served, missed, intact>>

RunGateway ==
    /\ step = "runs gateway" /\ gateway.is = "absent"
    /\ gateway' = [is |-> "starting", config |-> 0]
    /\ step' = "waits"
    /\ UNCHANGED <<setup, options, staged, core, keyFile, codex, backups, served, missed, intact>>

Waited ==
    /\ step = "waits"
    /\ step' = "backs up"
    /\ UNCHANGED <<setup, options, staged, missed, intact, machine>>

(* wait_for_health: the gateway passes the question on to the core.        *)
Healthy ==
    /\ step = "waits" /\ core.is = "ready" /\ gateway.is = "ready"
    /\ step' = "backs up"
    /\ UNCHANGED <<setup, options, staged, missed, intact, machine>>

BackUpAnyway ==
    /\ step = "backs up"
    /\ backups' = backups \cup {codex}
    /\ step' = "installs"
    /\ UNCHANGED <<setup, options, staged, core, gateway, keyFile, codex, served, missed, intact>>

(* install_codex_config: a backup, and then one rename.                    *)
BackUp ==
    /\ step = "backs up"
    /\ backups' = IF codex.is = "file" THEN backups \cup {codex} ELSE backups
    /\ step' = "installs"
    /\ UNCHANGED <<setup, options, staged, core, gateway, keyFile, codex, served, missed, intact>>

InstallCodex ==
    /\ step = "installs"
    /\ codex' = [is |-> "file", own |-> codex.own \ {"defaults"}, key |-> setup]
    /\ step' = "idle" /\ intact' = setup
    /\ UNCHANGED <<setup, options, staged, core, gateway, keyFile, backups, served, missed>>
-----------------------------------------------------------------------------
(* The launcher of the core copies the mounted file before it starts       *)
(* Bifrost; the gateway loads it first.                                    *)
Reads ==
    /\ \/ core.is = "starting" /\ core' = [core EXCEPT !.is = "started", !.config = staged] /\ UNCHANGED gateway
       \/ gateway.is = "starting" /\ gateway' = [is |-> "started", config |-> staged] /\ UNCHANGED core
    /\ UNCHANGED <<step, setup, options, staged, keyFile, codex, backups, served, missed, intact>>

(* A container is up; the router answers once both are.                    *)
Boot ==
    /\ \/ core.is = "started" /\ core' = [core EXCEPT !.is = "ready"] /\ UNCHANGED gateway
       \/ gateway.is = "started" /\ gateway' = [gateway EXCEPT !.is = "ready"] /\ UNCHANGED core
    /\ served' = IF core'.is = "ready" /\ gateway'.is = "ready" THEN served \cup {core.key} ELSE served
    /\ UNCHANGED <<step, setup, options, staged, keyFile, codex, backups, missed, intact>>

Running == {"starting", "started", "ready"}

Stop ==
    /\ \/ core.is \in Running /\ core' = [core EXCEPT !.is = "stopped", !.config = 0] /\ UNCHANGED gateway
       \/ gateway.is \in Running /\ gateway' = [is |-> "stopped", config |-> 0] /\ UNCHANGED core
    /\ UNCHANGED <<step, setup, options, staged, keyFile, codex, backups, served, missed, intact>>

(* docker start: the same container, so the same key and the same mount.   *)
StartAgain ==
    /\ \/ core.is = "stopped" /\ core' = [core EXCEPT !.is = "starting"] /\ UNCHANGED gateway
       \/ gateway.is = "stopped" /\ gateway' = [gateway EXCEPT !.is = "starting"] /\ UNCHANGED core
    /\ UNCHANGED <<step, setup, options, staged, keyFile, codex, backups, served, missed, intact>>

UserRemoves ==
    /\ step = "idle"
    /\ \/ core' = NoCore /\ intact' = 0 /\ UNCHANGED gateway
       \/ gateway' = NoGateway /\ UNCHANGED <<core, intact>>
    /\ UNCHANGED <<step, setup, options, staged, keyFile, codex, backups, served, missed>>

UserEdits ==
    /\ step = "idle"
    /\ \E own \in SUBSET OwnLines : codex' = [codex EXCEPT !.is = "file", !.own = own]
    /\ UNCHANGED <<step, setup, options, staged, core, gateway, keyFile, backups, served, missed, intact>>

SetupNext ==
    \/ Begin \/ Exit \/ Stage \/ FindsNone \/ FindsOld \/ Decline \/ Remove \/ StoreKey
    \/ RunCore \/ RunGateway \/ Healthy \/ BackUp \/ InstallCodex
    \/ Reads \/ Boot \/ Stop \/ StartAgain \/ UserRemoves \/ UserEdits

SetupSpec == SetupInit /\ [][SetupNext]_setupVars
-----------------------------------------------------------------------------
CodexFile == [is : {"file"}, own : SUBSET OwnLines, key : Keys]

States == {"absent", "stopped"} \cup Running

(* Every variable has its type; a container that is not up has read        *)
(* nothing; only a configuration of Codex that exists is kept.             *)
SetupTypeOK ==
    /\ step \in {"idle", "asks", "looks", "removes", "pulls", "runs core", "runs gateway",
                 "waits", "backs up", "installs"}
    /\ setup \in Keys /\ staged \in Keys /\ keyFile \in Keys
    /\ options \subseteq {"replace", "terminal"}
    /\ core \in [is : States, key : Keys, config : Keys]
    /\ core.is = "absent" => core = NoCore
    /\ gateway \in [is : States, config : Keys]
    /\ core.config # 0 => core.is \in {"started", "ready"}
    /\ gateway.config # 0 => gateway.is \in {"started", "ready"}
    /\ codex \in {NoCodex} \cup CodexFile
    /\ backups \subseteq CodexFile
    /\ served \subseteq Keys /\ missed \subseteq Keys /\ intact \in Keys

(* An installation is given up when someone agrees to replace it, or the   *)
(* user removes its core, and only then: whatever later runs do, however   *)
(* they end, and whatever is stopped and started again, Codex and the core *)
(* keep one key.  The file kept for the user has that key too, unless a    *)
(* run did not see the containers there were (setup-local.sh:113).         *)
SetupKeepsKey ==
    intact # 0 =>
        /\ core.is # "absent" /\ core.key = intact /\ codex.key = intact
        /\ keyFile # intact => keyFile \in missed

(* "Setup cancelled; no changes were made" (setup-local.sh:107) is true of *)
(* a declined run as long as neither container starts again.  What holds   *)
(* is that neither runs a configuration older than that of the run that    *)
(* installed it; so both run the same, on which the two processes rely,    *)
(* until a later run gets past its first two questions.                    *)
SameConfiguration ==
    intact # 0 =>
        /\ core.config # 0 => core.config \in intact .. staged
        /\ gateway.config # 0 => gateway.config \in intact .. staged

(* The script changes Codex's configuration only to the key of a core that *)
(* has answered through the gateway, that the key file has, and only when  *)
(* what it replaces is in a backup.                                        *)
CodexChangedOnlyWhenServed ==
    [][step # "idle" /\ codex' # codex =>
          /\ codex'.key \in served /\ codex'.key = keyFile
          /\ codex.is = "file" => codex \in backups]_setupVars
=============================================================================
