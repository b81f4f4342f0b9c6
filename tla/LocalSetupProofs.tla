--------------------------- MODULE LocalSetupProofs ---------------------------
(***************************************************************************)
(* Proofs about LocalSetup, for any number of runs.                        *)
(***************************************************************************)
EXTENDS LocalSetup, TLAPS

(* The steps of a run after which it has done something for good.          *)
AfterStaging == {"looks", "removes", "pulls", "runs core", "runs gateway", "waits", "backs up", "installs"}

AfterLooking == AfterStaging \ {"looks"}

AfterKey == {"runs core", "runs gateway", "waits", "backs up", "installs"}

AfterCore == AfterKey \ {"runs core"}

AfterGateway == AfterCore \ {"runs gateway"}

AfterHealth == {"backs up", "installs"}

(* What a run relies on of its own earlier steps, and what it was shown by *)
(* a router that answered.  A run that goes on without having been told to *)
(* replace an installation has not seen it, and will find its core.        *)
RunInv ==
    /\ step # "idle" => setup # 0
    /\ staged <= setup /\ intact <= staged
    /\ step \in AfterStaging => staged = setup
    /\ step \in AfterLooking /\ intact # 0 => step \in {"pulls", "runs core"} /\ setup \in missed
    /\ step = "removes" => intact = 0
    /\ step \in AfterKey => keyFile = setup
    /\ step \in AfterCore => core.is # "absent" /\ core.key = setup
    /\ step \in AfterCore => core.config \in {0, setup}
    /\ step \in AfterGateway => gateway.config \in {0, setup}
    /\ core.is = "ready" /\ gateway.is = "ready" => core.key \in served
    /\ step \in AfterHealth => setup \in served
    /\ step = "installs" /\ codex.is = "file" => codex \in backups

SetupInv == SetupTypeOK /\ RunInv /\ SetupKeepsKey /\ SameConfiguration
-----------------------------------------------------------------------------
LEMMA SetupInitially == SetupInit => SetupInv
BY SetupConstants
DEF SetupInit, SetupInv, SetupTypeOK, RunInv, SetupKeepsKey, SameConfiguration, NoCore, NoGateway,
    NoCodex, CodexFile, Keys, States, Running, AfterStaging, AfterLooking, AfterKey, AfterCore,
    AfterGateway, AfterHealth, OwnLines

LEMMA NoFile == \A c \in {NoCodex} \cup CodexFile : c.is = "file" => c \in CodexFile
BY DEF NoCodex

LEMMA ZeroIsKey == 0 \in Keys
BY SetupConstants DEF Keys

LEMMA SetupNumbers ==
    ASSUME SetupTypeOK
    PROVE  /\ setup \in Nat /\ staged \in Nat /\ intact \in Nat
           /\ core.config \in Nat /\ gateway.config \in Nat
<1>1. \A k \in Keys : k \in Nat
  BY SetupConstants DEF Keys
<1>2. setup \in Keys /\ staged \in Keys /\ intact \in Keys /\ core.config \in Keys /\ gateway.config \in Keys
  BY DEF SetupTypeOK
<1> QED
  BY <1>1, <1>2

(* What a container has read is what is staged at the moment, or nothing;  *)
(* its key stays.                                                          *)
LEMMA ContainerStep ==
    ASSUME SetupTypeOK, Reads \/ Boot \/ Stop \/ StartAgain
    PROVE  /\ core' \in [is : States, key : Keys, config : Keys]
           /\ gateway' \in [is : States, config : Keys]
           /\ core'.key = core.key /\ core'.config \in {0, core.config, staged}
           /\ gateway'.config \in {0, gateway.config, staged}
           /\ core'.is = "absent" <=> core.is = "absent"
           /\ core'.is = "absent" => core' = core
           /\ core'.config # 0 => core'.is \in {"started", "ready"}
           /\ gateway'.config # 0 => gateway'.is \in {"started", "ready"}
           /\ core'.is = "ready" /\ gateway'.is = "ready" => Boot \/ (core.is = "ready" /\ gateway.is = "ready")
           /\ UNCHANGED <<step, setup, options, staged, keyFile, codex, backups, missed, intact>>
<1>a. /\ core \in [is : States, key : Keys, config : Keys]
      /\ gateway \in [is : States, config : Keys]
      /\ staged \in Keys /\ 0 \in Keys
      /\ core.config # 0 => core.is \in {"started", "ready"}
      /\ gateway.config # 0 => gateway.is \in {"started", "ready"}
  BY ZeroIsKey DEF SetupTypeOK
<1> USE DEF States, Running
<1>1. CASE Reads
  <2>0. UNCHANGED <<step, setup, options, staged, keyFile, codex, backups, missed, intact>>
    BY <1>1 DEF Reads
  <2>1. CASE core.is = "starting" /\ core' = [core EXCEPT !.is = "started", !.config = staged] /\ UNCHANGED gateway
    BY <1>a, <2>0, <2>1
  <2>2. CASE gateway.is = "starting" /\ gateway' = [is |-> "started", config |-> staged] /\ UNCHANGED core
    BY <1>a, <2>0, <2>2
  <2> QED
    BY <1>1, <2>1, <2>2 DEF Reads
<1>2. CASE Boot
  <2>0. UNCHANGED <<step, setup, options, staged, keyFile, codex, backups, missed, intact>>
    BY <1>2 DEF Boot
  <2>1. CASE core.is = "started" /\ core' = [core EXCEPT !.is = "ready"] /\ UNCHANGED gateway
    BY <1>a, <1>2, <2>0, <2>1
  <2>2. CASE gateway.is = "started" /\ gateway' = [gateway EXCEPT !.is = "ready"] /\ UNCHANGED core
    BY <1>a, <1>2, <2>0, <2>2
  <2> QED
    BY <1>2, <2>1, <2>2 DEF Boot
<1>3. CASE Stop
  <2>0. UNCHANGED <<step, setup, options, staged, keyFile, codex, backups, missed, intact>>
    BY <1>3 DEF Stop
  <2>1. CASE core.is \in Running /\ core' = [core EXCEPT !.is = "stopped", !.config = 0] /\ UNCHANGED gateway
    BY <1>a, <2>0, <2>1
  <2>2. CASE gateway.is \in Running /\ gateway' = [is |-> "stopped", config |-> 0] /\ UNCHANGED core
    BY <1>a, <2>0, <2>2
  <2> QED
    BY <1>3, <2>1, <2>2 DEF Stop
<1>4. CASE StartAgain
  <2>0. UNCHANGED <<step, setup, options, staged, keyFile, codex, backups, missed, intact>>
    BY <1>4 DEF StartAgain
  <2>1. CASE core.is = "stopped" /\ core' = [core EXCEPT !.is = "starting"] /\ UNCHANGED gateway
    BY <1>a, <2>0, <2>1
  <2>2. CASE gateway.is = "stopped" /\ gateway' = [gateway EXCEPT !.is = "starting"] /\ UNCHANGED core
    BY <1>a, <2>0, <2>2
  <2> QED
    BY <1>4, <2>1, <2>2 DEF StartAgain
<1> QED
  BY <1>1, <1>2, <1>3, <1>4

(* Only a boot makes a router that answers, and it is noted.               *)
LEMMA ServedStep ==
    ASSUME SetupTypeOK, RunInv, Reads \/ Boot \/ Stop \/ StartAgain
    PROVE  /\ served \subseteq served' /\ served' \subseteq Keys
           /\ core'.is = "ready" /\ gateway'.is = "ready" => core.key \in served'
<1>1. served \subseteq Keys /\ core.key \in Keys
  BY DEF SetupTypeOK
<1>2. CASE Boot
  BY <1>1, <1>2 DEF Boot
<1>3. CASE ~Boot
  <2>1. served' = served
    BY <1>3 DEF Reads, Stop, StartAgain
  <2>2. core'.is = "ready" /\ gateway'.is = "ready" => core.is = "ready" /\ gateway.is = "ready"
    BY <1>3, ContainerStep
  <2> QED
    BY <1>1, <2>1, <2>2 DEF RunInv
<1> QED
  BY <1>2, <1>3

LEMMA SetupTypeStep ==
    ASSUME SetupTypeOK, RunInv, SetupNext
    PROVE  SetupTypeOK'
<1> USE SetupConstants DEF SetupTypeOK, Keys, NoCore, NoGateway, States, Running
<1>1. CASE Begin
  BY <1>1 DEF Begin, machine
<1>2. CASE Exit \/ Stage \/ FindsNone \/ FindsOld \/ Decline \/ Healthy
  <2>1. CASE Exit
    BY <2>1 DEF Exit, machine
  <2>2. CASE Stage
    BY <2>2 DEF Stage, machine
  <2>3. CASE FindsNone
    BY <2>3 DEF FindsNone, machine
  <2>6. CASE FindsOld
    BY <2>6 DEF FindsOld, machine
  <2>4. CASE Decline
    BY <2>4 DEF Decline, machine
  <2>5. CASE Healthy
    BY <2>5 DEF Healthy, machine
  <2> QED
    BY <1>2, <2>1, <2>2, <2>3, <2>4, <2>5, <2>6
<1>3. CASE Remove
  BY <1>3 DEF Remove
<1>4. CASE StoreKey
  BY <1>4 DEF StoreKey
<1>5. CASE RunCore
  BY <1>5 DEF RunCore, StartedCore
<1>6. CASE RunGateway
  BY <1>6 DEF RunGateway
<1>7. CASE BackUp
  <2>1. codex.is = "file" => codex \in CodexFile
    BY NoFile DEF SetupTypeOK
  <2>2. backups' \subseteq CodexFile
    BY <1>7, <2>1 DEF BackUp
  <2>3. step' = "installs" /\ UNCHANGED <<setup, options, staged, core, gateway, keyFile, codex, served, missed, intact>>
    BY <1>7 DEF BackUp
  <2> QED
    BY <2>2, <2>3
<1>8. CASE InstallCodex
  BY <1>8 DEF InstallCodex, NoCodex, CodexFile
<1>9. CASE Reads \/ Boot \/ Stop \/ StartAgain
  <2> HIDE DEF Keys, States, Running
  <2>1. served' \subseteq Keys
    BY <1>9, ServedStep
  <2> QED
    BY <1>9, <2>1, ContainerStep
<1>10. CASE UserRemoves
  BY <1>10 DEF UserRemoves
<1>11. CASE UserEdits
  <2>1. codex' \in CodexFile
    <3>1. PICK own \in SUBSET OwnLines : codex' = [codex EXCEPT !.is = "file", !.own = own]
      BY <1>11 DEF UserEdits
    <3>2. CASE codex = NoCodex
      <4>1. codex' \in [is : {"file"}, own : SUBSET OwnLines, key : {0}]
        BY <3>1, <3>2 DEF NoCodex
      <4> QED
        BY <4>1, ZeroIsKey DEF CodexFile
    <3>3. CASE codex \in CodexFile
      BY <3>1, <3>3 DEF CodexFile
    <3> QED
      BY <3>2, <3>3
  <2>2. UNCHANGED <<step, setup, options, staged, core, gateway, keyFile, backups, served, missed, intact>>
    BY <1>11 DEF UserEdits
  <2> QED
    BY <2>1, <2>2
<1> QED
  BY <1>1, <1>2, <1>3, <1>4, <1>5, <1>6, <1>7, <1>8, <1>9, <1>10, <1>11
  DEF SetupNext

LEMMA RunStep ==
    ASSUME SetupTypeOK, RunInv, SetupKeepsKey, SetupNext
    PROVE  RunInv'
<1> USE SetupConstants DEF RunInv, AfterStaging, AfterLooking, AfterKey, AfterCore, AfterGateway, AfterHealth
<1>t. setup \in Nat /\ staged \in Nat /\ intact \in Nat
  BY SetupNumbers
<1>1. CASE Begin
  BY <1>t, <1>1 DEF Begin, machine
<1>2. CASE Exit \/ Decline
  BY <1>t, <1>2 DEF Exit, Decline, machine
<1>14. CASE FindsOld
  BY <1>t, <1>14 DEF FindsOld, machine
<1>13. CASE Stage
  BY <1>t, <1>13 DEF Stage, machine
(* Where there is something to keep there is a core, which was not seen.   *)
<1>3. CASE FindsNone
  BY <1>t, <1>3 DEF FindsNone, machine, SeesContainer, SetupKeepsKey
<1>4. CASE Remove
  BY <1>t, <1>4 DEF Remove, SetupTypeOK, NoCore, NoGateway
<1>5. CASE StoreKey
  BY <1>t, <1>5 DEF StoreKey
(* The name was free, so nothing was there to keep.                        *)
<1>6. CASE RunCore
  BY <1>t, <1>6 DEF RunCore, StartedCore, SetupKeepsKey
<1>7. CASE RunGateway
  BY <1>t, <1>7 DEF RunGateway
(* The core that answers is the one this run has started.                  *)
<1>8. CASE Healthy
  BY <1>t, <1>8 DEF Healthy, machine
<1>9. CASE BackUp \/ InstallCodex
  BY <1>t, <1>9 DEF BackUp, InstallCodex
<1>10. CASE Reads \/ Boot \/ Stop \/ StartAgain
  BY <1>t, <1>10, ServedStep, ContainerStep
<1>11. CASE UserRemoves
  BY <1>t, <1>11 DEF UserRemoves, NoCore, NoGateway
<1>12. CASE UserEdits
  BY <1>t, <1>12 DEF UserEdits
<1> QED
  BY <1>1, <1>2, <1>13, <1>3, <1>4, <1>5, <1>6, <1>7, <1>8, <1>9, <1>10, <1>11, <1>12, <1>14 DEF SetupNext

LEMMA KeyStep ==
    ASSUME SetupInv, SetupNext
    PROVE  SetupKeepsKey'
<1> USE DEF SetupInv, SetupKeepsKey, RunInv, AfterLooking, AfterStaging, AfterKey, AfterCore
<1>1. CASE Begin \/ Exit \/ Stage \/ Decline \/ Healthy
  <2>1. UNCHANGED <<core, codex, keyFile, missed, intact>>
    BY <1>1 DEF Begin, Exit, Stage, Decline, Healthy, machine
  <2> QED
    BY <2>1
<1>10. CASE FindsNone
  BY <1>10 DEF FindsNone, machine
<1>11. CASE FindsOld
  BY <1>11 DEF FindsOld
(* A run that removes containers was told to.                              *)
<1>2. CASE Remove
  BY <1>2 DEF Remove
(* A run that was not told to replace anything has not seen it.            *)
<1>3. CASE StoreKey
  BY <1>3 DEF StoreKey
(* Its docker run finds the name taken.                                    *)
<1>4. CASE RunCore
  BY <1>4 DEF RunCore
<1>5. CASE RunGateway \/ BackUp
  BY <1>5 DEF RunGateway, BackUp
<1>6. CASE InstallCodex
  BY <1>6 DEF InstallCodex
<1>7. CASE Reads \/ Boot \/ Stop \/ StartAgain
  <2>1. /\ core'.key = core.key /\ (core'.is = "absent" <=> core.is = "absent")
        /\ UNCHANGED <<codex, keyFile, missed, intact>>
    BY <1>7, ContainerStep
  <2> QED
    BY <2>1
<1>8. CASE UserRemoves
  BY <1>8 DEF UserRemoves
<1>9. CASE UserEdits
  BY <1>9 DEF UserEdits, SetupTypeOK, NoCodex, CodexFile
<1> QED
  BY <1>1, <1>2, <1>3, <1>4, <1>5, <1>6, <1>7, <1>8, <1>9, <1>10, <1>11 DEF SetupNext

LEMMA ConfigurationStep ==
    ASSUME SetupInv, SetupNext
    PROVE  SameConfiguration'
<1> USE DEF SetupInv, SameConfiguration, RunInv, AfterLooking, AfterStaging, AfterKey, AfterCore,
            AfterGateway, AfterHealth
<1>t. /\ setup \in Nat /\ staged \in Nat /\ intact \in Nat
      /\ core.config \in Nat /\ gateway.config \in Nat
  BY SetupNumbers
<1>1. CASE Begin \/ Exit \/ FindsNone \/ Decline \/ Healthy \/ StoreKey \/ BackUp
  BY <1>1 DEF Begin, Exit, FindsNone, Decline, Healthy, StoreKey, BackUp, machine
<1>8. CASE FindsOld
  BY <1>8 DEF FindsOld
(* What is staged is only ever followed by a later run's.                  *)
<1>2. CASE Stage
  BY <1>t, <1>2 DEF Stage, machine
<1>3. CASE Remove
  BY <1>3 DEF Remove, NoCore, NoGateway
<1>9. CASE RunCore
  BY <1>9 DEF RunCore, StartedCore
<1>10. CASE RunGateway
  BY <1>10 DEF RunGateway
(* Both containers were started by this run, after it had staged.          *)
<1>4. CASE InstallCodex
  BY <1>t, <1>4 DEF InstallCodex
<1>5. CASE Reads \/ Boot \/ Stop \/ StartAgain
  <2>1. /\ core'.config \in {0, core.config, staged} /\ gateway'.config \in {0, gateway.config, staged}
        /\ UNCHANGED <<staged, intact>>
    BY <1>5, ContainerStep
  <2>2. intact # 0 =>
           /\ intact <= staged
           /\ core.config # 0 => core.config \in intact .. staged
           /\ gateway.config # 0 => gateway.config \in intact .. staged
    OBVIOUS
  <2> HIDE DEF SetupInv, RunInv
  <2> QED
    BY <1>t, <2>1, <2>2
<1>6. CASE UserRemoves
  BY <1>6 DEF UserRemoves, NoCore, NoGateway
<1>7. CASE UserEdits
  BY <1>7 DEF UserEdits
<1> QED
  BY <1>1, <1>2, <1>3, <1>4, <1>5, <1>6, <1>7, <1>8, <1>9, <1>10 DEF SetupNext

LEMMA SetupUnchanged == SetupInv /\ UNCHANGED setupVars => SetupInv'
<1> SUFFICES ASSUME SetupInv, UNCHANGED setupVars PROVE SetupInv'
  OBVIOUS
<1>1. RunInv'
  BY DEF SetupInv, RunInv, setupVars, AfterStaging, AfterLooking, AfterKey, AfterCore, AfterGateway,
         AfterHealth
<1>2. SetupKeepsKey' /\ SameConfiguration'
  BY DEF SetupInv, SetupKeepsKey, SameConfiguration, setupVars
<1>3. SetupTypeOK'
  BY DEF SetupInv, SetupTypeOK, setupVars, NoCore, NoGateway, NoCodex, CodexFile, Keys
<1> QED
  BY <1>1, <1>2, <1>3 DEF SetupInv

(* The conjunction is inductive.                                           *)
THEOREM SetupInvariant == SetupSpec => []SetupInv
<1>1. SetupInit => SetupInv
  BY SetupInitially
<1>2. SetupInv /\ [SetupNext]_setupVars => SetupInv'
  BY SetupTypeStep, RunStep, KeyStep, ConfigurationStep, SetupUnchanged DEF SetupInv
<1> QED
  BY <1>1, <1>2, PTL DEF SetupSpec

(* Every variable has its type, however often the script is run.           *)
THEOREM SetupTypes == SetupSpec => []SetupTypeOK
<1>1. SetupInv => SetupTypeOK
  BY DEF SetupInv
<1> QED
  BY <1>1, SetupInvariant, PTL

(* setup-local.sh: through any runs, restarts and failures nobody agreed   *)
(* to, Codex, the core and, as long as containers are seen where they are, *)
(* the key file keep the key of the setup that ended well.                 *)
THEOREM SetupKeyKept == SetupSpec => []SetupKeepsKey
<1>1. SetupInv => SetupKeepsKey
  BY DEF SetupInv
<1> QED
  BY <1>1, SetupInvariant, PTL

(* Neither container ever runs a configuration older than that of the run  *)
(* that installed it, so both run that one until another is staged.        *)
THEOREM SetupConfiguration ==
    SetupSpec => [](/\ SameConfiguration
                    /\ intact # 0 /\ staged = intact =>
                          core.config \in {0, intact} /\ gateway.config \in {0, intact})
<1>1. SetupInv => /\ SameConfiguration
                  /\ intact # 0 /\ staged = intact =>
                        core.config \in {0, intact} /\ gateway.config \in {0, intact}
  BY SetupNumbers DEF SetupInv, SameConfiguration
<1> QED
  BY <1>1, SetupInvariant, PTL

(* Only two actions write Codex's configuration, and the user's is taken   *)
(* between runs.                                                           *)
LEMMA CodexStep ==
    ASSUME SetupInv, SetupNext, step # "idle", codex' # codex
    PROVE  /\ codex'.key \in served /\ codex'.key = keyFile
           /\ codex.is = "file" => codex \in backups
<1>1. InstallCodex
  BY DEF SetupNext, Begin, Exit, Stage, FindsNone, FindsOld, Decline, Remove, StoreKey, RunCore,
         RunGateway, Healthy, BackUp, Reads, Boot, Stop, StartAgain, UserRemoves, UserEdits, machine
<1> QED
  BY <1>1 DEF InstallCodex, SetupInv, RunInv, AfterHealth, AfterKey

(* install_codex_config comes after the router has answered with the key   *)
(* it writes, and after the backup.                                        *)
THEOREM CodexServed == SetupSpec => CodexChangedOnlyWhenServed
<1>1. SetupInv /\ [SetupNext]_setupVars =>
          [step # "idle" /\ codex' # codex =>
              /\ codex'.key \in served /\ codex'.key = keyFile
              /\ codex.is = "file" => codex \in backups]_setupVars
  BY CodexStep DEF setupVars
<1> QED
  BY <1>1, SetupInvariant, PTL DEF SetupSpec, CodexChangedOnlyWhenServed
=============================================================================
