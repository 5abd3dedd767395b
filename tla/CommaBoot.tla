----------------------------- MODULE CommaBoot -----------------------------
(***************************************************************************)
(* The supervisor that init starts on an EON when Android has booted:      *)
(* ramdisk_common/comma.sh.  It makes the device's key pair, gives sshd a  *)
(* setup key as long as nothing is installed, asks the setup app for an    *)
(* installer, runs it, and hands over to the continue.sh it has left.      *)
(*                                                                         *)
(* Everything the script decides it decides on the existence of files, and *)
(* the power may go at any moment.  A file system remembers, besides what  *)
(* programs see, every state since the last sync: a power loss leaves one  *)
(* of them, in the order the changes were made, and of a file written      *)
(* since then the content may be torn.  The setup app, the installer,      *)
(* continue.sh and the user are not part of the repository.                *)
(***************************************************************************)
EXTENDS Integers

CONSTANTS
    MaxBoots,   \* bound: times the device is switched on
    MaxFaults   \* bound: commands, downloads or installers that fail

ASSUME BoundsAssumption == MaxBoots \in Nat \ {0} /\ MaxFaults \in Nat

VARIABLES
    pc,         \* the command of comma.sh that comes next
    runonce,    \* /runonce, gone with the power
    again,      \* has the script been started once more?
    persist,    \* /persist/comma: the key pair, and what is not yet synced
    persistLog, \* its states since the last sync
    data,       \* /data: the ssh keys and continue.sh
    dataLog,    \* its states since the last sync
    installer,  \* the file the setup app leaves
    app,        \* has the setup app been asked for it?
    boot,       \* history: times the device was switched on
    faults,     \* history: failures
    installed,  \* history: continue.sh is from an installer that succeeded
    doubtful,   \* history: a power loss left one that is not
    broken,     \* history: a command that makes the key pair has failed
    execs,      \* history: hand-overs since the device was switched on
    seen        \* history: the public key that was handed over first

fileVars == <<persist, persistLog, data, dataLog>>
setupVars == <<installer, app>>
onceVars == <<runonce, again>>
histories == <<boot, faults, installed, doubtful, broken, execs, seen>>
vars == <<pc, onceVars, fileVars, setupVars, histories>>

(* A key is named by the boot that made it.                                *)
NoFile == 0
TornFile == -1

Init ==
    /\ pc = "boot" /\ runonce = FALSE /\ again = FALSE
    /\ persist = [tmp |-> NoFile, tmpPub |-> NoFile, key |-> NoFile,
                  pub |-> NoFile, readable |-> FALSE, dirty |-> {}]
    /\ persistLog = {persist}
    /\ data = [params |-> FALSE, keys |-> "none", cont |-> "none",
               dirty |-> {}]
    /\ dataLog = {data}
    /\ installer = "none" /\ app = "idle"
    /\ boot = 1 /\ faults = 0
    /\ installed = FALSE /\ doubtful = FALSE /\ broken = FALSE
    /\ execs = 0 /\ seen = NoFile

-----------------------------------------------------------------------------
(* What commands do to the file systems.                                   *)
OnPersist(p) ==
    /\ persist' = p /\ persistLog' = persistLog \cup {p}
    /\ UNCHANGED <<data, dataLog>>

OnData(d) ==
    /\ data' = d /\ dataLog' = dataLog \cup {d}
    /\ UNCHANGED <<persist, persistLog>>

Sync ==
    /\ persist' = [persist EXCEPT !.dirty = {}] /\ persistLog' = {persist'}
    /\ data' = [data EXCEPT !.dirty = {}] /\ dataLog' = {data'}

(* What a power loss may leave of a state that was on its way to the disk: *)
(* files whose content was not synced are torn.                            *)
TornPersist(p) ==
    {[p EXCEPT !.tmp = IF "tmp" \in lost THEN TornFile ELSE @,
               !.tmpPub = IF "tmpPub" \in lost THEN TornFile ELSE @,
               !.key = IF "key" \in lost THEN TornFile ELSE @,
               !.pub = IF "pub" \in lost THEN TornFile ELSE @,
               !.dirty = {}] : lost \in SUBSET p.dirty}

TornData(d) ==
    {[d EXCEPT !.keys = IF "keys" \in lost THEN "torn" ELSE @,
               !.cont = IF "cont" \in lost THEN "torn" ELSE @,
               !.dirty = {}] : lost \in SUBSET d.dirty}

GoTo(next) == pc' = next /\ UNCHANGED <<onceVars, setupVars, histories>>

-----------------------------------------------------------------------------
(* Lines 1 to 62.  mkdir is the test and the mark in one: of two scripts   *)
(* in front of it the one that makes the directory goes on as pc.          *)
runs_once ==
    /\ pc = "boot" /\ ~runonce
    /\ runonce' = TRUE
    /\ pc' = IF persist.pub = NoFile THEN "genrsa" ELSE "setup_keys"
    /\ UNCHANGED <<again, fileVars, setupVars, histories>>

(* Mutant: the directory is made without looking at the outcome.           *)
ran_before_too ==
    /\ again /\ runonce
    /\ again' = FALSE
    /\ pc' = IF persist.pub = NoFile THEN "genrsa" ELSE "setup_keys"
    /\ UNCHANGED <<runonce, fileVars, setupVars, histories>>

(* The script that finds the directory ends, wherever the first one is.    *)
ran_before ==
    /\ again /\ runonce
    /\ again' = FALSE
    /\ UNCHANGED <<pc, runonce, fileVars, setupVars, histories>>

(* Lines 64 to 75: a chain of commands that stops at the first failure.    *)
genrsa ==
    /\ pc = "genrsa" /\ GoTo("pubout")
    /\ OnPersist([persist EXCEPT !.tmp = boot, !.dirty = @ \cup {"tmp"}])

pubout ==
    /\ pc = "pubout" /\ GoTo("sync")
    /\ OnPersist([persist EXCEPT !.tmpPub = persist.tmp,
                                 !.dirty = @ \cup {"tmpPub"}])

(* Mutant: the files are renamed without a sync.                           *)
sync_keys_not ==
    /\ pc = "sync" /\ GoTo("mv_key")
    /\ UNCHANGED fileVars

sync_keys == pc = "sync" /\ GoTo("mv_key") /\ Sync

Moved(from, to) ==
    IF from \in persist.dirty THEN (persist.dirty \ {from}) \cup {to}
                              ELSE persist.dirty \ {to}

mv_key ==
    /\ pc = "mv_key" /\ GoTo("mv_pub")
    /\ OnPersist([persist EXCEPT !.key = persist.tmp, !.tmp = NoFile,
                                 !.readable = FALSE,
                                 !.dirty = Moved("tmp", "key")])

mv_pub ==
    /\ pc = "mv_pub" /\ GoTo("chmod")
    /\ OnPersist([persist EXCEPT !.pub = persist.tmpPub, !.tmpPub = NoFile,
                                 !.dirty = Moved("tmpPub", "pub")])

chmod_key ==
    /\ pc = "chmod" /\ GoTo("sync_pair")
    /\ OnPersist([persist EXCEPT !.readable = TRUE])

(* Mutant: the last sync of the chain is missing.                          *)
sync_pair_not ==
    /\ pc = "sync_pair" /\ GoTo("setup_keys")
    /\ UNCHANGED fileVars

sync_pair == pc = "sync_pair" /\ GoTo("setup_keys") /\ Sync

Chain == {"genrsa", "pubout", "sync", "mv_key", "mv_pub", "chmod",
          "sync_pair"}

(* What a command of the chain leaves behind when it fails.                *)
LeftByChain ==
    CASE pc = "genrsa" ->
            OnPersist([persist EXCEPT !.tmp = TornFile,
                                      !.dirty = @ \cup {"tmp"}])
      [] pc = "pubout" ->
            OnPersist([persist EXCEPT !.tmpPub = TornFile,
                                      !.dirty = @ \cup {"tmpPub"}])
      [] OTHER -> UNCHANGED fileVars

(* Mutant: the commands are separated by ; instead of && .                 *)
chain_fails_on ==
    /\ faults < MaxFaults /\ faults' = faults + 1
    /\ pc \in Chain /\ LeftByChain
    /\ pc' = CASE pc = "genrsa" -> "pubout" [] pc = "pubout" -> "sync"
               [] OTHER -> "setup_keys"
    /\ broken' = TRUE
    /\ UNCHANGED <<onceVars, setupVars, boot, installed, doubtful, execs,
                   seen>>

chain_fails ==
    /\ faults < MaxFaults /\ faults' = faults + 1
    /\ pc \in Chain /\ LeftByChain
    /\ pc' = "setup_keys"
    /\ broken' = TRUE
    /\ UNCHANGED <<onceVars, setupVars, boot, installed, doubtful, execs,
                   seen>>

-----------------------------------------------------------------------------
(* handle_setup_keys.                                                      *)
make_params ==
    /\ pc = "setup_keys" /\ data.keys = "none" /\ data.cont = "none"
    /\ GoTo("cp")
    /\ OnData([data EXCEPT !.params = TRUE])

copy_setup_keys ==
    /\ pc = "cp" /\ GoTo("test")
    /\ OnData([data EXCEPT !.keys = "setup", !.dirty = @ \cup {"keys"}])

copy_fails ==
    /\ pc = "cp" /\ pc' = "test"
    /\ faults < MaxFaults /\ faults' = faults + 1
    /\ \/ OnData([data EXCEPT !.keys = "torn", !.dirty = @ \cup {"keys"}])
       \/ UNCHANGED fileVars
    /\ UNCHANGED <<onceVars, setupVars, boot, installed, doubtful, broken,
                   execs, seen>>

(* Mutant: the keys are removed without a comparison.                      *)
clear_setup_keys_all ==
    /\ pc = "setup_keys" /\ data.keys # "none" /\ data.cont # "none"
    /\ GoTo("test")
    /\ OnData([data EXCEPT !.keys = "none", !.dirty = @ \ {"keys"}])

clear_setup_keys ==
    /\ pc = "setup_keys" /\ data.keys # "none" /\ data.cont # "none"
    /\ GoTo("test")
    /\ IF data.keys = "setup"
       THEN OnData([data EXCEPT !.keys = "none", !.dirty = @ \ {"keys"}])
       ELSE UNCHANGED fileVars

leave_keys ==
    /\ pc = "setup_keys" /\ (data.keys = "none") # (data.cont = "none")
    /\ GoTo("test")
    /\ UNCHANGED fileVars

-----------------------------------------------------------------------------
(* Lines 79 to 100.                                                        *)
exec_continue ==
    /\ pc = "test" /\ data.cont # "none"
    /\ pc' = "continue"
    /\ execs' = execs + 1
    /\ seen' = IF seen = NoFile THEN persist.pub ELSE seen
    /\ UNCHANGED <<onceVars, fileVars, setupVars, boot, faults, installed,
                   doubtful, broken>>

(* Mutant: the old installer is removed after the app was asked.           *)
ask_for_installer_late ==
    /\ \/ /\ pc = "test" /\ data.cont = "none" /\ pc' = "am_start"
          /\ app' = "asked" /\ UNCHANGED installer
       \/ /\ pc = "am_start" /\ pc' = "wait"
          /\ installer' = "none" /\ UNCHANGED app
    /\ UNCHANGED <<onceVars, fileVars, histories>>

ask_for_installer ==
    /\ \/ /\ pc = "test" /\ data.cont = "none" /\ pc' = "am_start"
          /\ installer' = "none" /\ UNCHANGED app
       \/ /\ pc = "am_start" /\ pc' = "wait"
          /\ app' = "asked" /\ UNCHANGED installer
    /\ UNCHANGED <<onceVars, fileVars, histories>>

(* am start fails unnoticed: the script waits for a file that nobody has   *)
(* been asked for.                                                         *)
asking_fails ==
    /\ pc = "am_start" /\ pc' = "wait"
    /\ faults < MaxFaults /\ faults' = faults + 1
    /\ app' = "unasked"
    /\ UNCHANGED <<onceVars, fileVars, installer, boot, installed, doubtful,
                   broken, execs, seen>>

wait_for_installer ==
    /\ pc = "wait" /\ installer = "none"
    /\ UNCHANGED vars

run_installer ==
    /\ pc = "wait" /\ installer # "none"
    /\ GoTo("installing")
    /\ UNCHANGED fileVars

(* Mutant: the loop goes on behind handle_setup_keys.                      *)
installer_ended_behind ==
    /\ pc = "succeeded" /\ GoTo("test") /\ UNCHANGED fileVars

installer_ended ==
    /\ pc = "succeeded" /\ GoTo("setup_keys") /\ UNCHANGED fileVars

(* Mutant: what a failed installer has left is kept.                       *)
installer_failed_kept ==
    /\ pc = "failed" /\ GoTo("setup_keys") /\ UNCHANGED fileVars

installer_failed ==
    /\ pc = "failed" /\ GoTo("setup_keys")
    /\ OnData([data EXCEPT !.cont = "none", !.dirty = @ \ {"cont"}])

Supervisor ==
    \/ runs_once
    \/ genrsa \/ pubout \/ sync_keys \/ mv_key \/ mv_pub \/ chmod_key
    \/ sync_pair
    \/ make_params \/ copy_setup_keys \/ clear_setup_keys \/ leave_keys
    \/ exec_continue \/ ask_for_installer
    \/ wait_for_installer \/ run_installer \/ installer_ended
    \/ installer_failed

-----------------------------------------------------------------------------
(* The world around it.  Asked once, the app leaves one installer; a file  *)
(* that is not whole counts as a failure.                                  *)
AppLeaves(file) ==
    /\ app = "asked" /\ app' = "idle"
    /\ installer' = file
    /\ UNCHANGED <<pc, onceVars, fileVars, histories>>

AppWrites == AppLeaves("whole")

AppIsCut ==
    /\ faults < MaxFaults /\ faults' = faults + 1
    /\ app = "asked" /\ app' = "idle"
    /\ installer' = "torn"
    /\ UNCHANGED <<pc, onceVars, fileVars, boot, installed, doubtful, broken,
                   execs, seen>>

InstallerWrites ==
    /\ pc = "installing" /\ installer # "torn" /\ data.cont = "none"
    /\ OnData([data EXCEPT !.cont = "whole", !.dirty = @ \cup {"cont"}])
    /\ UNCHANGED <<pc, onceVars, setupVars, histories>>

InstallerSucceeds ==
    /\ pc = "installing" /\ data.cont # "none"
    /\ pc' = "succeeded" /\ installer' = "old" /\ installed' = TRUE
    /\ UNCHANGED <<onceVars, fileVars, app, boot, faults, doubtful, broken,
                   execs, seen>>

(* It fails, or does not even start, or ends well without a continue.sh.   *)
InstallerFails ==
    /\ pc = "installing" /\ installer' = "old"
    /\ \/ /\ installer = "torn"
          /\ pc' = "failed" /\ UNCHANGED faults
       \/ /\ faults < MaxFaults /\ faults' = faults + 1
          /\ pc' \in {"failed"} \cup
                (IF data.cont = "none" THEN {"succeeded"} ELSE {})
    /\ UNCHANGED <<onceVars, fileVars, app, boot, installed, doubtful, broken,
                   execs, seen>>

(* While continue.sh runs: the user's own keys, a removal of the software  *)
(* with a reboot, its end, and a restart of Android.                       *)
UserKeys ==
    /\ pc = "continue" /\ data.keys # "user"
    /\ OnData([data EXCEPT !.params = TRUE, !.keys = "user",
                           !.dirty = @ \ {"keys"}])
    /\ UNCHANGED <<pc, onceVars, setupVars, histories>>

SwitchedOn ==
    /\ boot < MaxBoots /\ boot' = boot + 1
    /\ pc' = "boot" /\ runonce' = FALSE /\ again' = FALSE
    /\ app' = "idle"
    /\ installer' = IF installer = "none" THEN "none" ELSE "old"
    /\ execs' = 0
    /\ UNCHANGED <<faults, broken, seen>>

Uninstall ==
    /\ pc = "continue" /\ SwitchedOn
    /\ persist' = [persist EXCEPT !.dirty = {}] /\ persistLog' = {persist'}
    /\ data' = [data EXCEPT !.cont = "none", !.dirty = {}]
    /\ dataLog' = {data'}
    /\ installed' = FALSE /\ UNCHANGED doubtful

ContinueEnds ==
    /\ pc = "continue" /\ pc' = "ended"
    /\ UNCHANGED <<onceVars, fileVars, setupVars, histories>>

(* init starts the service again when Android has come up again, whatever  *)
(* has become of the script it started before.                             *)
ZygoteRestarts ==
    /\ ~again /\ again' = TRUE
    /\ UNCHANGED <<pc, runonce, fileVars, setupVars, histories>>

PowerLoss ==
    /\ SwitchedOn
    /\ \E p \in persistLog : persist' \in TornPersist(p)
    /\ \E d \in dataLog : data' \in TornData(d)
    /\ persistLog' = {persist'} /\ dataLog' = {data'}
    /\ installed' = (installed /\ data'.cont # "none")
    /\ doubtful' = (doubtful \/ (data'.cont # "none" /\ ~installed))

Failures ==
    chain_fails \/ copy_fails \/ asking_fails \/ AppIsCut \/ InstallerFails
User == UserKeys \/ Uninstall \/ ContinueEnds \/ ZygoteRestarts

Next ==
    \/ Supervisor \/ ran_before \/ Failures
    \/ AppWrites \/ InstallerWrites \/ InstallerSucceeds
    \/ User \/ PowerLoss

Spec == Init /\ [][Next]_vars

(* The shell runs on; the user finishes the setup: the app leaves its file *)
(* and the installer comes to an end.                                      *)
FairSpec ==
    /\ Spec
    /\ WF_vars(Supervisor)
    /\ WF_vars(AppWrites)
    /\ WF_vars(InstallerWrites)
    /\ WF_vars(InstallerSucceeds \/ InstallerFails)

-----------------------------------------------------------------------------
Keys == 1 .. MaxBoots

PersistType ==
    [tmp : Keys \cup {NoFile, TornFile}, tmpPub : Keys \cup {NoFile, TornFile},
     key : Keys \cup {NoFile}, pub : Keys \cup {NoFile},
     readable : BOOLEAN, dirty : SUBSET {"tmp", "tmpPub", "key", "pub"}]

DataType ==
    [params : BOOLEAN, keys : {"none", "torn", "setup", "user"},
     cont : {"none", "torn", "whole"}, dirty : SUBSET {"keys", "cont"}]

(* Every variable holds a value of its kind; the renamed key files are     *)
(* never torn, whenever the power goes and whichever command fails.        *)
TypeOK ==
    /\ pc \in Chain \cup {"boot", "setup_keys", "cp", "test", "am_start",
                          "wait", "installing", "succeeded", "failed",
                          "continue", "ended"}
    /\ runonce \in BOOLEAN /\ again \in BOOLEAN
    /\ persist \in PersistType /\ persistLog \subseteq PersistType
    /\ data \in DataType /\ dataLog \subseteq DataType
    /\ installer \in {"none", "torn", "whole", "old"}
    /\ app \in {"idle", "asked", "unasked"}
    /\ boot \in Keys /\ faults \in 0 .. MaxFaults
    /\ installed \in BOOLEAN /\ doubtful \in BOOLEAN /\ broken \in BOOLEAN
    /\ execs \in Nat /\ seen \in Keys \cup {NoFile}

(* Where there is a public key, there is the private key it belongs to:    *)
(* comma.sh makes a pair only if the public key is missing, so a pair that *)
(* does not match, left by a power loss between any two commands, would    *)
(* never be repaired (comma.sh:64-75).                                     *)
PairMatches ==
    persist.pub # NoFile => persist.key = persist.pub

(* The public key that was handed over first is the device's for ever: no  *)
(* power loss takes it back and no later boot makes another one, unless    *)
(* one of the commands that make the pair has failed (comma.sh:64-75).     *)
IdentityKept ==
    seen # NoFile /\ ~broken => persist.pub = seen

(* When continue.sh is running, sshd does not accept the setup key that    *)
(* all devices share: it was removed after the installer and before the    *)
(* hand-over, also in a boot after a power loss (comma.sh:22-26).          *)
SetupKeysGone ==
    pc = "continue" => data.keys # "setup"

(* What is handed over to was left by an installer that succeeded, or a    *)
(* power loss brought it back (comma.sh:96-99).                            *)
HandOver ==
    pc = "continue" => installed \/ doubtful

(* comma.sh:6 "run once (if zygote is restarted we might get here multiple *)
(* times)": from one switching on to the next there is one hand-over,      *)
(* whenever Android restarts: before it, while the software runs or after. *)
OncePerBoot ==
    execs <= 1

(* The supervisor never takes away the keys of the user: as long as the    *)
(* power stays on, GithubSshKeys is what the user has put there            *)
(* (comma.sh:24).                                                          *)
UserKeysKept ==
    [][data.keys = "user" /\ boot' = boot => data'.keys = "user"]_vars

(* comma.sh:14 "install default SSH key while still in setup": while the   *)
(* installer is waited for, sshd has a key to accept.                      *)
SetupHasKey ==
    pc = "wait" => data.keys \in {"setup", "user"}

(* Nobody is going to leave the installer that is waited for.              *)
Unasked == pc = "wait" /\ app = "unasked"

(* Every boot ends in a hand-over, its own or that of a boot after it, or  *)
(* in a wait for the setup app that was never started: the status of am    *)
(* start is not looked at (comma.sh:87).                                   *)
SetupEnds ==
    ~runonce ~> pc = "continue" \/ Unasked
=============================================================================
