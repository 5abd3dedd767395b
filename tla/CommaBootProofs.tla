-------------------------- MODULE CommaBootProofs --------------------------
(***************************************************************************)
(* What comma.sh keeps through every power loss and failing command, for   *)
(* any number of boots and failures.                                       *)
(*                                                                         *)
(* The key pair.  What the programs see says little about what a power     *)
(* loss leaves, so the invariant is about every state since the last sync: *)
(* in each of them a public key has its private key, and only the two      *)
(* temporary files may still be torn.  The sync before the first rename is *)
(* what makes the second part true, the order of the renames the first.    *)
(*                                                                         *)
(* The setup keys and the hand-over need what a command knows of the ones  *)
(* before it: that there is still no key when it is copied, and that a     *)
(* continue.sh is there, tried and without the setup key when it is        *)
(* executed.                                                               *)
(***************************************************************************)
EXTENDS CommaBoot, TLAPS

(* The files of the key pair, in every state a power loss may leave.       *)
PairInLog ==
    /\ persist \in persistLog
    /\ \A p \in persistLog : /\ p.pub # NoFile => p.key = p.pub
                             /\ p.dirty \subseteq {"tmp", "tmpPub"}

(* What the chain of commands has done when it comes to pc.                *)
PairInChain ==
    /\ pc \in {"genrsa", "pubout", "sync", "mv_key", "mv_pub"} =>
            persist.pub = NoFile
    /\ pc = "pubout" => persist.tmp \in Keys
    /\ pc \in {"sync", "mv_key"} =>
            persist.tmp \in Keys /\ persist.tmpPub = persist.tmp
    /\ pc = "mv_pub" => persist.key \in Keys /\ persist.tmpPub = persist.key
    /\ pc \in {"mv_key", "mv_pub"} => persist.dirty = {}

(* What the loop knows of the ssh keys and of continue.sh.                 *)
SetupLoop ==
    /\ pc = "cp" => data.keys = "none" /\ data.cont = "none"
    /\ pc = "test" /\ data.cont # "none" => data.keys # "setup"
    /\ pc = "continue" => data.keys # "setup" /\ data.cont # "none"
    /\ data.cont # "none" =>
            installed \/ doubtful \/ pc \in {"installing", "failed"}

BootInv == TypeOK /\ PairInLog /\ PairInChain /\ SetupLoop

(* The bounds are what their assumption says: a boot is a key.             *)
LEMMA FirstBoot == 1 \in Keys /\ NoFile \notin Keys /\ TornFile \notin Keys
  BY BoundsAssumption DEF Keys, NoFile, TornFile

(* What a power loss leaves of /persist: the key files as they were.       *)
LEMMA PersistLeft ==
  ASSUME NEW s \in PersistType, s.dirty \subseteq {"tmp", "tmpPub"},
         NEW p \in TornPersist(s)
  PROVE  /\ p \in PersistType /\ p.dirty = {}
         /\ p.key = s.key /\ p.pub = s.pub
<1>1. PICK lost \in SUBSET s.dirty :
        p = [s EXCEPT !.tmp = IF "tmp" \in lost THEN TornFile ELSE @,
               !.tmpPub = IF "tmpPub" \in lost THEN TornFile ELSE @,
               !.key = IF "key" \in lost THEN TornFile ELSE @,
               !.pub = IF "pub" \in lost THEN TornFile ELSE @,
               !.dirty = {}]
  BY DEF TornPersist
<1>2. "key" \notin lost /\ "pub" \notin lost
  BY <1>1
<1>3. p = [s EXCEPT !.tmp = IF "tmp" \in lost THEN TornFile ELSE @,
               !.tmpPub = IF "tmpPub" \in lost THEN TornFile ELSE @,
               !.dirty = {}]
  BY <1>1, <1>2 DEF PersistType
<1> QED
  BY <1>3 DEF PersistType

(* What a power loss leaves of /data is again a state of /data.            *)
LEMMA DataLeft ==
  ASSUME NEW s \in DataType, NEW d \in TornData(s)
  PROVE  d \in DataType
<1>1. PICK lost \in SUBSET s.dirty :
        d = [s EXCEPT !.keys = IF "keys" \in lost THEN "torn" ELSE @,
                      !.cont = IF "cont" \in lost THEN "torn" ELSE @,
                      !.dirty = {}]
  BY DEF TornData
<1>2. /\ s.params \in BOOLEAN /\ s.keys \in {"none", "torn", "setup", "user"}
      /\ s.cont \in {"none", "torn", "whole"}
      /\ s = [params |-> s.params, keys |-> s.keys, cont |-> s.cont,
              dirty |-> s.dirty]
  BY DEF DataType
<1>3. d = [params |-> s.params,
           keys |-> IF "keys" \in lost THEN "torn" ELSE s.keys,
           cont |-> IF "cont" \in lost THEN "torn" ELSE s.cont,
           dirty |-> {}]
  BY <1>1, <1>2
<1> QED
  BY <1>2, <1>3 DEF DataType

-----------------------------------------------------------------------------
(* The file systems alone.                                                 *)
FilesOK ==
    /\ persist \in PersistType /\ persistLog \subseteq PersistType
    /\ data \in DataType /\ dataLog \subseteq DataType
    /\ PairInLog

(* The variables that are not files.                                       *)
OtherTypes ==
    /\ pc \in Chain \cup {"boot", "setup_keys", "cp", "test", "am_start",
                          "wait", "installing", "succeeded", "failed",
                          "continue", "ended"}
    /\ runonce \in BOOLEAN /\ again \in BOOLEAN
    /\ installer \in {"none", "torn", "whole", "old"}
    /\ app \in {"idle", "asked", "unasked"}
    /\ boot \in Keys /\ faults \in 0 .. MaxFaults
    /\ installed \in BOOLEAN /\ doubtful \in BOOLEAN /\ broken \in BOOLEAN
    /\ execs \in Nat /\ seen \in Keys \cup {NoFile}

(* The two halves are the type invariant and what is known of the log.     *)
LEMMA Halves == TypeOK /\ PairInLog <=> FilesOK /\ OtherTypes
  BY DEF TypeOK, FilesOK, OtherTypes

(* A change of /persist keeps the files right if the new state is right.   *)
LEMMA PersistChange ==
  ASSUME FilesOK, NEW p \in PersistType, OnPersist(p),
         p.pub # NoFile => p.key = p.pub,
         p.dirty \subseteq {"tmp", "tmpPub"}
  PROVE  FilesOK'
  BY DEF FilesOK, PairInLog, OnPersist

(* A change of /data does not touch the key pair.                          *)
LEMMA DataChange ==
  ASSUME FilesOK, NEW d \in DataType, OnData(d)
  PROVE  FilesOK'
  BY DEF FilesOK, PairInLog, OnData

(* After a sync there is one state left, and nothing in it can be torn.    *)
LEMMA Synced ==
  ASSUME FilesOK, Sync
  PROVE  FilesOK' /\ persist' = [persist EXCEPT !.dirty = {}]
<1>1. persist' = [persist EXCEPT !.dirty = {}] /\ persistLog' = {persist'}
  BY DEF Sync
<1>2. data' = [data EXCEPT !.dirty = {}] /\ dataLog' = {data'}
  BY DEF Sync
<1>3. persist' \in PersistType /\ persist'.dirty = {}
  BY <1>1 DEF FilesOK, PersistType
<1>4. persist'.pub # NoFile => persist'.key = persist'.pub
  BY <1>1 DEF FilesOK, PairInLog, PersistType
<1>5. data' \in DataType
  BY <1>2 DEF FilesOK, DataType
<1> QED
  BY <1>1, <1>2, <1>3, <1>4, <1>5 DEF FilesOK, PairInLog

(* A power loss keeps the files right: it leaves one of the states that    *)
(* were all right.                                                         *)
LEMMA AfterLoss ==
  ASSUME FilesOK, PowerLoss
  PROVE  FilesOK'
<1>1. PICK p \in persistLog : persist' \in TornPersist(p)
  BY DEF PowerLoss
<1>2. PICK d \in dataLog : data' \in TornData(d)
  BY DEF PowerLoss
<1>3. p \in PersistType /\ p.dirty \subseteq {"tmp", "tmpPub"}
  BY <1>1 DEF FilesOK, PairInLog
<1>4. /\ persist' \in PersistType /\ persist'.dirty = {}
      /\ persist'.key = p.key /\ persist'.pub = p.pub
  BY <1>1, <1>3, PersistLeft
<1>5. data' \in DataType
  BY <1>2, DataLeft DEF FilesOK
<1>6. persistLog' = {persist'} /\ dataLog' = {data'}
  BY DEF PowerLoss
<1> QED
  BY <1>1, <1>4, <1>5, <1>6 DEF FilesOK, PairInLog

-----------------------------------------------------------------------------
(* The invariant holds on a new device.                                    *)
LEMMA BootInit == Init => BootInv
<1> SUFFICES ASSUME Init PROVE BootInv
  OBVIOUS
<1>1. persist \in PersistType
  BY DEF Init, PersistType
<1>2. data \in DataType
  BY DEF Init, DataType
<1>3. TypeOK
  <2>1. boot \in Keys /\ faults \in 0 .. MaxFaults
    BY FirstBoot, BoundsAssumption DEF Init
  <2> QED
    BY <1>1, <1>2, <2>1 DEF Init, TypeOK, NoFile
<1> QED
  BY <1>3 DEF Init, BootInv, PairInLog, PairInChain, SetupLoop, NoFile

-----------------------------------------------------------------------------
(* The commands that make the key pair (comma.sh:64-75) keep the           *)
(* invariant.                                                              *)
LEMMA ChainStep ==
  ASSUME BootInv,
         \/ genrsa \/ pubout \/ sync_keys \/ mv_key \/ mv_pub \/ chmod_key
         \/ sync_pair
  PROVE  BootInv'
<1> FilesOK /\ OtherTypes
  BY Halves DEF BootInv
<1>1. CASE genrsa
  <2> DEFINE p == [persist EXCEPT !.tmp = boot, !.dirty = @ \cup {"tmp"}]
  <2>1. p \in PersistType
    BY DEF FilesOK, PersistType, OtherTypes
  <2>2. OnPersist(p)
    BY <1>1 DEF genrsa
  <2>3. p.pub = NoFile /\ p.tmp \in Keys /\ p.dirty \subseteq {"tmp", "tmpPub"}
    BY <1>1 DEF genrsa, BootInv, PairInChain, FilesOK, PairInLog, PersistType,
                OtherTypes
  <2>4. FilesOK'
    BY <2>1, <2>2, <2>3, PersistChange
  <2>5. persist' = p /\ UNCHANGED data
    BY <2>2 DEF OnPersist
  <2>6. pc' = "pubout" /\ UNCHANGED <<onceVars, setupVars, histories>>
    BY <1>1 DEF genrsa, GoTo
  <2>7. OtherTypes'
    BY <2>6 DEF OtherTypes, Chain, setupVars, onceVars, histories
  <2>8. PairInChain'
    BY <2>3, <2>5, <2>6 DEF PairInChain
  <2>9. SetupLoop'
    BY <1>1, <2>5, <2>6 DEF BootInv, SetupLoop, genrsa, histories
  <2> HIDE DEF p
  <2> QED
    BY <2>4, <2>7, <2>8, <2>9 DEF BootInv, FilesOK, OtherTypes, TypeOK
<1>2. CASE pubout
  <2> DEFINE p == [persist EXCEPT !.tmpPub = persist.tmp,
                                  !.dirty = @ \cup {"tmpPub"}]
  <2>1. p \in PersistType
    BY DEF FilesOK, PersistType
  <2>2. OnPersist(p)
    BY <1>2 DEF pubout
  <2>3. /\ p.pub = NoFile /\ p.tmp \in Keys /\ p.tmpPub = p.tmp
        /\ p.dirty \subseteq {"tmp", "tmpPub"}
    BY <1>2 DEF pubout, BootInv, PairInChain, FilesOK, PairInLog, PersistType
  <2>4. FilesOK'
    BY <2>1, <2>2, <2>3, PersistChange
  <2>5. persist' = p /\ UNCHANGED data
    BY <2>2 DEF OnPersist
  <2>6. pc' = "sync" /\ UNCHANGED <<onceVars, setupVars, histories>>
    BY <1>2 DEF pubout, GoTo
  <2>7. OtherTypes'
    BY <2>6 DEF OtherTypes, Chain, setupVars, onceVars, histories
  <2>8. PairInChain'
    BY <2>3, <2>5, <2>6 DEF PairInChain
  <2>9. SetupLoop'
    BY <1>2, <2>5, <2>6 DEF BootInv, SetupLoop, pubout, histories
  <2> HIDE DEF p
  <2> QED
    BY <2>4, <2>7, <2>8, <2>9 DEF BootInv, FilesOK, OtherTypes, TypeOK
<1>3. CASE sync_keys
  <2>1. FilesOK' /\ persist' = [persist EXCEPT !.dirty = {}]
    BY <1>3, Synced DEF sync_keys
  <2>2. persist' \in PersistType /\ persist'.dirty = {}
    BY <2>1 DEF FilesOK, PersistType
  <2>3. /\ persist'.pub = persist.pub /\ persist'.tmp = persist.tmp
        /\ persist'.tmpPub = persist.tmpPub
    BY <2>1 DEF FilesOK, PersistType
  <2>4. data'.keys = data.keys /\ data'.cont = data.cont
    BY <1>3 DEF sync_keys, Sync, FilesOK, DataType
  <2>5. pc' = "mv_key" /\ UNCHANGED <<onceVars, setupVars, histories>>
    BY <1>3 DEF sync_keys, GoTo
  <2>6. OtherTypes'
    BY <2>5 DEF OtherTypes, Chain, setupVars, onceVars, histories
  <2>7. PairInChain'
    BY <1>3, <2>2, <2>3, <2>5 DEF sync_keys, BootInv, PairInChain
  <2>8. SetupLoop'
    BY <1>3, <2>4, <2>5 DEF BootInv, SetupLoop, sync_keys, histories
  <2> QED
    BY <2>1, <2>6, <2>7, <2>8 DEF BootInv, FilesOK, OtherTypes, TypeOK
<1>4. CASE mv_key
  <2> DEFINE p == [persist EXCEPT !.key = persist.tmp, !.tmp = NoFile,
                                  !.readable = FALSE,
                                  !.dirty = Moved("tmp", "key")]
  <2>1. p \in PersistType
    BY <1>4 DEF mv_key, BootInv, PairInChain, FilesOK, PersistType, OtherTypes,
                NoFile, Moved
  <2>2. OnPersist(p)
    BY <1>4 DEF mv_key
  <2>3. /\ p.pub = NoFile /\ p.key \in Keys /\ p.tmpPub = p.key
        /\ p.dirty = {}
    BY <1>4 DEF mv_key, BootInv, PairInChain, FilesOK, PairInLog,
                PersistType, OtherTypes,
                Moved
  <2>4. FilesOK'
    BY <2>1, <2>2, <2>3, PersistChange
  <2>5. persist' = p /\ UNCHANGED data
    BY <2>2 DEF OnPersist
  <2>6. pc' = "mv_pub" /\ UNCHANGED <<onceVars, setupVars, histories>>
    BY <1>4 DEF mv_key, GoTo
  <2>7. OtherTypes'
    BY <2>6 DEF OtherTypes, Chain, setupVars, onceVars, histories
  <2>8. PairInChain'
    BY <2>3, <2>5, <2>6 DEF PairInChain
  <2>9. SetupLoop'
    BY <1>4, <2>5, <2>6 DEF BootInv, SetupLoop, mv_key, histories
  <2> HIDE DEF p
  <2> QED
    BY <2>4, <2>7, <2>8, <2>9 DEF BootInv, FilesOK, OtherTypes, TypeOK
<1>5. CASE mv_pub
  <2> DEFINE p == [persist EXCEPT !.pub = persist.tmpPub,
                                  !.tmpPub = NoFile,
                                  !.dirty = Moved("tmpPub", "pub")]
  <2>1. p \in PersistType
    BY <1>5 DEF mv_pub, BootInv, PairInChain, FilesOK, PersistType, OtherTypes,
                NoFile, Moved
  <2>2. OnPersist(p)
    BY <1>5 DEF mv_pub
  <2>3. p.key = p.pub /\ p.dirty = {}
    BY <1>5 DEF mv_pub, BootInv, PairInChain, FilesOK, PairInLog,
                PersistType, OtherTypes,
                Moved
  <2>4. FilesOK'
    BY <2>1, <2>2, <2>3, PersistChange
  <2>5. persist' = p /\ UNCHANGED data
    BY <2>2 DEF OnPersist
  <2>6. pc' = "chmod" /\ UNCHANGED <<onceVars, setupVars, histories>>
    BY <1>5 DEF mv_pub, GoTo
  <2>7. OtherTypes'
    BY <2>6 DEF OtherTypes, Chain, setupVars, onceVars, histories
  <2>8. PairInChain'
    BY <2>3, <2>5, <2>6 DEF PairInChain
  <2>9. SetupLoop'
    BY <1>5, <2>5, <2>6 DEF BootInv, SetupLoop, mv_pub, histories
  <2> HIDE DEF p
  <2> QED
    BY <2>4, <2>7, <2>8, <2>9 DEF BootInv, FilesOK, OtherTypes, TypeOK
<1>6. CASE chmod_key
  <2> DEFINE p == [persist EXCEPT !.readable = TRUE]
  <2>1. p \in PersistType
    BY <1>6 DEF chmod_key, BootInv, PairInChain, FilesOK, PersistType,
                OtherTypes,
                NoFile
  <2>2. OnPersist(p)
    BY <1>6 DEF chmod_key
  <2>3. /\ p.pub # NoFile => p.key = p.pub
        /\ p.dirty \subseteq {"tmp", "tmpPub"}
    BY <1>6 DEF chmod_key, BootInv, PairInChain, FilesOK, PairInLog,
                PersistType, OtherTypes
  <2>4. FilesOK'
    BY <2>1, <2>2, <2>3, PersistChange
  <2>5. persist' = p /\ UNCHANGED data
    BY <2>2 DEF OnPersist
  <2>6. pc' = "sync_pair" /\ UNCHANGED <<onceVars, setupVars, histories>>
    BY <1>6 DEF chmod_key, GoTo
  <2>7. OtherTypes'
    BY <2>6 DEF OtherTypes, Chain, setupVars, onceVars, histories
  <2>8. PairInChain'
    BY <2>3, <2>5, <2>6 DEF PairInChain
  <2>9. SetupLoop'
    BY <1>6, <2>5, <2>6 DEF BootInv, SetupLoop, chmod_key, histories
  <2> HIDE DEF p
  <2> QED
    BY <2>4, <2>7, <2>8, <2>9 DEF BootInv, FilesOK, OtherTypes, TypeOK
<1>7. CASE sync_pair
  <2>1. FilesOK' /\ persist' = [persist EXCEPT !.dirty = {}]
    BY <1>7, Synced DEF sync_pair
  <2>2. persist' \in PersistType /\ persist'.dirty = {}
    BY <2>1 DEF FilesOK, PersistType
  <2>3. /\ persist'.pub = persist.pub /\ persist'.tmp = persist.tmp
        /\ persist'.tmpPub = persist.tmpPub
    BY <2>1 DEF FilesOK, PersistType
  <2>4. data'.keys = data.keys /\ data'.cont = data.cont
    BY <1>7 DEF sync_pair, Sync, FilesOK, DataType
  <2>5. pc' = "setup_keys" /\ UNCHANGED <<onceVars, setupVars, histories>>
    BY <1>7 DEF sync_pair, GoTo
  <2>6. OtherTypes'
    BY <2>5 DEF OtherTypes, Chain, setupVars, onceVars, histories
  <2>7. PairInChain'
    BY <1>7, <2>2, <2>3, <2>5 DEF sync_pair, BootInv, PairInChain
  <2>8. SetupLoop'
    BY <1>7, <2>4, <2>5 DEF BootInv, SetupLoop, sync_pair, histories
  <2> QED
    BY <2>1, <2>6, <2>7, <2>8 DEF BootInv, FilesOK, OtherTypes, TypeOK
<1> QED
  BY <1>1, <1>2, <1>3, <1>4, <1>5, <1>6, <1>7
(* The loop of comma.sh, with handle_setup_keys, keeps the invariant.      *)
LEMMA LoopStep ==
  ASSUME BootInv,
         \/ runs_once
         \/ make_params \/ copy_setup_keys \/ clear_setup_keys \/ leave_keys
         \/ exec_continue \/ ask_for_installer \/ wait_for_installer
         \/ run_installer \/ installer_ended \/ installer_failed
  PROVE  BootInv'
<1> FilesOK /\ OtherTypes
  BY Halves DEF BootInv
<1>1. CASE runs_once
  <2>1. UNCHANGED fileVars
    BY <1>1 DEF runs_once, vars
  <2>2. FilesOK'
    BY <2>1 DEF FilesOK, PairInLog, fileVars
  <2>3. OtherTypes'
    BY <1>1 DEF OtherTypes, Chain, runs_once, GoTo, setupVars, onceVars,
                histories
  <2>4. PairInChain'
    BY <1>1, <2>1 DEF BootInv, PairInChain, fileVars, runs_once, GoTo,
                      setupVars, onceVars, histories
  <2>5. SetupLoop'
    BY <1>1, <2>1 DEF BootInv, SetupLoop, OtherTypes, fileVars,
                runs_once, GoTo, setupVars, onceVars, histories
  <2> QED
    BY <2>2, <2>3, <2>4, <2>5 DEF BootInv, FilesOK, OtherTypes, TypeOK
<1>2. CASE make_params
  <2> DEFINE d == [data EXCEPT !.params = TRUE]
  <2>1. d \in DataType
    BY DEF FilesOK, DataType
  <2>2. OnData(d)
    BY <1>2 DEF make_params
  <2>3. FilesOK'
    BY <2>1, <2>2, DataChange
  <2>4. data' = d /\ UNCHANGED persist
    BY <2>2 DEF OnData
  <2>5. pc' = "cp" /\ UNCHANGED <<onceVars, setupVars, histories>>
    BY <1>2 DEF make_params, GoTo
  <2>6. OtherTypes'
    BY <2>5 DEF OtherTypes, Chain, setupVars, onceVars, histories
  <2>7. PairInChain'
    BY <2>5 DEF PairInChain
  <2>8. SetupLoop'
    BY <1>2, <2>4, <2>5 DEF make_params, BootInv, SetupLoop, FilesOK, DataType,
                histories
  <2> HIDE DEF d
  <2> QED
    BY <2>3, <2>6, <2>7, <2>8 DEF BootInv, FilesOK, OtherTypes, TypeOK
<1>3. CASE copy_setup_keys
  <2> DEFINE d == [data EXCEPT !.keys = "setup",
                               !.dirty = @ \cup {"keys"}]
  <2>1. d \in DataType
    BY DEF FilesOK, DataType
  <2>2. OnData(d)
    BY <1>3 DEF copy_setup_keys
  <2>3. FilesOK'
    BY <2>1, <2>2, DataChange
  <2>4. data' = d /\ UNCHANGED persist
    BY <2>2 DEF OnData
  <2>5. pc' = "test" /\ UNCHANGED <<onceVars, setupVars, histories>>
    BY <1>3 DEF copy_setup_keys, GoTo
  <2>6. OtherTypes'
    BY <2>5 DEF OtherTypes, Chain, setupVars, onceVars, histories
  <2>7. PairInChain'
    BY <2>5 DEF PairInChain
  <2>8. SetupLoop'
    BY <1>3, <2>4, <2>5 DEF copy_setup_keys, BootInv, SetupLoop, FilesOK,
                            DataType,
                histories
  <2> HIDE DEF d
  <2> QED
    BY <2>3, <2>6, <2>7, <2>8 DEF BootInv, FilesOK, OtherTypes, TypeOK
<1>4. CASE clear_setup_keys /\ data.keys = "setup"
  <2> DEFINE d == [data EXCEPT !.keys = "none",
                               !.dirty = @ \ {"keys"}]
  <2>1. d \in DataType
    BY DEF FilesOK, DataType
  <2>2. OnData(d)
    BY <1>4 DEF clear_setup_keys
  <2>3. FilesOK'
    BY <2>1, <2>2, DataChange
  <2>4. data' = d /\ UNCHANGED persist
    BY <2>2 DEF OnData
  <2>5. pc' = "test" /\ UNCHANGED <<onceVars, setupVars, histories>>
    BY <1>4 DEF clear_setup_keys, GoTo
  <2>6. OtherTypes'
    BY <2>5 DEF OtherTypes, Chain, setupVars, onceVars, histories
  <2>7. PairInChain'
    BY <2>5 DEF PairInChain
  <2>8. SetupLoop'
    BY <1>4, <2>4, <2>5 DEF clear_setup_keys, BootInv, SetupLoop, FilesOK,
                            DataType,
                histories
  <2> HIDE DEF d
  <2> QED
    BY <2>3, <2>6, <2>7, <2>8 DEF BootInv, FilesOK, OtherTypes, TypeOK
<1>5. CASE clear_setup_keys /\ data.keys # "setup"
  <2>1. UNCHANGED fileVars
    BY <1>5 DEF clear_setup_keys, vars
  <2>2. FilesOK'
    BY <2>1 DEF FilesOK, PairInLog, fileVars
  <2>3. OtherTypes'
    BY <1>5 DEF OtherTypes, Chain, clear_setup_keys, GoTo, setupVars, onceVars,
                histories
  <2>4. PairInChain'
    BY <1>5, <2>1 DEF BootInv, PairInChain, fileVars, clear_setup_keys, GoTo,
                      setupVars, onceVars, histories
  <2>5. SetupLoop'
    BY <1>5, <2>1 DEF BootInv, SetupLoop, OtherTypes, fileVars,
                clear_setup_keys, GoTo, setupVars, onceVars, histories
  <2> QED
    BY <2>2, <2>3, <2>4, <2>5 DEF BootInv, FilesOK, OtherTypes, TypeOK
<1>6. CASE leave_keys
  <2>1. UNCHANGED fileVars
    BY <1>6 DEF leave_keys, vars
  <2>2. FilesOK'
    BY <2>1 DEF FilesOK, PairInLog, fileVars
  <2>3. OtherTypes'
    BY <1>6 DEF OtherTypes, Chain, leave_keys, GoTo, setupVars, onceVars,
                histories
  <2>4. PairInChain'
    BY <1>6, <2>1 DEF BootInv, PairInChain, fileVars, leave_keys, GoTo,
                      setupVars, onceVars, histories
  <2>5. SetupLoop'
    BY <1>6, <2>1 DEF BootInv, SetupLoop, OtherTypes, fileVars,
                leave_keys, GoTo, setupVars, onceVars, histories
  <2> QED
    BY <2>2, <2>3, <2>4, <2>5 DEF BootInv, FilesOK, OtherTypes, TypeOK
<1>7. CASE exec_continue
  <2>1. UNCHANGED fileVars
    BY <1>7 DEF exec_continue, vars
  <2>2. FilesOK'
    BY <2>1 DEF FilesOK, PairInLog, fileVars
  <2>3. OtherTypes'
    BY <1>7 DEF OtherTypes, Chain, exec_continue, FilesOK, PersistType,
                onceVars, setupVars
  <2>4. PairInChain'
    BY <1>7, <2>1 DEF BootInv, PairInChain, fileVars, exec_continue, GoTo,
                      setupVars, onceVars, histories
  <2>5. SetupLoop'
    BY <1>7, <2>1 DEF BootInv, SetupLoop, OtherTypes, fileVars,
                exec_continue, GoTo, setupVars, onceVars, histories
  <2> QED
    BY <2>2, <2>3, <2>4, <2>5 DEF BootInv, FilesOK, OtherTypes, TypeOK
<1>8. CASE ask_for_installer
  <2>1. UNCHANGED fileVars
    BY <1>8 DEF ask_for_installer, vars
  <2>2. FilesOK'
    BY <2>1 DEF FilesOK, PairInLog, fileVars
  <2>3. OtherTypes'
    BY <1>8 DEF OtherTypes, Chain, ask_for_installer, GoTo, setupVars,
                onceVars, histories
  <2>4. PairInChain'
    BY <1>8, <2>1 DEF BootInv, PairInChain, fileVars, ask_for_installer, GoTo,
                      setupVars, onceVars, histories
  <2>5. SetupLoop'
    BY <1>8, <2>1 DEF BootInv, SetupLoop, OtherTypes, fileVars,
                ask_for_installer, GoTo, setupVars, onceVars, histories
  <2> QED
    BY <2>2, <2>3, <2>4, <2>5 DEF BootInv, FilesOK, OtherTypes, TypeOK
<1>9. CASE wait_for_installer
  <2>1. UNCHANGED fileVars
    BY <1>9 DEF wait_for_installer, vars
  <2>2. FilesOK'
    BY <2>1 DEF FilesOK, PairInLog, fileVars
  <2>3. OtherTypes'
    BY <1>9 DEF OtherTypes, Chain, wait_for_installer, GoTo, setupVars,
                onceVars, histories, vars
  <2>4. PairInChain'
    BY <1>9, <2>1 DEF BootInv, PairInChain, fileVars, wait_for_installer,
                      GoTo, setupVars, onceVars, histories, vars
  <2>5. SetupLoop'
    BY <1>9, <2>1 DEF BootInv, SetupLoop, OtherTypes, fileVars,
                wait_for_installer, GoTo, setupVars, onceVars, histories, vars
  <2> QED
    BY <2>2, <2>3, <2>4, <2>5 DEF BootInv, FilesOK, OtherTypes, TypeOK
<1>10. CASE run_installer
  <2>1. UNCHANGED fileVars
    BY <1>10 DEF run_installer, vars
  <2>2. FilesOK'
    BY <2>1 DEF FilesOK, PairInLog, fileVars
  <2>3. OtherTypes'
    BY <1>10 DEF OtherTypes, Chain, run_installer, GoTo, setupVars, onceVars,
                 histories
  <2>4. PairInChain'
    BY <1>10, <2>1 DEF BootInv, PairInChain, fileVars, run_installer, GoTo,
                       setupVars, onceVars, histories
  <2>5. SetupLoop'
    BY <1>10, <2>1 DEF BootInv, SetupLoop, OtherTypes, fileVars,
                run_installer, GoTo, setupVars, onceVars, histories
  <2> QED
    BY <2>2, <2>3, <2>4, <2>5 DEF BootInv, FilesOK, OtherTypes, TypeOK
<1>11. CASE installer_ended
  <2>1. UNCHANGED fileVars
    BY <1>11 DEF installer_ended, vars
  <2>2. FilesOK'
    BY <2>1 DEF FilesOK, PairInLog, fileVars
  <2>3. OtherTypes'
    BY <1>11 DEF OtherTypes, Chain, installer_ended, GoTo, setupVars, onceVars,
                 histories
  <2>4. PairInChain'
    BY <1>11, <2>1 DEF BootInv, PairInChain, fileVars, installer_ended, GoTo,
                       setupVars, onceVars, histories
  <2>5. SetupLoop'
    BY <1>11, <2>1 DEF BootInv, SetupLoop, OtherTypes, fileVars,
                installer_ended, GoTo, setupVars, onceVars, histories
  <2> QED
    BY <2>2, <2>3, <2>4, <2>5 DEF BootInv, FilesOK, OtherTypes, TypeOK
<1>12. CASE installer_failed
  <2> DEFINE d == [data EXCEPT !.cont = "none",
                               !.dirty = @ \ {"cont"}]
  <2>1. d \in DataType
    BY DEF FilesOK, DataType
  <2>2. OnData(d)
    BY <1>12 DEF installer_failed
  <2>3. FilesOK'
    BY <2>1, <2>2, DataChange
  <2>4. data' = d /\ UNCHANGED persist
    BY <2>2 DEF OnData
  <2>5. pc' = "setup_keys" /\ UNCHANGED <<onceVars, setupVars, histories>>
    BY <1>12 DEF installer_failed, GoTo
  <2>6. OtherTypes'
    BY <2>5 DEF OtherTypes, Chain, setupVars, onceVars, histories
  <2>7. PairInChain'
    BY <2>5 DEF PairInChain
  <2>8. SetupLoop'
    BY <1>12, <2>4, <2>5 DEF installer_failed, BootInv, SetupLoop, FilesOK,
                             DataType,
                histories
  <2> HIDE DEF d
  <2> QED
    BY <2>3, <2>6, <2>7, <2>8 DEF BootInv, FilesOK, OtherTypes, TypeOK
<1> QED
  BY <1>1, <1>2, <1>3, <1>4, <1>5, <1>6, <1>7, <1>8, <1>9, <1>10, <1>11,
     <1>12

(* A command, a download or an installer that fails keeps the invariant.   *)
LEMMA FailureStep ==
  ASSUME BootInv, Failures
  PROVE  BootInv'
<1> FilesOK /\ OtherTypes
  BY Halves DEF BootInv
<1>0. faults < MaxFaults => faults + 1 \in 0 .. MaxFaults
  BY BoundsAssumption DEF OtherTypes
<1>1. CASE chain_fails /\ pc = "genrsa"
  <2> DEFINE p == [persist EXCEPT !.tmp = TornFile,
                                  !.dirty = @ \cup {"tmp"}]
  <2>1. p \in PersistType
    BY DEF FilesOK, PersistType
  <2>2. OnPersist(p)
    BY <1>1 DEF chain_fails, LeftByChain
  <2>3. p.pub = NoFile /\ p.dirty \subseteq {"tmp", "tmpPub"}
    BY <1>1 DEF BootInv, PairInChain, FilesOK, PairInLog, PersistType
  <2>4. FilesOK'
    BY <2>1, <2>2, <2>3, PersistChange
  <2>5. persist' = p /\ UNCHANGED data
    BY <2>2 DEF OnPersist
  <2>6. OtherTypes'
    BY <1>1, <1>0 DEF OtherTypes, Chain, chain_fails, setupVars, onceVars,
                      histories
  <2>7. PairInChain'
    BY <1>1, <2>5 DEF BootInv, PairInChain, chain_fails, setupVars, onceVars,
                      histories
  <2>8. SetupLoop'
    BY <1>1, <2>5 DEF BootInv, SetupLoop, FilesOK, DataType,
                chain_fails, setupVars, onceVars, histories
  <2> HIDE DEF p
  <2> QED
    BY <2>4, <2>6, <2>7, <2>8 DEF BootInv, FilesOK, OtherTypes, TypeOK
<1>2. CASE chain_fails /\ pc = "pubout"
  <2> DEFINE p == [persist EXCEPT !.tmpPub = TornFile,
                                  !.dirty = @ \cup {"tmpPub"}]
  <2>1. p \in PersistType
    BY DEF FilesOK, PersistType
  <2>2. OnPersist(p)
    BY <1>2 DEF chain_fails, LeftByChain
  <2>3. p.pub = NoFile /\ p.dirty \subseteq {"tmp", "tmpPub"}
    BY <1>2 DEF BootInv, PairInChain, FilesOK, PairInLog, PersistType
  <2>4. FilesOK'
    BY <2>1, <2>2, <2>3, PersistChange
  <2>5. persist' = p /\ UNCHANGED data
    BY <2>2 DEF OnPersist
  <2>6. OtherTypes'
    BY <1>2, <1>0 DEF OtherTypes, Chain, chain_fails, setupVars, onceVars,
                      histories
  <2>7. PairInChain'
    BY <1>2, <2>5 DEF BootInv, PairInChain, chain_fails, setupVars, onceVars,
                      histories
  <2>8. SetupLoop'
    BY <1>2, <2>5 DEF BootInv, SetupLoop, FilesOK, DataType,
                chain_fails, setupVars, onceVars, histories
  <2> HIDE DEF p
  <2> QED
    BY <2>4, <2>6, <2>7, <2>8 DEF BootInv, FilesOK, OtherTypes, TypeOK
<1>3. CASE chain_fails /\ pc \notin {"genrsa", "pubout"}
  <2>1. UNCHANGED fileVars
    BY <1>3 DEF chain_fails, LeftByChain
  <2>2. FilesOK'
    BY <2>1 DEF FilesOK, PairInLog, fileVars
  <2>3. OtherTypes'
    BY <1>3, <1>0 DEF OtherTypes, Chain, chain_fails, setupVars, onceVars,
                      histories
  <2>4. PairInChain'
    BY <1>3, <2>1 DEF BootInv, PairInChain, fileVars, chain_fails, setupVars,
                      histories
  <2>5. SetupLoop'
    <3>1. pc' = "setup_keys" /\ pc \notin {"installing", "failed"}
      BY <1>3 DEF chain_fails, Chain
    <3>2. UNCHANGED <<data, installed, doubtful>>
      BY <1>3, <2>1 DEF chain_fails, fileVars
    <3> QED
      BY <3>1, <3>2 DEF BootInv, SetupLoop
  <2> QED
    BY <2>2, <2>3, <2>4, <2>5 DEF BootInv, FilesOK, OtherTypes, TypeOK
<1>4. CASE copy_fails /\ OnData([data EXCEPT !.keys = "torn",
                                          !.dirty = @ \cup {"keys"}])
  <2> DEFINE d == [data EXCEPT !.keys = "torn",
                               !.dirty = @ \cup {"keys"}]
  <2>1. d \in DataType
    BY DEF FilesOK, DataType
  <2>2. OnData(d)
    BY <1>4 DEF copy_fails
  <2>4. FilesOK'
    BY <2>1, <2>2, DataChange
  <2>5. data' = d /\ UNCHANGED persist
    BY <2>2 DEF OnData
  <2>6. OtherTypes'
    BY <1>4, <1>0 DEF OtherTypes, Chain, copy_fails, setupVars, onceVars,
                      histories
  <2>7. PairInChain'
    BY <1>4, <2>5 DEF BootInv, PairInChain, copy_fails, setupVars, onceVars,
                      histories
  <2>8. SetupLoop'
    BY <1>4, <2>5 DEF BootInv, SetupLoop, FilesOK, DataType,
                copy_fails, setupVars, onceVars, histories
  <2> HIDE DEF d
  <2> QED
    BY <2>4, <2>6, <2>7, <2>8 DEF BootInv, FilesOK, OtherTypes, TypeOK
<1>5. CASE copy_fails /\ UNCHANGED fileVars
  <2>1. UNCHANGED fileVars
    BY <1>5 DEF copy_fails, setupVars, onceVars, histories
  <2>2. FilesOK'
    BY <2>1 DEF FilesOK, PairInLog, fileVars
  <2>3. OtherTypes'
    BY <1>5, <1>0 DEF OtherTypes, Chain, copy_fails, setupVars, onceVars,
                      histories
  <2>4. PairInChain'
    BY <1>5, <2>1 DEF BootInv, PairInChain, fileVars, copy_fails, setupVars,
                      histories
  <2>5. SetupLoop'
    BY <1>5, <2>1 DEF BootInv, SetupLoop, OtherTypes, fileVars,
                copy_fails, setupVars, onceVars, histories
  <2> QED
    BY <2>2, <2>3, <2>4, <2>5 DEF BootInv, FilesOK, OtherTypes, TypeOK
<1>6. CASE AppIsCut
  <2>1. UNCHANGED fileVars
    BY <1>6 DEF AppIsCut, setupVars, onceVars, histories
  <2>2. FilesOK'
    BY <2>1 DEF FilesOK, PairInLog, fileVars
  <2>3. OtherTypes'
    BY <1>6, <1>0 DEF OtherTypes, Chain, AppIsCut, setupVars, onceVars,
                      histories
  <2>4. PairInChain'
    BY <1>6, <2>1 DEF BootInv, PairInChain, fileVars, AppIsCut, setupVars,
                      histories
  <2>5. SetupLoop'
    BY <1>6, <2>1 DEF BootInv, SetupLoop, OtherTypes, fileVars,
                AppIsCut, setupVars, onceVars, histories
  <2> QED
    BY <2>2, <2>3, <2>4, <2>5 DEF BootInv, FilesOK, OtherTypes, TypeOK
<1>7. CASE InstallerFails
  <2>1. UNCHANGED fileVars
    BY <1>7 DEF InstallerFails, setupVars, onceVars, histories
  <2>2. FilesOK'
    BY <2>1 DEF FilesOK, PairInLog, fileVars
  <2>3. OtherTypes'
    BY <1>7, <1>0 DEF OtherTypes, Chain, InstallerFails, setupVars, onceVars,
                      histories
  <2>4. PairInChain'
    BY <1>7, <2>1 DEF BootInv, PairInChain, fileVars, InstallerFails,
                      setupVars, onceVars, histories
  <2>5. SetupLoop'
    BY <1>7, <2>1 DEF BootInv, SetupLoop, OtherTypes, fileVars,
                InstallerFails, setupVars, onceVars, histories
  <2> QED
    BY <2>2, <2>3, <2>4, <2>5 DEF BootInv, FilesOK, OtherTypes, TypeOK
<1>8. CASE asking_fails
  <2>1. UNCHANGED fileVars
    BY <1>8 DEF asking_fails
  <2>2. FilesOK'
    BY <2>1 DEF FilesOK, PairInLog, fileVars
  <2>3. OtherTypes'
    BY <1>8, <1>0 DEF OtherTypes, Chain, asking_fails, onceVars
  <2>4. PairInChain'
    BY <1>8, <2>1 DEF BootInv, PairInChain, fileVars, asking_fails
  <2>5. SetupLoop'
    BY <1>8, <2>1 DEF BootInv, SetupLoop, OtherTypes, fileVars, asking_fails
  <2> QED
    BY <2>2, <2>3, <2>4, <2>5 DEF BootInv, FilesOK, OtherTypes, TypeOK
<1> QED
  BY <1>1, <1>2, <1>3, <1>4, <1>5, <1>6, <1>7, <1>8 DEF Failures, copy_fails

(* What the app, the installer, continue.sh and the user do keeps it.      *)
LEMMA WorldStep ==
  ASSUME BootInv,
         AppWrites \/ InstallerWrites \/ InstallerSucceeds \/ User
  PROVE  BootInv'
<1> FilesOK /\ OtherTypes
  BY Halves DEF BootInv
<1>1. CASE AppWrites
  <2>1. UNCHANGED fileVars
    BY <1>1 DEF AppWrites, AppLeaves, setupVars, onceVars, histories
  <2>2. FilesOK'
    BY <2>1 DEF FilesOK, PairInLog, fileVars
  <2>3. OtherTypes'
    BY <1>1 DEF OtherTypes, Chain, AppWrites, AppLeaves, setupVars, onceVars,
                histories
  <2>4. PairInChain'
    BY <1>1, <2>1 DEF BootInv, PairInChain, fileVars, AppWrites, AppLeaves,
                      setupVars, onceVars, histories
  <2>5. SetupLoop'
    BY <1>1, <2>1 DEF BootInv, SetupLoop, OtherTypes, fileVars,
                AppWrites, AppLeaves, setupVars, onceVars, histories
  <2> QED
    BY <2>2, <2>3, <2>4, <2>5 DEF BootInv, FilesOK, OtherTypes, TypeOK
<1>2. CASE InstallerWrites
  <2> DEFINE d == [data EXCEPT !.cont = "whole",
                               !.dirty = @ \cup {"cont"}]
  <2>1. d \in DataType
    BY DEF FilesOK, DataType
  <2>2. OnData(d)
    BY <1>2 DEF InstallerWrites
  <2>4. FilesOK'
    BY <2>1, <2>2, DataChange
  <2>5. data' = d /\ UNCHANGED persist
    BY <2>2 DEF OnData
  <2>6. OtherTypes'
    BY <1>2 DEF OtherTypes, Chain, InstallerWrites, setupVars, onceVars,
                histories
  <2>7. PairInChain'
    BY <1>2, <2>5 DEF BootInv, PairInChain, InstallerWrites, setupVars,
                      histories
  <2>8. SetupLoop'
    BY <1>2, <2>5 DEF BootInv, SetupLoop, FilesOK, DataType,
                InstallerWrites, setupVars, onceVars, histories
  <2> HIDE DEF d
  <2> QED
    BY <2>4, <2>6, <2>7, <2>8 DEF BootInv, FilesOK, OtherTypes, TypeOK
<1>3. CASE InstallerSucceeds
  <2>1. UNCHANGED fileVars
    BY <1>3 DEF InstallerSucceeds, setupVars, onceVars, histories
  <2>2. FilesOK'
    BY <2>1 DEF FilesOK, PairInLog, fileVars
  <2>3. OtherTypes'
    BY <1>3 DEF OtherTypes, Chain, InstallerSucceeds, setupVars, onceVars,
                histories
  <2>4. PairInChain'
    BY <1>3, <2>1 DEF BootInv, PairInChain, fileVars, InstallerSucceeds,
                      setupVars, onceVars, histories
  <2>5. SetupLoop'
    BY <1>3, <2>1 DEF BootInv, SetupLoop, OtherTypes, fileVars,
                InstallerSucceeds, setupVars, onceVars, histories
  <2> QED
    BY <2>2, <2>3, <2>4, <2>5 DEF BootInv, FilesOK, OtherTypes, TypeOK
<1>4. CASE UserKeys
  <2> DEFINE d == [data EXCEPT !.params = TRUE, !.keys = "user",
                               !.dirty = @ \ {"keys"}]
  <2>1. d \in DataType
    BY DEF FilesOK, DataType
  <2>2. OnData(d)
    BY <1>4 DEF UserKeys
  <2>4. FilesOK'
    BY <2>1, <2>2, DataChange
  <2>5. data' = d /\ UNCHANGED persist
    BY <2>2 DEF OnData
  <2>6. OtherTypes'
    BY <1>4 DEF OtherTypes, Chain, UserKeys, setupVars, onceVars, histories
  <2>7. PairInChain'
    BY <1>4, <2>5 DEF BootInv, PairInChain, UserKeys, setupVars, onceVars,
                      histories
  <2>8. SetupLoop'
    BY <1>4, <2>5 DEF BootInv, SetupLoop, FilesOK, DataType,
                UserKeys, setupVars, onceVars, histories
  <2> HIDE DEF d
  <2> QED
    BY <2>4, <2>6, <2>7, <2>8 DEF BootInv, FilesOK, OtherTypes, TypeOK
<1>5. CASE Uninstall
  <2>1. persist' = [persist EXCEPT !.dirty = {}] /\ persistLog' = {persist'}
    BY <1>5 DEF Uninstall
  <2>2. /\ data' = [data EXCEPT !.cont = "none", !.dirty = {}]
        /\ dataLog' = {data'}
    BY <1>5 DEF Uninstall
  <2>3. persist' \in PersistType /\ persist'.dirty = {}
    BY <2>1 DEF FilesOK, PersistType
  <2>4. persist'.pub # NoFile => persist'.key = persist'.pub
    BY <2>1 DEF FilesOK, PairInLog, PersistType
  <2>5. data' \in DataType /\ data'.cont = "none"
    BY <2>2 DEF FilesOK, DataType
  <2>6. FilesOK'
    BY <2>1, <2>2, <2>3, <2>4, <2>5 DEF FilesOK, PairInLog
  <2>7. OtherTypes'
    <3>1. boot' \in Keys
      BY <1>5, BoundsAssumption DEF Uninstall, SwitchedOn, OtherTypes, Keys
    <3>2. runonce' \in BOOLEAN /\ installed' \in BOOLEAN
      BY <1>5, Zenon DEF Uninstall, SwitchedOn
    <3> QED
      BY <1>5, <3>1, <3>2 DEF Uninstall, SwitchedOn, OtherTypes
  <2>8. PairInChain' /\ SetupLoop'
    BY <1>5, <2>5 DEF Uninstall, SwitchedOn, PairInChain, SetupLoop
  <2> QED
    BY <2>6, <2>7, <2>8 DEF BootInv, FilesOK, OtherTypes, TypeOK
<1>6. CASE ContinueEnds
  <2>1. UNCHANGED fileVars
    BY <1>6 DEF ContinueEnds, setupVars, onceVars, histories
  <2>2. FilesOK'
    BY <2>1 DEF FilesOK, PairInLog, fileVars
  <2>3. OtherTypes'
    BY <1>6 DEF OtherTypes, Chain, ContinueEnds, setupVars, onceVars, histories
  <2>4. PairInChain'
    BY <1>6, <2>1 DEF BootInv, PairInChain, fileVars, ContinueEnds, setupVars,
                      histories
  <2>5. SetupLoop'
    BY <1>6, <2>1 DEF BootInv, SetupLoop, OtherTypes, fileVars,
                ContinueEnds, setupVars, onceVars, histories
  <2> QED
    BY <2>2, <2>3, <2>4, <2>5 DEF BootInv, FilesOK, OtherTypes, TypeOK
<1>7. CASE ZygoteRestarts
  <2>1. UNCHANGED fileVars
    BY <1>7 DEF ZygoteRestarts, setupVars, onceVars, histories
  <2>2. FilesOK'
    BY <2>1 DEF FilesOK, PairInLog, fileVars
  <2>3. OtherTypes'
    BY <1>7 DEF OtherTypes, Chain, ZygoteRestarts, setupVars, onceVars,
                histories
  <2>4. PairInChain'
    BY <1>7, <2>1 DEF BootInv, PairInChain, fileVars, ZygoteRestarts,
                      setupVars, onceVars, histories
  <2>5. SetupLoop'
    BY <1>7, <2>1 DEF BootInv, SetupLoop, OtherTypes, fileVars,
                ZygoteRestarts, setupVars, onceVars, histories
  <2> QED
    BY <2>2, <2>3, <2>4, <2>5 DEF BootInv, FilesOK, OtherTypes, TypeOK
<1> QED
  BY <1>1, <1>2, <1>3, <1>4, <1>5, <1>6, <1>7 DEF User

(* A power loss between any two commands keeps it.                         *)
LEMMA LossStep ==
  ASSUME BootInv, PowerLoss
  PROVE  BootInv'
<1> FilesOK /\ OtherTypes
  BY Halves DEF BootInv
<1>1. FilesOK'
  BY AfterLoss
<1>2. OtherTypes'
  <2>1. boot' \in Keys
    BY BoundsAssumption DEF PowerLoss, SwitchedOn, OtherTypes, Keys
  <2>2. runonce' \in BOOLEAN /\ installed' \in BOOLEAN
    BY Zenon DEF PowerLoss, SwitchedOn
  <2>3. doubtful' \in BOOLEAN
    BY Zenon DEF PowerLoss, SwitchedOn
  <2> QED
    BY <2>1, <2>2, <2>3 DEF PowerLoss, SwitchedOn, OtherTypes
<1>3. PairInChain'
  BY DEF PowerLoss, SwitchedOn, PairInChain
<1>4. SetupLoop'
  BY DEF PowerLoss, SwitchedOn, SetupLoop, OtherTypes
<1> QED
  BY <1>1, <1>2, <1>3, <1>4 DEF BootInv, FilesOK, OtherTypes, TypeOK

-----------------------------------------------------------------------------
(* The invariant holds in every behaviour of comma.sh.                     *)
LEMMA BootInvariant == Spec => []BootInv
<1>1. BootInv /\ [Next]_vars => BootInv'
  <2> SUFFICES ASSUME BootInv, [Next]_vars PROVE BootInv'
    OBVIOUS
  <2>1. CASE Supervisor
    BY <2>1, ChainStep, LoopStep DEF Supervisor
  <2>6. CASE ran_before
    <3>1. /\ again' = FALSE
          /\ UNCHANGED <<pc, runonce, fileVars, setupVars, histories>>
      BY <2>6, Zenon DEF ran_before
    <3>2. again' \in BOOLEAN
      BY <3>1, Zenon
    <3> QED
      BY <3>1, <3>2 DEF BootInv, TypeOK, PairInLog, PairInChain, SetupLoop,
                        fileVars, setupVars, histories
  <2>2. CASE Failures
    BY <2>2, FailureStep
  <2>3. CASE AppWrites \/ InstallerWrites \/ InstallerSucceeds \/ User
    BY <2>3, WorldStep
  <2>4. CASE PowerLoss
    BY <2>4, LossStep
  <2>5. CASE UNCHANGED vars
    BY <2>5 DEF BootInv, TypeOK, PairInLog, PairInChain, SetupLoop, vars,
                fileVars, setupVars, onceVars, histories
  <2> QED
    BY <2>1, <2>2, <2>3, <2>4, <2>5, <2>6 DEF Next
<1> QED
  BY <1>1, BootInit, PTL DEF Spec

(* Types, and with them that the renamed key files are never torn.         *)
THEOREM TypeCorrect == Spec => []TypeOK
  BY BootInvariant, PTL DEF BootInv

(* Where there is a public key there is the private key it belongs to,     *)
(* whenever the power goes and whichever command fails.                    *)
THEOREM KeyPairKept == Spec => []PairMatches
<1>1. BootInv => PairMatches
  BY DEF BootInv, PairInLog, PairMatches
<1> QED
  BY <1>1, BootInvariant, PTL

(* sshd does not accept the setup key any more when continue.sh runs.      *)
THEOREM SetupKeysCleared == Spec => []SetupKeysGone
<1>1. BootInv => SetupKeysGone
  BY DEF BootInv, SetupLoop, SetupKeysGone
<1> QED
  BY <1>1, BootInvariant, PTL

(* What is handed over to was left by an installer that succeeded, or      *)
(* brought back by a power loss.                                           *)
THEOREM HandedOver == Spec => []HandOver
<1>1. BootInv => HandOver
  BY DEF BootInv, SetupLoop, HandOver
<1> QED
  BY <1>1, BootInvariant, PTL

-----------------------------------------------------------------------------
(* The mark of a boot.  /runonce is there from the first command on, and   *)
(* nothing but the power takes it away; so the hand-over that was made is  *)
(* behind the supervisor, and a script that is started again ends at once. *)
MarkInv ==
    /\ pc # "boot" => runonce
    /\ execs \in {0, 1}
    /\ execs # 0 => pc \in {"continue", "ended"} /\ runonce

(* Per switching on there is one hand-over at most.                        *)
THEOREM HandsOverOnce == Spec => []OncePerBoot
<1>1. Init => MarkInv
  BY DEF Init, MarkInv
<1>2. TypeOK /\ MarkInv /\ [Next]_vars => MarkInv'
  <2> SUFFICES ASSUME TypeOK, MarkInv, [Next]_vars PROVE MarkInv'
    OBVIOUS
  <2> USE DEF MarkInv
  <2>1. CASE runs_once
    BY <2>1 DEF runs_once, histories
  <2>2. CASE exec_continue
    BY <2>2 DEF exec_continue, onceVars
  <2>3. CASE Uninstall \/ PowerLoss
    BY <2>3 DEF Uninstall, PowerLoss, SwitchedOn
  <2>4. CASE ContinueEnds \/ ZygoteRestarts \/ ran_before
    BY <2>4 DEF ContinueEnds, ZygoteRestarts, ran_before, onceVars, histories
  <2>5. CASE \/ genrsa \/ pubout \/ sync_keys \/ mv_key \/ mv_pub
             \/ chmod_key \/ sync_pair \/ chain_fails
    BY <2>5 DEF genrsa, pubout, sync_keys, mv_key, mv_pub, chmod_key,
                sync_pair, chain_fails, Chain, GoTo, onceVars, histories
  <2>6. CASE \/ make_params \/ copy_setup_keys \/ copy_fails
             \/ clear_setup_keys \/ leave_keys
    BY <2>6 DEF make_params, copy_setup_keys, copy_fails, clear_setup_keys,
                leave_keys, GoTo, onceVars, histories
  <2>7. CASE \/ ask_for_installer \/ wait_for_installer \/ run_installer
             \/ installer_ended \/ installer_failed \/ asking_fails
    BY <2>7 DEF ask_for_installer, wait_for_installer, run_installer,
                installer_ended, installer_failed, asking_fails, GoTo,
                onceVars, histories, vars
  <2>8. CASE AppWrites \/ AppIsCut \/ InstallerWrites \/ UserKeys
    BY <2>8 DEF AppWrites, AppLeaves, AppIsCut, InstallerWrites, UserKeys,
                onceVars, histories
  <2>9. CASE InstallerSucceeds \/ InstallerFails \/ UNCHANGED vars
    BY <2>9 DEF InstallerSucceeds, InstallerFails, onceVars, histories, vars
  <2> QED
    BY <2>1, <2>2, <2>3, <2>4, <2>5, <2>6, <2>7, <2>8, <2>9
       DEF Next, Supervisor, Failures, User
<1>3. MarkInv => OncePerBoot
  BY DEF MarkInv, OncePerBoot
<1> QED
  BY <1>1, <1>2, <1>3, TypeCorrect, PTL DEF Spec

-----------------------------------------------------------------------------
(* The identity of the device.  As long as the chain has not failed, a loop *)
(* that has got past the chain has a public key in every state a power     *)
(* loss may leave, and once one was handed over it is the same in all.     *)
IdentityInv ==
    ~broken =>
    /\ pc # "boot" => runonce
    /\ pc = "boot" /\ ~runonce => persistLog = {persist}
    /\ pc \in Chain => seen = NoFile
    /\ pc \in {"chmod", "sync_pair"} => persist.pub # NoFile
    /\ pc \notin Chain \cup {"boot", "ended"} =>
            /\ persist.pub # NoFile
            /\ \A p \in persistLog : p.pub = persist.pub
    /\ seen # NoFile => \A p \in persistLog : p.pub = seen

(* While the key pair is made nothing has been handed over yet.            *)
LEMMA IdentityChain ==
  ASSUME BootInv, IdentityInv,
         \/ genrsa \/ pubout \/ sync_keys \/ mv_key \/ mv_pub \/ chmod_key
         \/ sync_pair
  PROVE  IdentityInv'
<1>1. pc \in Chain /\ UNCHANGED <<runonce, seen, broken>>
  BY DEF genrsa, pubout, sync_keys, mv_key, mv_pub, chmod_key, sync_pair,
         GoTo, Chain, onceVars, histories
<1>2. pc' \in Chain \/ (sync_pair /\ pc' = "setup_keys")
  BY DEF genrsa, pubout, sync_keys, mv_key, mv_pub, chmod_key, sync_pair,
         GoTo, Chain
<1>3. pc' \in {"chmod", "sync_pair"} => persist'.pub # NoFile \/ broken
  <2>1. CASE mv_pub
    <3>1. persist' = [persist EXCEPT !.pub = persist.tmpPub,
                                     !.tmpPub = NoFile,
                                     !.dirty = Moved("tmpPub", "pub")]
      BY <2>1 DEF mv_pub, OnPersist
    <3>2. persist.tmpPub \in Keys
      BY <2>1 DEF mv_pub, BootInv, PairInChain
    <3> QED
      BY <3>1, <3>2, FirstBoot DEF BootInv, TypeOK, PersistType
  <2>2. CASE chmod_key
    <3>1. persist' = [persist EXCEPT !.readable = TRUE]
      BY <2>2 DEF chmod_key, OnPersist
    <3> QED
      BY <2>2, <3>1 DEF chmod_key, BootInv, TypeOK, PersistType, IdentityInv
  <2> QED
    BY <2>1, <2>2 DEF genrsa, pubout, sync_keys, mv_key, sync_pair, GoTo
<1>4. sync_pair =>
        \/ broken
        \/ persist'.pub # NoFile /\ \A p \in persistLog' : p.pub = persist'.pub
  <2> SUFFICES ASSUME sync_pair, ~broken
               PROVE  /\ persist'.pub # NoFile
                      /\ \A p \in persistLog' : p.pub = persist'.pub
    OBVIOUS
  <2>1. persist' = [persist EXCEPT !.dirty = {}] /\ persistLog' = {persist'}
    BY DEF sync_pair, Sync
  <2>2. persist.pub # NoFile
    BY DEF sync_pair, IdentityInv
  <2> QED
    BY <2>1, <2>2 DEF BootInv, TypeOK, PersistType
<1>5. ~broken => runonce' /\ seen' = NoFile
  BY <1>1 DEF IdentityInv, Chain
<1>6. CASE pc' \in Chain
  BY <1>1, <1>3, <1>5, <1>6 DEF IdentityInv, Chain
<1>7. CASE sync_pair /\ pc' = "setup_keys"
  BY <1>1, <1>4, <1>5, <1>7 DEF IdentityInv, Chain
<1> QED
  BY <1>2, <1>6, <1>7

(* A step that leaves /persist alone.                                      *)
LEMMA IdentityLoop ==
  ASSUME BootInv, IdentityInv, UNCHANGED <<persist, persistLog>>,
         \/ runs_once
         \/ make_params \/ copy_setup_keys \/ clear_setup_keys \/ leave_keys
         \/ exec_continue \/ ask_for_installer \/ wait_for_installer
         \/ run_installer \/ installer_ended \/ installer_failed
         \/ AppWrites \/ InstallerWrites \/ InstallerSucceeds
         \/ InstallerFails
         \/ copy_fails \/ asking_fails \/ AppIsCut
         \/ UserKeys \/ ContinueEnds \/ ZygoteRestarts \/ ran_before
  PROVE  IdentityInv'
<1>1. persist \in persistLog
  BY DEF BootInv, PairInLog
<1>2. CASE runs_once
  BY <1>1, <1>2 DEF runs_once, IdentityInv, Chain, onceVars, histories
<1>3. CASE exec_continue
  BY <1>1, <1>3 DEF exec_continue, IdentityInv, Chain, onceVars
<1>4. CASE \/ make_params \/ copy_setup_keys \/ clear_setup_keys
           \/ leave_keys \/ run_installer
           \/ installer_ended \/ installer_failed
  BY <1>4 DEF make_params, copy_setup_keys, clear_setup_keys, leave_keys,
              run_installer, installer_ended, installer_failed, GoTo,
              IdentityInv, Chain, onceVars, histories
<1>5. CASE ask_for_installer \/ wait_for_installer
  BY <1>5 DEF ask_for_installer, wait_for_installer, vars, IdentityInv,
              Chain, onceVars, histories
<1>6. CASE AppWrites \/ InstallerWrites \/ UserKeys
  BY <1>6 DEF AppWrites, AppLeaves, InstallerWrites, UserKeys, IdentityInv,
              Chain, onceVars, histories
<1>7. CASE InstallerSucceeds \/ ContinueEnds
  BY <1>7 DEF InstallerSucceeds, ContinueEnds, IdentityInv, Chain, onceVars,
              histories
<1>8. CASE ZygoteRestarts \/ ran_before
  BY <1>8 DEF ZygoteRestarts, ran_before, IdentityInv, Chain, onceVars,
              histories
<1>9. CASE InstallerFails
  <2>1. pc' \in {"failed", "succeeded"} /\ UNCHANGED broken
    BY <1>9 DEF InstallerFails
  <2>2. pc = "installing" /\ UNCHANGED <<runonce, seen>>
    BY <1>9 DEF InstallerFails, onceVars
  <2> QED
    BY <2>1, <2>2 DEF IdentityInv, Chain
<1>10. CASE copy_fails \/ asking_fails
  BY <1>10 DEF copy_fails, asking_fails, IdentityInv, Chain, onceVars
<1>11. CASE AppIsCut
  BY <1>11 DEF AppIsCut, IdentityInv, Chain, onceVars
<1> QED
  BY <1>2, <1>3, <1>4, <1>5, <1>6, <1>7, <1>8, <1>9, <1>10, <1>11

(* Switching off and on, by a power loss or with a removal.                *)
LEMMA IdentityBoot ==
  ASSUME BootInv, IdentityInv, Uninstall \/ PowerLoss
  PROVE  IdentityInv'
<1>1. /\ pc' = "boot" /\ UNCHANGED <<broken, seen>>
      /\ persistLog' = {persist'}
  BY DEF Uninstall, PowerLoss, SwitchedOn
<1>2. \E p \in persistLog : persist'.pub = p.pub
  <2>1. CASE Uninstall
    BY <2>1 DEF Uninstall, BootInv, TypeOK, PairInLog, PersistType
  <2>2. CASE PowerLoss
    <3>1. PICK p \in persistLog : persist' \in TornPersist(p)
      BY <2>2 DEF PowerLoss
    <3>2. p \in PersistType /\ p.dirty \subseteq {"tmp", "tmpPub"}
      BY <3>1 DEF BootInv, TypeOK, PairInLog
    <3> QED
      BY <3>1, <3>2, PersistLeft
  <2> QED
    BY <2>1, <2>2
<1>3. runonce' = FALSE
  BY DEF Uninstall, PowerLoss, SwitchedOn
<1> QED
  BY <1>1, <1>2, <1>3 DEF IdentityInv, Chain

(* The public key that was handed over first is the device's for ever,     *)
(* unless one of the commands that make the pair has failed.               *)
THEOREM IdentityStays == Spec => []IdentityKept
<1>1. Init => IdentityInv
  BY DEF Init, IdentityInv, Chain, NoFile
<1>2. BootInv /\ IdentityInv /\ [Next]_vars => IdentityInv'
  <2> SUFFICES ASSUME BootInv, IdentityInv, [Next]_vars PROVE IdentityInv'
    OBVIOUS
  <2>1. CASE \/ genrsa \/ pubout \/ sync_keys \/ mv_key \/ mv_pub \/ chmod_key
             \/ sync_pair
    BY <2>1, IdentityChain
  <2>2. CASE \/ runs_once
             \/ make_params \/ copy_setup_keys \/ clear_setup_keys
             \/ leave_keys \/ exec_continue \/ ask_for_installer
             \/ wait_for_installer \/ run_installer \/ installer_ended
             \/ installer_failed \/ InstallerFails \/ AppWrites
             \/ InstallerWrites \/ InstallerSucceeds \/ UserKeys
             \/ ContinueEnds \/ ZygoteRestarts \/ ran_before
             \/ copy_fails \/ asking_fails \/ AppIsCut
    <3>1. UNCHANGED <<persist, persistLog>>
      BY <2>2 DEF runs_once, make_params, copy_setup_keys, clear_setup_keys,
                  leave_keys, exec_continue, ask_for_installer,
                  wait_for_installer, run_installer, installer_ended,
                  installer_failed, InstallerFails, AppWrites, AppLeaves,
                  InstallerWrites, InstallerSucceeds, UserKeys, ContinueEnds,
                  ZygoteRestarts, ran_before, copy_fails, asking_fails,
                  AppIsCut, OnData, fileVars, vars
    <3> QED
      BY <2>2, <3>1, IdentityLoop
  <2>3. CASE chain_fails
    BY <2>3 DEF chain_fails, IdentityInv
  <2>4. CASE Uninstall \/ PowerLoss
    BY <2>4, IdentityBoot
  <2>5. CASE UNCHANGED vars
    BY <2>5 DEF IdentityInv, vars, onceVars, fileVars, histories
  <2> QED
    BY <2>1, <2>2, <2>3, <2>4, <2>5 DEF Next, Supervisor, Failures, User
<1>3. BootInv /\ IdentityInv => IdentityKept
  BY DEF BootInv, PairInLog, IdentityInv, IdentityKept
<1> QED
  BY <1>1, <1>2, <1>3, BootInvariant, PTL DEF Spec

(* As long as the power stays on, the keys of the user are not touched.    *)
THEOREM UserKeysStay == Spec => UserKeysKept
<1>1. BootInv /\ [Next]_vars =>
        (data.keys = "user" /\ boot' = boot => data'.keys = "user")
  <2> SUFFICES ASSUME BootInv, [Next]_vars, data.keys = "user", boot' = boot
               PROVE  data'.keys = "user"
    OBVIOUS
  <2>1. data \in DataType /\ boot \in Nat
    BY BoundsAssumption DEF BootInv, TypeOK, Keys
  <2>2. ~copy_setup_keys /\ ~copy_fails /\ ~UserKeys
    BY DEF copy_setup_keys, copy_fails, UserKeys, BootInv, SetupLoop
  <2>3. ~Uninstall /\ ~PowerLoss
    BY <2>1 DEF Uninstall, PowerLoss, SwitchedOn
  <2>4. CASE make_params \/ clear_setup_keys \/ installer_failed
             \/ InstallerWrites
    BY <2>1, <2>4 DEF make_params, clear_setup_keys, installer_failed,
                      InstallerWrites, OnData, DataType, fileVars
  <2>5. CASE sync_keys \/ sync_pair
    BY <2>1, <2>5 DEF sync_keys, sync_pair, Sync, DataType
  <2>6. CASE genrsa \/ pubout \/ mv_key \/ mv_pub \/ chmod_key \/ chain_fails
    BY <2>6 DEF genrsa, pubout, mv_key, mv_pub, chmod_key, chain_fails,
                LeftByChain, OnPersist, fileVars
  <2>7. CASE \/ runs_once \/ leave_keys \/ exec_continue
             \/ ask_for_installer \/ wait_for_installer \/ run_installer
             \/ installer_ended \/ AppIsCut \/ InstallerFails \/ AppWrites
             \/ InstallerSucceeds \/ ContinueEnds \/ ZygoteRestarts
             \/ ran_before \/ asking_fails \/ UNCHANGED vars
    BY <2>7 DEF runs_once, leave_keys, exec_continue, ask_for_installer,
                wait_for_installer, run_installer, installer_ended, AppIsCut,
                InstallerFails, AppWrites, AppLeaves, InstallerSucceeds,
                ContinueEnds, ZygoteRestarts, ran_before, asking_fails,
                fileVars, vars
  <2> QED
    BY <2>2, <2>3, <2>4, <2>5, <2>6, <2>7
       DEF Next, Supervisor, Failures, User
<1> QED
  BY <1>1, BootInvariant, PTL DEF Spec, UserKeysKept

=============================================================================
