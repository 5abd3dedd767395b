--------------------------- MODULE ReleaseProofs ---------------------------
(***************************************************************************)
(* What a release keeps, for any number of toolchains, pulls, builds, runs *)
(* of the scripts and interruptions.                                       *)
(*                                                                         *)
(* The toolchains.  Every directory that is there is whole and, unless it  *)
(* is older than its tarball, of its version (Held); what the script has   *)
(* removed or passed follows from where it is (Removed, Current, Present). *)
(*                                                                         *)
(* The images.  The two json files agree but while one of them is written  *)
(* (JsonsAgree); as long as nothing is prepared again, what the updater    *)
(* was given is what they say (Procedure), and how far a push has come     *)
(* says what the bucket holds (Pushed).                                    *)
(*                                                                         *)
(* The download.  A file that is whole has the content of its name, which  *)
(* is why a link to one with the hash asked for leads to the file asked    *)
(* for (BaseInv).                                                          *)
(***************************************************************************)
EXTENDS Release, TLAPS

-----------------------------------------------------------------------------
(* The toolchain cache.                                                    *)

ToolDir == [there : BOOLEAN, version : Nat, whole : BOOLEAN, older : BOOLEAN,
            olderThanScript : BOOLEAN]

ToolTypeOK ==
    /\ wanted \in [Toolchain -> Nat]
    /\ dir \in [Toolchain -> ToolDir]
    /\ epc \in {"idle", "rm", "extract", "extracted"}
    /\ todo \in Seq(Toolchain)

(* What a directory that is there holds, whatever the script is doing.     *)
Held ==
    \A t \in Toolchain \ cutShort : dir[t].there =>
        /\ dir[t].whole
        /\ t \in ToSet(Compared) /\ ~dir[t].older => dir[t].version = wanted[t]

(* What the script has done when it comes to a step.                       *)
Removed ==
    epc = "rm" => \A t \in ToSet(Compared) : t \in ToSet(todo) \/ ~dir[t].there

Current ==
    epc \in {"extract", "extracted"} =>
        \A t \in ToSet(Compared) \ cutShort :
            dir[t].there => dir[t].version = wanted[t]

Present ==
    /\ epc = "extract" =>
          \A t \in Toolchain : dir[t].there \/ t \in ToSet(todo)
    /\ epc = "extracted" => \A t \in Toolchain : dir[t].there

ToolInv == ToolTypeOK /\ Held /\ Removed /\ Current /\ Present

(* Every toolchain is in one list or the other.                            *)
LEMMA InLists ==
  /\ ToSet(Compared) \subseteq Toolchain
  /\ Compared \o Uncompared \in Seq(Toolchain)
  /\ ToSet(Compared \o Uncompared) = Toolchain
<1>1. ToSet(Compared) \subseteq Toolchain
  BY ToolchainsAssumption DEF ToSet
<1>2. Compared \o Uncompared \in Seq(Toolchain)
  BY ToolchainsAssumption
<1>3. QED  BY <1>1, <1>2 DEF Toolchain

(* The head of a list is done, the rest is left.                           *)
LEMMA HeadOrRest ==
  ASSUME NEW s \in Seq(Toolchain), s # <<>>
  PROVE  /\ Head(s) \in Toolchain
         /\ Tail(s) \in Seq(Toolchain)
         /\ \A t \in ToSet(s) : t = Head(s) \/ t \in ToSet(Tail(s))
         /\ Len(s) > 1 \/ Tail(s) = <<>>
<1>1. \A t \in ToSet(s) : t = Head(s) \/ t \in ToSet(Tail(s))
  <2>1. SUFFICES ASSUME NEW k \in DOMAIN s, k # 1
                 PROVE  s[k] \in ToSet(Tail(s))
    BY DEF ToSet
  <2>2. k - 1 \in DOMAIN Tail(s) /\ Tail(s)[k - 1] = s[k]
    BY <2>1
  <2>3. QED  BY <2>2 DEF ToSet
<1>2. QED  BY <1>1

(* What mkdir leaves, and what rm does.                                    *)
LEMMA Made ==
  ASSUME NEW v \in Nat
  PROVE  /\ MadeFrom(v) \in ToolDir
         /\ MadeFrom(v).there /\ MadeFrom(v).version = v
         /\ NoDir \in ToolDir /\ ~NoDir.there
BY DEF MadeFrom, NoDir, ToolDir

(* The cache at the start: not there, or of the release before.            *)
LEMMA ToolInit_Inv == ToolInit => ToolInv
<1> SUFFICES ASSUME ToolInit PROVE ToolInv
  OBVIOUS
<1>1. /\ Extracted \in ToolDir /\ Extracted.whole /\ Extracted.version = 1
      /\ NoDir \in ToolDir /\ ~NoDir.there
  BY DEF Extracted, MadeFrom, NoDir, ToolDir
<1>2. PICK d \in {NoDir, Extracted} : dir = [t \in Toolchain |-> d]
  BY DEF ToolInit
<1>3. \A t \in Toolchain : dir[t] \in ToolDir
        /\ (dir[t].there => dir[t].whole /\ dir[t].version = wanted[t])
  BY <1>1, <1>2 DEF ToolInit
<1>4. QED
  BY <1>1, <1>2, <1>3, InLists
  DEF ToolInit, ToolInv, ToolTypeOK, Held, Removed, Current, Present

(* Every step of extract_toolchains.sh, and every pull.                    *)
LEMMA ToolNext_Inv == ToolInv /\ ToolNext => ToolInv'
<1> SUFFICES ASSUME ToolInv, ToolNext PROVE ToolInv'
  OBVIOUS
<1> USE DEF ToolInv, ToolTypeOK, ToolDir, Held, Removed, Current, Present
<1>1. CASE \E t \in Toolchain : NewTarball(t)
  <2>1. PICK t \in Toolchain : NewTarball(t)
    BY <1>1
  <2>2. /\ dir' = [dir EXCEPT ![t] = [dir[t] EXCEPT !.older = dir[t].there]]
        /\ [dir[t] EXCEPT !.older = dir[t].there] \in ToolDir
    BY <2>1 DEF NewTarball
  <2>3. \A s \in Toolchain : s # t =>
           dir'[s] = dir[s] /\ wanted'[s] = wanted[s]
    BY <2>1, <2>2 DEF NewTarball
  <2>4. /\ dir'[t].there = dir[t].there /\ dir'[t].whole = dir[t].whole
        /\ dir'[t].older = dir[t].there
    BY <2>2
  <2>5. QED  BY <2>1, <2>2, <2>3, <2>4, InLists DEF NewTarball
<1>2. CASE NewScript
  <2>1. /\ epc = "idle"
        /\ UNCHANGED <<wanted, epc, todo, cutShort>>
        /\ dir' = [t \in Toolchain |->
                     [dir[t] EXCEPT !.olderThanScript = dir[t].there]]
    BY <1>2 DEF NewScript
  <2>2. /\ dir' \in [Toolchain -> ToolDir]
        /\ \A t \in Toolchain : /\ dir'[t].there = dir[t].there
                                /\ dir'[t].whole = dir[t].whole
                                /\ dir'[t].version = dir[t].version
                                /\ dir'[t].older = dir[t].older
    <3>1. dir \in [Toolchain -> ToolDir]
      OBVIOUS
    <3>2. ASSUME NEW t \in Toolchain
          PROVE  /\ dir'[t] \in ToolDir
                 /\ dir'[t].there = dir[t].there
                 /\ dir'[t].whole = dir[t].whole
                 /\ dir'[t].version = dir[t].version
                 /\ dir'[t].older = dir[t].older
      <4>1. dir[t] \in ToolDir
        BY <3>1, Zenon
      <4>2. dir'[t] = [dir[t] EXCEPT !.olderThanScript = dir[t].there]
        BY <2>1, Zenon
      <4> HIDE DEF ToolInv, ToolTypeOK, Held, Removed, Current, Present
      <4> QED
        BY <4>1, <4>2 DEF ToolDir
    <3>3. dir' = [t \in Toolchain |-> dir'[t]]
      BY <2>1
    <3>4. dir' \in [Toolchain -> ToolDir]
      BY <3>2, <3>3, Zenon
    <3> QED
      BY <3>2, <3>4, Zenon
  <2>3. ToolTypeOK'
    BY <2>1, <2>2
  <2>4. Held'
    <3>1. ASSUME NEW t \in Toolchain \ cutShort, dir'[t].there
          PROVE  /\ dir'[t].whole
                 /\ t \in ToSet(Compared) /\ ~dir'[t].older
                      => dir'[t].version = wanted[t]
      <4>1. dir[t].there /\ t \in Toolchain \ cutShort
        BY <2>2, <3>1, Zenon
      <4>2. /\ dir[t].whole
            /\ t \in ToSet(Compared) /\ ~dir[t].older
                 => dir[t].version = wanted[t]
        BY <4>1, Zenon DEF Held
      <4> QED
        BY <2>2, <3>1, <4>2, Zenon
    <3> QED
      BY <2>1, <3>1, Zenon DEF Held
  <2>5. QED
    BY <2>1, <2>3, <2>4
<1>3. CASE check
  <2>1. CASE \E t \in ToSet(Compared) : Needed(t)
    BY <1>3, <2>1, ToolchainsAssumption DEF check
  <2>2. CASE ~\E t \in ToSet(Compared) : Needed(t)
    BY <1>3, <2>2, InLists DEF check, Needed
  <2>3. QED  BY <2>1, <2>2
<1>4. CASE rm
  <2>1. /\ Head(todo) \in Toolchain /\ Tail(todo) \in Seq(Toolchain)
        /\ \A t \in ToSet(todo) : t = Head(todo) \/ t \in ToSet(Tail(todo))
        /\ Len(todo) > 1 \/ Tail(todo) = <<>>
    BY <1>4, HeadOrRest DEF rm
  <2>2. NoDir \in ToolDir /\ ~NoDir.there
    BY DEF NoDir
  <2>3. \A t \in ToSet(Compared) : t \in ToSet(Tail(todo)) \/ ~dir'[t].there
    BY <1>4, <2>1, <2>2, InLists DEF rm
  <2>4. CASE Len(todo) > 1
    BY <1>4, <2>1, <2>2, <2>3, <2>4, InLists DEF rm
  <2>5. CASE ~(Len(todo) > 1)
    <3>1. \A t \in ToSet(Compared) : ~dir'[t].there
      BY <2>1, <2>3, <2>5 DEF ToSet
    <3>2. QED  BY <1>4, <2>1, <2>2, <2>5, <3>1, InLists DEF rm
  <2>6. QED  BY <2>4, <2>5
<1>5. CASE extract
  <2>1. /\ Head(todo) \in Toolchain /\ Tail(todo) \in Seq(Toolchain)
        /\ \A t \in ToSet(todo) : t = Head(todo) \/ t \in ToSet(Tail(todo))
    BY <1>5, HeadOrRest DEF extract
  <2> DEFINE d == [MadeFrom(wanted[Head(todo)]) EXCEPT !.whole = TRUE]
  <2>2. /\ d \in ToolDir /\ d.there /\ d.whole
        /\ d.version = wanted[Head(todo)]
    BY <2>1 DEF MadeFrom, NoDir
  <2>3. /\ dir' \in [Toolchain -> ToolDir]
        /\ \A t \in Toolchain :
             \/ dir'[t] = dir[t] /\ (t = Head(todo) => dir[t].there)
             \/ /\ dir'[t].there /\ dir'[t].whole
                /\ dir'[t].version = wanted[t]
    BY <1>5, <2>1, <2>2 DEF extract
  <2>4. epc = "extract" /\ UNCHANGED <<wanted, epc, cutShort>> /\ todo' = Tail(todo)
    BY <1>5 DEF extract
  <2> HIDE DEF d
  <2>5. Held'
    BY <2>3, <2>4
  <2>6. Current'
    BY <2>3, <2>4, InLists
  <2>7. Present'
    <3>1. \A t \in Toolchain : dir'[t].there \/ t \in ToSet(Tail(todo))
      BY <2>1, <2>2, <2>3, <2>4, InLists
    <3>2. QED  BY <2>4, <3>1
  <2>8. QED  BY <2>1, <2>3, <2>4, <2>5, <2>6, <2>7
<1>6. CASE extracted
  BY <1>6 DEF extracted, ToSet
<1>7. CASE interrupted
  <2>1. Head(todo) \in Toolchain
    BY <1>7, HeadOrRest DEF interrupted
  <2>2. /\ dir' \in [Toolchain -> ToolDir]
        /\ \A t \in Toolchain \ cutShort' : dir'[t] = dir[t]
        /\ cutShort \subseteq cutShort'
    <3>1. CASE UNCHANGED <<dir, cutShort>>
      BY <3>1
    <3>2. CASE \E d \in ToolDir : /\ dir' = [dir EXCEPT ![Head(todo)] = d]
                                  /\ cutShort' = cutShort \cup {Head(todo)}
      BY <2>1, <3>2
    <3>3. /\ MadeFrom(dir[Head(todo)].version) \in ToolDir
          /\ MadeFrom(wanted[Head(todo)]) \in ToolDir
          /\ [dir[Head(todo)] EXCEPT !.whole = FALSE] \in ToolDir
          /\ [dir EXCEPT ![Head(todo)].whole = FALSE]
               = [dir EXCEPT ![Head(todo)] = [dir[Head(todo)] EXCEPT !.whole = FALSE]]
      <4>1. dir[Head(todo)] \in ToolDir /\ wanted[Head(todo)] \in Nat
        BY <2>1
      <4>2. dir[Head(todo)].version \in Nat
        BY <4>1 DEF ToolDir
      <4> HIDE DEF ToolInv, ToolTypeOK, Held, Removed, Current, Present
      <4>3. /\ MadeFrom(dir[Head(todo)].version) \in ToolDir
            /\ MadeFrom(wanted[Head(todo)]) \in ToolDir
        BY <4>1, <4>2, Made, Zenon
      <4>4. [dir[Head(todo)] EXCEPT !.whole = FALSE] \in ToolDir
        BY <4>1 DEF ToolDir
      <4> QED
        BY <4>3, <4>4
    <3>4. QED  BY <1>7, <3>1, <3>2, <3>3 DEF interrupted
  <2>3. epc' = "idle" /\ todo' = <<>> /\ wanted' = wanted
    BY <1>7 DEF interrupted
  <2>4. QED  BY <2>2, <2>3, InLists
<1>8. QED  BY <1>1, <1>2, <1>3, <1>4, <1>5, <1>6, <1>7 DEF ToolNext

(* The rest of the release leaves the cache alone, but for a build that    *)
(* ends.                                                                   *)
LEMMA Step_ToolInv == ToolInv /\ [Next]_vars => ToolInv'
<1> SUFFICES ASSUME ToolInv, [Next]_vars PROVE ToolInv'
  OBVIOUS
<1> USE DEF ToolInv, ToolTypeOK, Held, Removed, Current, Present
<1>1. CASE extract_toolchains
  BY <1>1, ToolNext_Inv DEF extract_toolchains
<1>2. CASE make_x_image
  BY <1>2 DEF make_x_image
<1>3. CASE UNCHANGED toolVars
  BY <1>3 DEF toolVars
<1>4. QED
  BY <1>1, <1>2, <1>3
  DEF Next, vars, pull_from_release, download, build_system, prepare,
      ota_push_staging, ota_push_prod, begin_push, pushing, push_done,
      update_staging_json, update_json

(* A build finds every toolchain whole and, where the script compares, of  *)
(* its tarball's version, unless a run was interrupted at that one.        *)
THEOREM CacheIsCurrent == Spec => []ToolchainsCurrent
<1>1. Init => ToolInv
  BY ToolInit_Inv DEF Init
<1>2. ToolInv => ToolchainsCurrent
  BY InLists DEF ToolInv, Held, Current, Present, ToolchainsCurrent
<1>3. QED  BY <1>1, <1>2, Step_ToolInv, PTL DEF Spec

-----------------------------------------------------------------------------
(* Preparing, pushing and publishing.                                      *)
Hash == Nat
Naming == [ota : Hash \cup {NoImage}, recovery : Hash \cup {NoImage}]
Image == [ota : Hash, recovery : Hash]
Contents == UNION {[names -> Hash] : names \in SUBSET Hash}
Directory == [ota : SUBSET Hash, recovery : Contents]

PrepareTypeOK ==
    /\ out \in Image
    /\ ppc \in {"idle", "copy", "zip", "prod", "staging", "local"}
    /\ p \in Naming
    /\ ppc # "idle" => p.recovery \in Hash
    /\ ppc \in {"prod", "staging", "local"} => p \in Image
    /\ neosupdate \in Directory
    /\ json \in [Targets -> Image]
    /\ torn \in BOOLEAN

PushTypeOK ==
    /\ upc \in {"idle", "read", "recovery", "ota", "pushed"}
    /\ u \in [target : Targets, files : Naming]
    /\ upc # "idle" => u.files.ota \in Hash
    /\ upc \in {"recovery", "ota", "pushed"} => u.files.recovery \in Hash
    /\ bucket \in [Targets -> Directory]

ReleaseTypeOK ==
    /\ left \in Bound
    /\ tested \in Image /\ shipped \in Image
    /\ prepared \in [Targets -> BOOLEAN]
    /\ PrepareTypeOK /\ PushTypeOK

(* What a file of that name holds.                                         *)
NamesRight ==
    /\ \A n \in DOMAIN neosupdate.recovery \ mixed : neosupdate.recovery[n] = n
    /\ \A t \in Targets : \A n \in DOMAIN bucket[t].recovery \ mixed :
          bucket[t].recovery[n] = n

JsonsAgree ==
    /\ ~torn => json.prod = json.staging
    /\ ppc = "staging" => json.prod = p

(* What the releaser has done and what the updater was given, as long as   *)
(* nothing was prepared again.                                             *)
Procedure ==
    /\ upc # "idle" /\ u.target = "prod" => rpc = "tested"
    /\ rpc \in {"tested", "prod", "shipped"} /\ ~prepared.staging =>
          tested = json.staging
    /\ rpc = "shipped" /\ ~(prepared.staging /\ prepared.prod) =>
          shipped = json.prod

(* How far the push to production has come.                                *)
Pushed ==
    /\ upc # "idle" /\ u.target = "prod" /\ ~prepared.prod =>
         /\ u.files.ota = json.prod.ota
         /\ upc \in {"recovery", "ota", "pushed"} =>
              u.files.recovery = json.prod.recovery
         /\ upc \in {"ota", "pushed"} =>
              u.files.recovery \in DOMAIN bucket.prod.recovery
         /\ upc = "pushed" => u.files.ota \in bucket.prod.ota
    /\ rpc \in {"prod", "shipped"} /\ ~prepared.prod =>
         /\ json.prod.ota \in bucket.prod.ota
         /\ json.prod.recovery \in DOMAIN bucket.prod.recovery

PublishInv ==
    ReleaseTypeOK /\ NamesRight /\ JsonsAgree /\ Procedure /\ Pushed

(* A directory with one more file.                                         *)
LEMMA FileWritten ==
  ASSUME NEW files \in Contents, NEW name \in Hash, NEW content \in Hash
  PROVE  /\ Written(files, name, content) \in Contents
         /\ DOMAIN Written(files, name, content) = DOMAIN files \cup {name}
         /\ Written(files, name, content)[name] = content
         /\ \A n \in DOMAIN files : n # name =>
               Written(files, name, content)[n] = files[n]
         /\ DOMAIN files \subseteq Hash /\ \A n \in DOMAIN files : files[n] \in Hash
<1>1. PICK names \in SUBSET Hash : files \in [names -> Hash]
  BY DEF Contents
<1>2. Written(files, name, content) \in [names \cup {name} -> Hash]
  BY <1>1 DEF Written
<1>3. Written(files, name, content) \in Contents
  BY <1>2 DEF Contents
<1>4. QED  BY <1>1, <1>3 DEF Written

(* A bound that is spent stays one.                                        *)
LEMMA Spent ==
  ASSUME left \in Bound,
         NEW what \in {"updates", "builds", "prepares", "pushes", "faults"},
         Spend(what)
  PROVE  left' \in Bound
BY DEF Bound, Spend

(* The release before has left the files of its own.                       *)
LEMMA Init_PublishInv == Init => PublishInv
<1> SUFFICES ASSUME Init PROVE PublishInv
  OBVIOUS
<1>1. Released \in Image /\ Nothing \in Naming
  BY DEF Released, Pair, Image, Nothing, Naming, Hash
<1>2. /\ Files(Released) \in Directory
      /\ Files(Released).recovery = [n \in {0} |-> n]
  <2>1. [n \in {0} |-> n] \in [{0} -> Hash] /\ 0 \in Hash
    BY DEF Hash
  <2>2. [n \in {0} |-> n] \in Contents
    BY <2>1 DEF Contents
  <2>3. Files(Released) = [ota |-> {0}, recovery |-> [n \in {0} |-> n]]
    BY DEF Files, Released, Pair
  <2>4. QED  BY <2>1, <2>2, <2>3 DEF Directory
<1>3. ReleaseTypeOK
  BY <1>1, <1>2, BoundsAssumption
  DEF Init, OtaInit, ReleaseTypeOK, PrepareTypeOK, PushTypeOK, NoPush, Targets
<1>4. NamesRight
  BY <1>2 DEF Init, OtaInit, NamesRight
<1>5. JsonsAgree /\ Procedure /\ Pushed
  BY DEF Init, OtaInit, JsonsAgree, Procedure, Pushed, Targets
<1>6. QED  BY <1>3, <1>4, <1>5 DEF PublishInv

-----------------------------------------------------------------------------
(* prepare_ota.sh, command by command.                                     *)
LEMMA Prepare_PublishInv == PublishInv /\ prepare => PublishInv'
<1> SUFFICES ASSUME PublishInv, prepare PROVE PublishInv'
  OBVIOUS
<1> USE DEF PublishInv, ReleaseTypeOK, PrepareTypeOK, PushTypeOK
<1>1. /\ prepared' = [t \in Targets |-> TRUE]
      /\ UNCHANGED <<out, pushVars, rpc, tested, shipped>>
  BY DEF prepare, prepare_ota, hash_recovery, copy_recovery, zip_ota, tee_json,
         tee_local_json, interrupt_prepare, prepare_ends
<1>2. /\ left' \in Bound
      /\ prepared' \in [Targets -> BOOLEAN] /\ prepared'.prod /\ prepared'.staging
  BY <1>1, Spent
  DEF prepare, prepare_ota, hash_recovery, copy_recovery, zip_ota, tee_json,
      tee_local_json, interrupt_prepare, Targets
<1>3. Procedure' /\ Pushed' /\ PushTypeOK'
  BY <1>1, <1>2 DEF Procedure, Pushed, pushVars
<1>4. CASE hash_recovery
  <2>1. p' \in Naming /\ p'.recovery \in Hash
    BY <1>4 DEF hash_recovery, Pair, Naming, Image
  <2>2. QED  BY <1>1, <1>2, <1>3, <1>4, <2>1
         DEF hash_recovery, NamesRight, JsonsAgree, pushVars
<1>5. CASE copy_recovery
  <2>1. /\ neosupdate.recovery \in Contents /\ p.recovery \in Hash
        /\ out.recovery \in Hash
    BY <1>5 DEF copy_recovery, Directory, Image
  <2>2. \E files \in Contents :
          files = Written(neosupdate.recovery, p.recovery, out.recovery)
    BY <2>1, FileWritten
  <2>3. PICK files \in Contents :
          files = Written(neosupdate.recovery, p.recovery, out.recovery)
    BY <2>2
  <2>4. /\ DOMAIN files = DOMAIN neosupdate.recovery \cup {p.recovery}
         /\ files[p.recovery] = out.recovery
         /\ \A n \in DOMAIN neosupdate.recovery : n # p.recovery =>
              files[n] = neosupdate.recovery[n]
    BY <2>3 DEF Written
  <2>5. neosupdate' = [neosupdate EXCEPT !.recovery = files]
    BY <1>5, <2>3 DEF copy_recovery
  <2>6. neosupdate' \in Directory /\ neosupdate'.recovery = files
    BY <2>3, <2>5 DEF Directory
  <2>7. /\ mixed \subseteq mixed'
        /\ p.recovery \in mixed' \/ out.recovery = p.recovery
    BY <1>5 DEF copy_recovery
  <2>8. NamesRight'
    BY <1>1, <2>4, <2>6, <2>7 DEF NamesRight, pushVars
  <2>9. ppc' = "zip" /\ p' = p /\ json' = json /\ torn' = torn
    BY <1>5 DEF copy_recovery
  <2>10. PrepareTypeOK' /\ JsonsAgree'
    BY <1>1, <2>1, <2>6, <2>9 DEF JsonsAgree
  <2>11. QED  BY <1>1, <1>2, <1>3, <2>8, <2>10
<1>6. CASE zip_ota
  <2>1. /\ p' = [p EXCEPT !.ota = out.ota]
        /\ neosupdate' = [neosupdate EXCEPT !.ota = @ \cup {out.ota}]
        /\ ppc = "zip" /\ ppc' = "prod"
        /\ UNCHANGED <<json, mixed, torn>>
    BY <1>6 DEF zip_ota
  <2>2. p' \in Image
    BY <2>1 DEF Naming, Image
  <2>3. p' \in Naming
    BY <2>2 DEF Naming, Image
  <2>4. neosupdate' \in Directory /\ neosupdate'.recovery = neosupdate.recovery
    BY <2>1 DEF Directory, Image
  <2>5. PrepareTypeOK'
    BY <1>1, <2>1, <2>2, <2>3, <2>4 DEF Image
  <2>6. NamesRight' /\ JsonsAgree'
    BY <1>1, <2>1, <2>4 DEF NamesRight, JsonsAgree, pushVars
  <2>7. QED  BY <1>1, <1>2, <1>3, <2>5, <2>6
<1>7. CASE tee_json("prod", "staging")
  <2>1. PrepareTypeOK'
    BY <1>1, <1>7 DEF tee_json, Targets
  <2>2. NamesRight' /\ JsonsAgree'
    BY <1>1, <1>7 DEF tee_json, Targets, NamesRight, JsonsAgree, pushVars
  <2>3. QED  BY <1>1, <1>2, <1>3, <2>1, <2>2
<1>8. CASE tee_json("staging", "local")
  <2>1. PrepareTypeOK'
    BY <1>1, <1>8 DEF tee_json, Targets
  <2>2. NamesRight' /\ JsonsAgree'
    BY <1>1, <1>8 DEF tee_json, Targets, NamesRight, JsonsAgree, pushVars
  <2>3. QED  BY <1>1, <1>2, <1>3, <2>1, <2>2
<1>9. CASE prepare_ends
  <2>1. p' \in Naming
    BY <1>9 DEF prepare_ends, Nothing, Pair, Naming
  <2>2. QED  BY <1>1, <1>2, <1>3, <1>9, <2>1
         DEF prepare_ends, NamesRight, JsonsAgree, pushVars
<1>10. QED
  BY <1>4, <1>5, <1>6, <1>7, <1>8, <1>9
  DEF prepare, prepare_ota, tee_local_json, interrupt_prepare

-----------------------------------------------------------------------------
(* Build, and all that leaves the publishing alone.                        *)
LEMMA Build_PublishInv ==
  ASSUME PublishInv, left' \in Bound, out' \in Image,
         UNCHANGED <<prepareVars, pushVars, releaseVars>>
  PROVE  PublishInv'
BY DEF PublishInv, ReleaseTypeOK, PrepareTypeOK, PushTypeOK, NamesRight,
       JsonsAgree, Procedure, Pushed, prepareVars, pushVars, releaseVars

(* A push begins; the one to production only after the test.               *)
LEMMA Begin_PublishInv ==
  ASSUME PublishInv, ota_push_staging \/ ota_push_prod
  PROVE  PublishInv'
<1> USE DEF PublishInv, ReleaseTypeOK, PrepareTypeOK, PushTypeOK
<1>1. PICK t \in Targets : /\ begin_push(t)
                           /\ IF t = "staging" THEN rpc' = "build"
                              ELSE rpc = "tested" /\ rpc' = rpc
  BY DEF ota_push_staging, ota_push_prod, Targets
<1>2. /\ u' = [target |-> t, files |-> Pair(json.prod.ota, NoImage)]
      /\ upc = "idle" /\ upc' = "read"
      /\ prepared' = [prepared EXCEPT ![t] = ppc # "idle"]
      /\ UNCHANGED <<out, prepareVars, bucket, tested, shipped>>
      /\ left' \in Bound
  BY <1>1, Spent DEF begin_push, read_ota_hash
<1>3. /\ json.prod \in Image /\ json.prod.ota \in Hash
      /\ Pair(json.prod.ota, NoImage) \in Naming
      /\ Pair(json.prod.ota, NoImage).ota = json.prod.ota
  BY DEF Targets, Image, Pair, Naming
<1>4. ReleaseTypeOK'
  BY <1>2, <1>3 DEF prepareVars, Targets
<1>5. NamesRight' /\ JsonsAgree'
  BY <1>2 DEF NamesRight, JsonsAgree, prepareVars
<1>6. Procedure'
  BY <1>1, <1>2 DEF Procedure, prepareVars, Targets
<1>7. Pushed'
  BY <1>1, <1>2, <1>3 DEF Pushed, prepareVars, Targets
<1>8. QED  BY <1>4, <1>5, <1>6, <1>7

(* The rest of a push: in the end both files are in the bucket.            *)
LEMMA Push_PublishInv ==
  ASSUME PublishInv, pushing \/ push_done
  PROVE  PublishInv'
<1> USE DEF PublishInv, ReleaseTypeOK, PrepareTypeOK, PushTypeOK
<1>1. /\ UNCHANGED <<out, prepareVars, tested, shipped, prepared>>
      /\ left' \in Bound
  BY Spent
  DEF pushing, push, push_fails, push_done, read_recovery_hash, push_recovery,
      push_ota, releaseVars
<1>2. JsonsAgree'
  BY <1>1 DEF JsonsAgree, prepareVars
<1>3. CASE read_recovery_hash /\ rpc' = rpc
  <2>1. json.prod.recovery \in Hash
    BY DEF Targets, Image
  <2>2. QED
    BY <1>1, <1>2, <1>3, <2>1
    DEF read_recovery_hash, NamesRight, Procedure, Pushed, prepareVars, Naming
<1>4. CASE push_recovery /\ rpc' = rpc
  <2> DEFINE name == u.files.recovery
  <2>1. /\ name \in Hash /\ name \in DOMAIN neosupdate.recovery
        /\ u.target \in Targets /\ bucket[u.target] \in Directory
        /\ upc = "recovery" /\ upc' = "ota" /\ u' = u
    BY <1>4 DEF push_recovery
  <2>2. /\ bucket' \in [Targets -> Directory]
        /\ name \in DOMAIN bucket'[u.target].recovery
        /\ \A t \in Targets :
             /\ bucket'[t].ota = bucket[t].ota
             /\ DOMAIN bucket[t].recovery \subseteq DOMAIN bucket'[t].recovery
             /\ \A n \in DOMAIN bucket'[t].recovery :
                  \/ /\ n \in DOMAIN bucket[t].recovery
                     /\ bucket'[t].recovery[n] = bucket[t].recovery[n]
                  \/ /\ n \in DOMAIN neosupdate.recovery
                     /\ bucket'[t].recovery[n] = neosupdate.recovery[n]
    <3>1. CASE name \in DOMAIN bucket[u.target].recovery
      BY <1>4, <2>1, <3>1 DEF push_recovery
    <3>2. CASE name \notin DOMAIN bucket[u.target].recovery
      <4>1. /\ bucket[u.target].recovery \in Contents
            /\ neosupdate.recovery[name] \in Hash
        BY <2>1, FileWritten DEF Directory, Contents
      <4>2. PICK files \in Contents :
              files = Written(bucket[u.target].recovery, name,
                              neosupdate.recovery[name])
        BY <2>1, <4>1, FileWritten
      <4>3. /\ DOMAIN files = DOMAIN bucket[u.target].recovery \cup {name}
            /\ files[name] = neosupdate.recovery[name]
            /\ \A n \in DOMAIN bucket[u.target].recovery :
                 files[n] = bucket[u.target].recovery[n]
        BY <3>2, <4>2 DEF Written
      <4>4. bucket' = [bucket EXCEPT ![u.target] = [@ EXCEPT !.recovery = files]]
        BY <1>4, <3>2, <4>2 DEF push_recovery
      <4>5. /\ [bucket[u.target] EXCEPT !.recovery = files] \in Directory
            /\ [bucket[u.target] EXCEPT !.recovery = files].recovery = files
            /\ [bucket[u.target] EXCEPT !.recovery = files].ota
                  = bucket[u.target].ota
        BY <2>1, <4>2 DEF Directory
      <4>6. /\ bucket' \in [Targets -> Directory]
            /\ bucket'[u.target].recovery = files
            /\ bucket'[u.target].ota = bucket[u.target].ota
            /\ \A t \in Targets : t # u.target => bucket'[t] = bucket[t]
        BY <2>1, <4>4, <4>5
      <4>7. QED  BY <2>1, <4>3, <4>6
    <3>3. QED  BY <3>1, <3>2
  <2>3. NamesRight'
    BY <1>1, <2>2 DEF NamesRight, prepareVars
  <2>4. Procedure'
    BY <1>1, <1>4, <2>1 DEF Procedure, prepareVars
  <2>5. Pushed'
    BY <1>1, <1>4, <2>1, <2>2 DEF Pushed, prepareVars, Targets
  <2>6. ReleaseTypeOK'
    BY <1>1, <2>1, <2>2 DEF prepareVars
  <2>7. QED  BY <1>2, <2>3, <2>4, <2>5, <2>6
<1>5. CASE push_ota /\ rpc' = rpc
  <2> DEFINE after == [bucket[u.target] EXCEPT
                         !.ota = bucket[u.target].ota \cup {u.files.ota}]
  <2>1. /\ u.target \in Targets /\ bucket[u.target] \in Directory
        /\ upc = "ota" /\ upc' = "pushed" /\ u' = u
        /\ u.files.ota \in Hash
    BY <1>5 DEF push_ota
  <2>2. /\ bucket' \in [Targets -> Directory]
        /\ u.files.ota \in bucket'[u.target].ota
        /\ \A t \in Targets :
             /\ bucket'[t].recovery = bucket[t].recovery
             /\ bucket[t].ota \subseteq bucket'[t].ota
    <3>1. bucket' = [bucket EXCEPT ![u.target] = after]
      BY <1>5 DEF push_ota
    <3>2. /\ after \in Directory
          /\ after.ota = bucket[u.target].ota \cup {u.files.ota}
          /\ after.recovery = bucket[u.target].recovery
      BY <2>1 DEF Directory
    <3> HIDE DEF after
    <3>3. QED  BY <2>1, <3>1, <3>2
  <2>3. NamesRight' /\ Procedure'
    BY <1>1, <1>5, <2>1, <2>2 DEF NamesRight, Procedure, prepareVars
  <2>4. Pushed'
    BY <1>1, <1>5, <2>1, <2>2 DEF Pushed, prepareVars, Targets
  <2>5. ReleaseTypeOK'
    BY <1>1, <2>1, <2>2 DEF prepareVars
  <2>6. QED  BY <1>2, <2>3, <2>4, <2>5
<1>6. NoPush \in [target : Targets, files : Naming]
  BY DEF NoPush, Nothing, Pair, Naming, Targets
<1>7. CASE push_fails /\ rpc' = rpc
  BY <1>1, <1>2, <1>6, <1>7
  DEF push_fails, NamesRight, Procedure, Pushed, prepareVars
<1>8. CASE push_done
  <2>1. /\ upc = "pushed" /\ upc' = "idle" /\ u' = NoPush /\ rpc' = u.target
        /\ bucket' = bucket
    BY <1>8 DEF push_done
  <2>2. ReleaseTypeOK' /\ NamesRight'
    BY <1>1, <1>6, <2>1 DEF NamesRight, prepareVars
  <2>3. Procedure' /\ Pushed'
    BY <1>1, <2>1 DEF Procedure, Pushed, prepareVars, Targets
  <2>4. QED  BY <1>2, <2>2, <2>3
<1>9. QED
  BY <1>3, <1>4, <1>5, <1>7, <1>8 DEF pushing, push, releaseVars

(* The updater is given one of the two json files.                         *)
LEMMA Update_PublishInv ==
  ASSUME PublishInv, update_staging_json \/ update_json
  PROVE  PublishInv'
<1> USE DEF PublishInv, ReleaseTypeOK
<1>1. /\ UNCHANGED <<otaVars, prepared, left>> /\ upc = "idle"
      /\ \/ /\ rpc' = "tested" /\ tested' = json.staging /\ shipped' = shipped
         \/ /\ rpc = "prod" /\ rpc' = "shipped"
            /\ shipped' = json.prod /\ tested' = tested
  BY DEF update_staging_json, update_json
<1>2. json.staging \in Image /\ json.prod \in Image
  BY DEF PrepareTypeOK, Targets
<1>3. ReleaseTypeOK'
  BY <1>1, <1>2 DEF PrepareTypeOK, PushTypeOK, otaVars, prepareVars, pushVars
<1>4. NamesRight' /\ JsonsAgree'
  BY <1>1 DEF NamesRight, JsonsAgree, otaVars, prepareVars, pushVars
<1>5. Procedure' /\ Pushed'
  BY <1>1 DEF Procedure, Pushed, otaVars, prepareVars, pushVars
<1>6. QED  BY <1>3, <1>4, <1>5

(* All steps of the release.                                               *)
LEMMA Step_PublishInv == PublishInv /\ [Next]_vars => PublishInv'
<1> SUFFICES ASSUME PublishInv, [Next]_vars PROVE PublishInv'
  OBVIOUS
<1>1. left \in Bound /\ out \in Image /\ left.builds \in Hash
  BY DEF PublishInv, ReleaseTypeOK, PrepareTypeOK, Bound, Hash
<1>2. CASE UNCHANGED <<otaVars, releaseVars>> /\ left' \in Bound
  BY <1>1, <1>2, Build_PublishInv DEF otaVars
<1>3. CASE extract_toolchains
  BY <1>1, <1>2, <1>3, Spent
  DEF extract_toolchains, ToolNext, NewTarball, NewScript, check, rm, extract,
      extracted, interrupted
<1>4. ASSUME NEW image \in {"ota", "recovery"}, Build(image) \/ NoBuild,
             UNCHANGED <<prepareVars, pushVars, releaseVars>>
      PROVE  PublishInv'
  <2>1. left' \in Bound /\ out' \in Image
    BY <1>1, <1>4, Spent DEF Build, NoBuild, Image
  <2>2. QED  BY <1>4, <2>1, Build_PublishInv
<1>5. CASE make_x_image
  BY <1>4, <1>5 DEF make_x_image
<1>6. CASE pull_from_release
  BY <1>1, <1>2, <1>6 DEF pull_from_release, requests_get
<1>7. CASE download
  <2>1. left' = left \/ Spend("faults")
    BY <1>7
    DEF download, UsrNext, already_downloaded, curl, hash_check, rm_link,
        make_link, LinkFails, download_recovery, interrupt_download
  <2>2. UNCHANGED <<otaVars, releaseVars>>
    BY <1>7 DEF download
  <2>3. QED  BY <1>1, <1>2, <2>1, <2>2, Spent
<1>8. CASE build_system
  BY <1>4, <1>8 DEF build_system
<1>9. CASE prepare
  BY <1>9, Prepare_PublishInv
<1>10. CASE ota_push_staging \/ ota_push_prod
  BY <1>10, Begin_PublishInv
<1>11. CASE pushing \/ push_done
  BY <1>11, Push_PublishInv
<1>12. CASE update_staging_json \/ update_json
  BY <1>12, Update_PublishInv
<1>13. CASE UNCHANGED vars
  BY <1>1, <1>2, <1>13 DEF vars
<1>14. QED
  BY <1>3, <1>5, <1>6, <1>7, <1>8, <1>9, <1>10, <1>11, <1>12, <1>13 DEF Next

(* What is shipped is in the bucket, is what was tested, and a recovery    *)
(* image has the content of its name: for any number of builds, runs of    *)
(* prepare_ota.sh, pushes and interruptions, but for the cases named.      *)
THEOREM ShippedWasTested == Spec => []ShippedIsTested
<1>1. PublishInv => ShippedIsTested
  BY DEF PublishInv, ReleaseTypeOK, NamesRight, JsonsAgree, Procedure, Pushed,
         ShippedIsTested, Targets
<1>2. QED  BY <1>1, Init_PublishInv, Step_PublishInv, PTL DEF Spec

-----------------------------------------------------------------------------
(* The download.                                                           *)
BaseInv ==
    /\ dpc # "idle" => asked \in Nat
    /\ \A n \in DOMAIN held : held[n] \in {n, Partial}
    /\ dpc \in {"rm", "ln"} => Content(asked) = asked
    /\ link # NoOta => link \in Nat /\ Content(link) = link
    /\ dpc = "check" => ~unlinked
    /\ dpc = "curl" => link # asked
    /\ dpc = "ln" => link = NoOta \/ unlinked
    /\ dpc \in {"ready", "unzip"} => link = asked \/ unlinked

(* Every step of download.py; nothing else touches its files.              *)
LEMMA Step_BaseInv == PublishInv /\ BaseInv /\ [Next]_vars => BaseInv'
<1> SUFFICES ASSUME PublishInv, BaseInv, [Next]_vars PROVE BaseInv'
  OBVIOUS
<1> USE DEF BaseInv, Content
<1>1. CASE UNCHANGED usrVars
  BY <1>1 DEF usrVars
<1>2. CASE pull_from_release
  BY <1>2
  DEF pull_from_release, requests_get, PublishInv, ReleaseTypeOK, Image, Hash
<1>3. CASE build_system
  BY <1>3 DEF build_system, GiveUp
<1>4. CASE already_downloaded
  BY <1>4, NamesAssumption DEF already_downloaded
<1>5. CASE curl(bucket.prod.ota)
  <2>1. /\ dpc = "curl" /\ dpc' = "hash" /\ asked' = asked /\ link' = link
        /\ \/ held' = held
           \/ \E c \in {asked, Partial} : held' = Written(held, asked, c)
    BY <1>5 DEF curl
  <2>2. \A n \in DOMAIN held' : held'[n] \in {n, Partial}
    BY <2>1 DEF Written
  <2>3. ASSUME link # NoOta
        PROVE  link' \in Nat /\ Content(link)' = link'
    <3>1. link \in DOMAIN held /\ held[link] = link /\ link # asked
      BY <2>1, <2>3, NamesAssumption
    <3>2. link \in DOMAIN held' /\ held'[link] = link
      BY <2>1, <3>1 DEF Written
    <3>3. QED  BY <2>1, <2>3, <3>2
  <2>4. UNCHANGED <<link, unlinked>>
    BY <1>5 DEF curl
  <2>5. QED  BY <2>1, <2>2, <2>3, <2>4
<1>6. CASE hash_check
  BY <1>6 DEF hash_check, GiveUp
<1>7. CASE rm_link \/ make_link
  <2>1. /\ \/ dpc = "rm" /\ dpc' = "ln"
           \/ dpc = "ln" /\ dpc' = "ready"
        /\ UNCHANGED <<asked, held>>
    BY <1>7 DEF rm_link, make_link
  <2>2. CASE LinkFails
    BY <2>1, <2>2 DEF LinkFails
  <2>3. CASE rm_link /\ ~LinkFails
    BY <2>1, <2>3 DEF rm_link
  <2>4. CASE make_link /\ ~LinkFails
    <3>1. /\ dpc = "ln" /\ dpc' = "ready" /\ unlinked' = unlinked
          /\ link' = IF link = NoOta THEN asked ELSE link
      BY <2>4 DEF make_link
    <3>2. CASE link = NoOta
      BY <2>1, <3>1, <3>2
    <3>3. CASE link # NoOta
      BY <2>1, <3>1, <3>3
    <3>4. QED  BY <3>2, <3>3
  <2>5. QED  BY <1>7, <2>2, <2>3, <2>4
<1>8. CASE download_recovery \/ interrupt_download
  BY <1>8 DEF download_recovery, interrupt_download, GiveUp
<1>9. QED
  BY <1>1, <1>2, <1>3, <1>4, <1>5, <1>6, <1>7, <1>8
  DEF Next, vars, usrVars, extract_toolchains, make_x_image, download, UsrNext,
      prepare, ota_push_staging, ota_push_prod, begin_push, pushing, push_done,
      update_staging_json, update_json

(* The next build goes on with the whole of the OTA that was shipped,      *)
(* whatever was left by earlier runs that failed or were interrupted; when *)
(* the link could not be made, with a whole one that was linked before, or *)
(* with none.                                                              *)
THEOREM BaseWasWhole == Spec => []BaseIsWhole
<1>1. Init => BaseInv
  BY DEF Init, UsrInit, BaseInv
<1>2. BaseInv => BaseIsWhole
  BY DEF BaseInv, BaseIsWhole
<1>3. QED
  BY <1>1, <1>2, Init_PublishInv, Step_PublishInv, Step_BaseInv, PTL DEF Spec
=============================================================================
