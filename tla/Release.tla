------------------------------ MODULE Release ------------------------------
(***************************************************************************)
(* A release of EON's system, from the toolchains to the updater: the      *)
(* builder runs one build script after the other; prepare_ota.sh and the   *)
(* procedure of devices/eon/README.md for publishing run beside it.  What  *)
(* has been released is what the next system image takes its /usr from.    *)
(***************************************************************************)
EXTENDS Toolchains, UsrBase, OtaPublish

VARIABLES
    rpc,                \* the releaser's last step
    tested, shipped,    \* what the updater was given to test, and to all
    prepared            \* history: prepare_ota.sh ran since the last push to
                        \* that target began

releaseVars == <<rpc, tested, shipped, prepared>>
vars == <<toolVars, otaVars, usrVars, releaseVars, left>>

(* The images of the release before, 0, are on the server already.          *)
Released == Pair(0, 0)

Init ==
    /\ ToolInit
    /\ OtaInit(Released)
    /\ UsrInit
    /\ left \in Bounds
    /\ rpc = "shipped" /\ tested = Released /\ shipped = Released
    /\ prepared = [t \in Targets |-> TRUE]

-----------------------------------------------------------------------------
(* make_x_image.sh and the scripts of the other devices begin with         *)
(* extract_toolchains.sh.                                                  *)
extract_toolchains ==
    /\ dpc = "idle" /\ ToolNext
    /\ UNCHANGED <<otaVars, usrVars, releaseVars>>

(* An image is new, and takes the number of builds left for its name.      *)
Build(image) ==
    /\ Spend("builds")
    /\ out' = [out EXCEPT ![image] = left.builds]

NoBuild == UNCHANGED <<out, left>>

(* The kernel is made and the image signed; or something on the way fails, *)
(* or it is an image of another device.                                    *)
make_x_image ==
    /\ epc = "extracted" /\ epc' = "idle"
    /\ Build("recovery") \/ NoBuild
    /\ UNCHANGED <<wanted, dir, todo, cutShort, prepareVars, pushVars, usrVars,
                   releaseVars>>

(* build_system.sh: download.py asks the server for the release.           *)
pull_from_release ==
    /\ epc = "idle" /\ requests_get(shipped.ota)
    /\ UNCHANGED <<toolVars, otaVars, releaseVars>>

download ==
    /\ UsrNext(bucket.prod.ota)
    /\ UNCHANGED <<toolVars, otaVars, releaseVars>>

build_system ==
    /\ dpc = "unzip" /\ GiveUp
    /\ Build("ota") \/ NoBuild
    /\ UNCHANGED <<toolVars, prepareVars, pushVars, held, link, unlinked,
                   releaseVars>>

prepare ==
    /\ prepare_ota
    /\ prepared' = [t \in Targets |-> TRUE]
    /\ UNCHANGED <<toolVars, usrVars, rpc, tested, shipped>>

-----------------------------------------------------------------------------
(* The steps of README.md:17-20.  The second one asks for a test, and the  *)
(* last one is "when going to production".                                 *)
begin_push(t) ==
    /\ read_ota_hash(t)
    /\ prepared' = [prepared EXCEPT ![t] = ppc # "idle"]
    /\ UNCHANGED <<toolVars, usrVars, tested, shipped>>

ota_push_staging == begin_push("staging") /\ rpc' = "build"
ota_push_prod == rpc = "tested" /\ begin_push("prod") /\ rpc' = rpc

pushing ==
    /\ push \/ push_fails
    /\ UNCHANGED <<toolVars, usrVars, releaseVars>>

push_done ==
    /\ upc = "pushed"
    /\ upc' = "idle" /\ u' = NoPush
    /\ rpc' = u.target
    /\ UNCHANGED <<toolVars, out, prepareVars, bucket, usrVars, tested, shipped,
                   prepared, left>>

update_staging_json ==
    /\ rpc = "staging" /\ upc = "idle"
    /\ tested' = json.staging /\ rpc' = "tested"
    /\ UNCHANGED <<toolVars, otaVars, usrVars, shipped, prepared, left>>

update_json ==
    /\ rpc = "prod" /\ upc = "idle"
    /\ shipped' = json.prod /\ rpc' = "shipped"
    /\ UNCHANGED <<toolVars, otaVars, usrVars, tested, prepared, left>>

Next ==
    \/ extract_toolchains \/ make_x_image
    \/ pull_from_release \/ download \/ build_system
    \/ prepare
    \/ ota_push_staging \/ ota_push_prod \/ pushing \/ push_done
    \/ update_staging_json \/ update_json

Spec == Init /\ [][Next]_vars

-----------------------------------------------------------------------------
(* What a release names is in the production bucket, unless prepare_ota.sh *)
(* ran since the push began; it is what was tested, unless it ran since    *)
(* the push to staging or had written one of the two json files only; and  *)
(* a recovery image has the content of its name, in whatever bucket it is, *)
(* unless a build once came between its hash and its copy: that content    *)
(* then stays, as files in a bucket are not overwritten.                   *)
ShippedIsTested ==
    /\ rpc = "shipped" /\ ~prepared.prod =>
         /\ shipped.ota \in bucket.prod.ota
         /\ shipped.recovery \in DOMAIN bucket.prod.recovery
    /\ rpc = "shipped" /\ ~prepared.staging => shipped = tested \/ torn
    /\ \A t \in Targets : \A name \in DOMAIN bucket[t].recovery \ mixed :
         bucket[t].recovery[name] = name
=============================================================================
