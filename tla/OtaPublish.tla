----------------------------- MODULE OtaPublish -----------------------------
(***************************************************************************)
(* prepare_ota.sh, ota_push_staging.sh and ota_push_prod.sh: the directory *)
(* neosupdate, and the two buckets that what is in it is copied to.  They  *)
(* are separate scripts, possibly of two people, and nothing keeps them    *)
(* apart.  A hash is the content it is of.                                 *)
(***************************************************************************)
EXTENDS Bounded

CONSTANT NoImage

Targets == {"prod", "staging"}

VARIABLES
    out,        \* the images built: the recovery and what the OTA is zipped of
    ppc, p,     \* where prepare_ota.sh is, and its variables
    neosupdate, \* recovery: name -> content; ota: the signed zips there
    json,       \* update.json and update.staging.json: hashes and target
    upc, u,     \* where a push script is, and its variables
    bucket,     \* what each bucket holds
    mixed,      \* history: names of recovery images copied with other content
    torn        \* history: update.json was written and the others not yet

prepareVars == <<ppc, p, neosupdate, json, mixed, torn>>
pushVars == <<upc, u, bucket>>
otaVars == <<out, prepareVars, pushVars>>

Pair(ota, recovery) == [ota |-> ota, recovery |-> recovery]
Nothing == Pair(NoImage, NoImage)
Files(pair) ==
    [ota |-> {pair.ota}, recovery |-> [name \in {pair.recovery} |-> name]]
NoPush == [target |-> "prod", files |-> Nothing]

(* A release was made before.                                              *)
OtaInit(released) ==
    /\ out = released
    /\ ppc = "idle" /\ p = Nothing
    /\ neosupdate = Files(released)
    /\ json = [t \in Targets |-> released]
    /\ upc = "idle" /\ u = NoPush
    /\ bucket = [t \in Targets |-> Files(released)]
    /\ mixed = {} /\ torn = FALSE

-----------------------------------------------------------------------------
(* The hash is taken of the image, and the image is copied, one after the  *)
(* other: a build in between changes it.                                    *)
hash_recovery ==
    /\ ppc = "idle" /\ Spend("prepares")
    /\ p' = Pair(NoImage, out.recovery) /\ ppc' = "copy"
    /\ UNCHANGED <<out, neosupdate, json, mixed, torn, pushVars>>

copy_recovery ==
    /\ ppc = "copy"
    /\ neosupdate' = [neosupdate EXCEPT !.recovery =
                        Written(@, p.recovery, out.recovery)]
    /\ mixed' = IF out.recovery = p.recovery THEN mixed
                ELSE mixed \cup {p.recovery}
    /\ ppc' = "zip"
    /\ UNCHANGED <<out, p, json, torn, pushVars, left>>

(* Zipped and signed under names of its own, then moved to that of its     *)
(* hash.  ota-signed-latest.zip, which nothing here reads, follows.        *)
zip_ota ==
    /\ ppc = "zip"
    /\ p' = [p EXCEPT !.ota = out.ota]
    /\ neosupdate' = [neosupdate EXCEPT !.ota = @ \cup {out.ota}]
    /\ ppc' = "prod"
    /\ UNCHANGED <<out, json, mixed, torn, pushVars, left>>

tee_json(t, next) ==
    /\ ppc = t
    /\ json' = [json EXCEPT ![t] = p]
    /\ torn' = (t = "prod")
    /\ ppc' = next
    /\ UNCHANGED <<out, p, neosupdate, mixed, pushVars, left>>

(* update.local.json is for a server of the developer's own.               *)
prepare_ends ==
    /\ ppc' = "idle" /\ p' = Nothing
    /\ UNCHANGED <<out, neosupdate, json, mixed, torn, pushVars>>

tee_local_json == ppc = "local" /\ prepare_ends /\ UNCHANGED left
interrupt_prepare == ppc # "idle" /\ Spend("faults") /\ prepare_ends

prepare_ota ==
    \/ hash_recovery \/ copy_recovery \/ zip_ota
    \/ tee_json("prod", "staging") \/ tee_json("staging", "local")
    \/ tee_local_json \/ interrupt_prepare

-----------------------------------------------------------------------------
(* The two hashes are read by two commands.                                *)
read_ota_hash(t) ==
    /\ upc = "idle" /\ Spend("pushes")
    /\ u' = [target |-> t, files |-> Pair(json.prod.ota, NoImage)]
    /\ upc' = "read"
    /\ UNCHANGED <<out, prepareVars, bucket>>

read_recovery_hash ==
    /\ upc = "read"
    /\ u' = [u EXCEPT !.files.recovery = json.prod.recovery]
    /\ upc' = "recovery"
    /\ UNCHANGED <<out, prepareVars, bucket, left>>

(* Mutant: without -e the script goes on when azcopy fails.                *)
push_recovery_anyway ==
    /\ upc = "recovery"
    /\ bucket' \in {bucket, [bucket EXCEPT ![u.target].recovery =
                       Written(@, u.files.recovery, u.files.recovery)]}
    /\ upc' = "ota"
    /\ UNCHANGED <<out, prepareVars, u, left>>

(* A file that is in the bucket is not overwritten.                        *)
push_recovery ==
    /\ upc = "recovery" /\ u.files.recovery \in DOMAIN neosupdate.recovery
    /\ LET name == u.files.recovery
       IN  bucket' = IF name \in DOMAIN bucket[u.target].recovery THEN bucket
                     ELSE [bucket EXCEPT ![u.target].recovery =
                             Written(@, name, neosupdate.recovery[name])]
    /\ upc' = "ota"
    /\ UNCHANGED <<out, prepareVars, u, left>>

push_ota ==
    /\ upc = "ota" /\ u.files.ota \in neosupdate.ota
    /\ bucket' = [bucket EXCEPT ![u.target].ota = @ \cup {u.files.ota}]
    /\ upc' = "pushed"
    /\ UNCHANGED <<out, prepareVars, u, left>>

push_fails ==
    /\ upc \in {"read", "recovery", "ota"} /\ Spend("faults")
    /\ upc' = "idle" /\ u' = NoPush
    /\ UNCHANGED <<out, prepareVars, bucket>>

push == read_recovery_hash \/ push_recovery \/ push_ota
=============================================================================
