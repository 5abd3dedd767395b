------------------------------ MODULE UsrBase ------------------------------
(***************************************************************************)
(* build_usr/download.py: fetches the published OTA image, from which      *)
(* pull_from_release.sh takes /usr for the next system image.              *)
(***************************************************************************)
EXTENDS Bounded

CONSTANTS
    NoOta,
    Partial     \* the content of a file that was cut short, or of an error page

ASSUME NamesAssumption == NoOta \notin Nat /\ Partial \notin Nat

VARIABLES
    dpc,        \* where the script is
    asked,      \* ota_hash of the update.json it has read
    held,       \* the files downloaded: name (the hash in it) -> content
    link,       \* what ota-signed-latest.zip leads to
    unlinked    \* history: rm or ln -s failed in this run

usrVars == <<dpc, asked, held, link, unlinked>>

UsrInit ==
    /\ dpc = "idle" /\ asked = NoOta /\ held = << >>
    /\ link = NoOta /\ unlinked = FALSE

Content(name) == IF name \in DOMAIN held THEN held[name] ELSE NoOta
GiveUp == dpc' = "idle" /\ asked' = NoOta

requests_get(ota) ==
    /\ dpc = "idle"
    /\ asked' = ota /\ dpc' = "check" /\ unlinked' = FALSE
    /\ UNCHANGED <<held, link, left>>

(* The link is followed: an older file, or none, or a part of one.         *)
already_downloaded ==
    /\ dpc = "check"
    /\ dpc' = IF link # NoOta /\ Content(link) = asked THEN "ready" ELSE "curl"
    /\ UNCHANGED <<asked, held, link, unlinked, left>>

(* curl writes in place, and nobody looks at its status: the file may stay *)
(* as it was, be cut short, or be whole -- an error page if the server     *)
(* does not have it.                                                       *)
curl(served) ==
    /\ dpc = "curl"
    /\ \/ Spend("faults") /\ held' \in {held, Written(held, asked, Partial)}
       \/ /\ held' = Written(held, asked,
                            IF asked \in served THEN asked ELSE Partial)
          /\ left' = left
    /\ dpc' = "hash"
    /\ UNCHANGED <<asked, link, unlinked>>

(* Mutant: a file that is there is good.                                   *)
hash_check_exists ==
    /\ dpc = "hash"
    /\ IF Content(asked) # NoOta THEN dpc' = "rm" /\ asked' = asked ELSE GiveUp
    /\ UNCHANGED <<held, link, unlinked, left>>

hash_check ==
    /\ dpc = "hash"
    /\ IF Content(asked) = asked THEN dpc' = "rm" /\ asked' = asked ELSE GiveUp
    /\ UNCHANGED <<held, link, unlinked, left>>

(* One of the two may fail or be interrupted, and the script goes on: the  *)
(* status of os.system is not looked at.                                   *)
LinkFails == Spend("faults") /\ unlinked' = TRUE /\ link' = link

rm_link ==
    /\ dpc = "rm" /\ dpc' = "ln"
    /\ \/ link' = NoOta /\ UNCHANGED <<unlinked, left>>
       \/ LinkFails
    /\ UNCHANGED <<asked, held>>

(* ln -s does not replace a link that is there.                            *)
make_link ==
    /\ dpc = "ln" /\ dpc' = "ready"
    /\ \/ /\ link' = IF link = NoOta THEN asked ELSE link
          /\ UNCHANGED <<unlinked, left>>
       \/ LinkFails
    /\ UNCHANGED <<asked, held>>

(* The recovery image is downloaded next in the same way.  Nothing uses    *)
(* it, but when that fails the build ends.                                 *)
download_recovery ==
    /\ dpc = "ready"
    /\ \/ dpc' = "unzip" /\ UNCHANGED <<asked, left>>
       \/ Spend("faults") /\ GiveUp
    /\ UNCHANGED <<held, link, unlinked>>

interrupt_download ==
    /\ dpc \notin {"idle", "unzip"}
    /\ Spend("faults") /\ GiveUp
    /\ UNCHANGED <<held, link, unlinked>>

UsrNext(served) ==
    \/ already_downloaded \/ curl(served) \/ hash_check
    \/ rm_link \/ make_link \/ download_recovery \/ interrupt_download

-----------------------------------------------------------------------------
(* When the build goes on, the link leads to the OTA that was published,   *)
(* unless it could not be replaced; and where it leads there is a whole    *)
(* file, whatever was left by earlier, failed or interrupted runs.         *)
BaseIsWhole ==
    dpc = "unzip" =>
        /\ link = asked \/ unlinked
        /\ link # NoOta => Content(link) = link
=============================================================================
