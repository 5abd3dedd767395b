------------------------------ MODULE Bounded ------------------------------
(***************************************************************************)
(* What the scripts of a release share.  Directories of files: functions   *)
(* from names to contents.  And what a behaviour may still do of what      *)
(* would make the states infinitely many, or too many: pulls that bring    *)
(* something new, images built, runs of prepare_ota.sh and of the push     *)
(* scripts, and faults.                                                    *)
(***************************************************************************)
EXTENDS Naturals, Sequences, SequencesExt

CONSTANT Bounds     \* bounds: records [updates, builds, prepares, pushes, faults]

Bound == [updates : Nat, builds : Nat, prepares : Nat, pushes : Nat,
          faults : Nat]
ASSUME BoundsAssumption == Bounds \subseteq Bound

VARIABLE left

Written(files, name, content) ==
    [n \in DOMAIN files \cup {name} |-> IF n = name THEN content ELSE files[n]]

Spend(what) == left[what] > 0 /\ left' = [left EXCEPT ![what] = @ - 1]
=============================================================================
