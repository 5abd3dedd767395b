----------------------------- MODULE Toolchains -----------------------------
(***************************************************************************)
(* tools/extract_toolchains.sh: a cache of extracted tarballs that every   *)
(* build script runs first.  File times are modelled by what the tests     *)
(* with -nt ask of them: whether a directory is older than its tarball, or *)
(* older than the script.                                                  *)
(***************************************************************************)
EXTENDS Bounded

CONSTANTS
    Compared,       \* the toolchains compared with their tarballs, in order
    Uncompared      \* the others

Toolchain == ToSet(Compared \o Uncompared)
ASSUME ToolchainsAssumption ==
    Compared \in Seq(Toolchain) /\ Uncompared \in Seq(Toolchain)

VARIABLES
    wanted,     \* the version of each tarball
    dir,        \* what each directory holds
    epc,        \* where the script is
    todo,       \* the toolchains of this step still to do
    cutShort    \* history: toolchains that were being removed or extracted
                \* when a run was interrupted, and not made anew since

toolVars == <<wanted, dir, epc, todo, cutShort>>

NoDir == [there |-> FALSE, version |-> 0, whole |-> FALSE, older |-> FALSE,
          olderThanScript |-> FALSE]
MadeFrom(v) == [NoDir EXCEPT !.there = TRUE, !.version = v]

Extracted == [MadeFrom(1) EXCEPT !.whole = TRUE]

(* The release before may have been built elsewhere.                       *)
ToolInit ==
    /\ wanted = [t \in Toolchain |-> 1]
    /\ \E d \in {NoDir, Extracted} : dir = [t \in Toolchain |-> d]
    /\ epc = "idle" /\ todo = <<>> /\ cutShort = {}

(* A pull brings a new tarball or a new script, with the time of the pull. *)
NewTarball(t) ==
    /\ epc = "idle" /\ Spend("updates")
    /\ wanted' = [wanted EXCEPT ![t] = @ + 1]
    /\ dir' = [dir EXCEPT ![t].older = dir[t].there]
    /\ UNCHANGED <<epc, todo, cutShort>>

NewScript ==
    /\ epc = "idle" /\ Spend("updates")
    /\ dir' = [t \in Toolchain |->
                 [dir[t] EXCEPT !.olderThanScript = dir[t].there]]
    /\ UNCHANGED <<wanted, epc, todo, cutShort>>

(* -nt: a file that is not there is older than any.                        *)
Needed(t) == ~dir[t].there \/ dir[t].older \/ dir[t].olderThanScript

(* Mutant: only the first one is compared.                                 *)
check_first ==
    /\ epc = "idle"
    /\ IF Needed(Head(Compared))
       THEN epc' = "rm" /\ todo' = Compared
       ELSE epc' = "extract" /\ todo' = Compared \o Uncompared
    /\ UNCHANGED <<wanted, dir, left, cutShort>>

check ==
    /\ epc = "idle"
    /\ IF \E t \in ToSet(Compared) : Needed(t)
       THEN epc' = "rm" /\ todo' = Compared
       ELSE epc' = "extract" /\ todo' = Compared \o Uncompared
    /\ UNCHANGED <<wanted, dir, left, cutShort>>

rm ==
    /\ epc = "rm" /\ todo # <<>>
    /\ dir' = [dir EXCEPT ![Head(todo)] = NoDir]
    /\ cutShort' = cutShort \ {Head(todo)}
    /\ todo' = IF Len(todo) > 1 THEN Tail(todo) ELSE Compared \o Uncompared
    /\ epc' = IF Len(todo) > 1 THEN "rm" ELSE "extract"
    /\ UNCHANGED <<wanted, left>>

(* mkdir and tar, for a directory that is not there.                       *)
extract ==
    /\ epc = "extract" /\ todo # <<>>
    /\ LET t == Head(todo)
       IN  dir' = IF dir[t].there THEN dir
                  ELSE [dir EXCEPT ![t] = [MadeFrom(wanted[t])
                                             EXCEPT !.whole = TRUE]]
    /\ todo' = Tail(todo)
    /\ UNCHANGED <<wanted, epc, left, cutShort>>

extracted ==
    /\ epc = "extract" /\ todo = <<>>
    /\ epc' = "extracted"
    /\ UNCHANGED <<wanted, dir, todo, left, cutShort>>

(* A run that is interrupted, or a tar that fails, leaves a part of a      *)
(* directory.  What was changed in it last is newer than the tarball,      *)
(* unless rm had not come to an entry of the directory itself.             *)
interrupted ==
    /\ epc \in {"rm", "extract"} /\ todo # <<>> /\ Spend("faults")
    /\ LET t == Head(todo)
       IN  \/ /\ epc = "rm" /\ dir[t].there
              /\ \/ dir' = [dir EXCEPT ![t] = MadeFrom(dir[t].version)]
                 \/ dir' = [dir EXCEPT ![t].whole = FALSE]
              /\ cutShort' = cutShort \cup {t}
           \/ /\ epc = "extract" /\ ~dir[t].there
              /\ dir' = [dir EXCEPT ![t] = MadeFrom(wanted[t])]
              /\ cutShort' = cutShort \cup {t}
           \/ UNCHANGED <<dir, cutShort>>
    /\ epc' = "idle" /\ todo' = <<>>
    /\ UNCHANGED wanted

ToolNext ==
    \/ \E t \in Toolchain : NewTarball(t)
    \/ NewScript
    \/ check \/ rm \/ extract \/ extracted \/ interrupted

-----------------------------------------------------------------------------
(* What a build finds: every toolchain whole and, if it is one of those    *)
(* that are compared, of the version of its tarball -- unless a run was    *)
(* interrupted while it was at that one.  For the others the first version *)
(* that was extracted stays.                                               *)
ToolchainsCurrent ==
    epc = "extracted" =>
        \A t \in Toolchain \ cutShort :
            /\ dir[t].whole
            /\ t \in ToSet(Compared) => dir[t].version = wanted[t]
=============================================================================
