------------------------------ MODULE QdlLoad -------------------------------
(***************************************************************************)
(* What qdl is going to do: the loading half of main() in qdl/qdl.c with   *)
(* detect_type(), program_load() of program.c, patch_load() of patch.c and *)
(* ufs_load() of ufs.c, and the descriptor that firehose_apply_ufs_common  *)
(* of firehose.c sends.                                                    *)
(*                                                                         *)
(* The files of the command line are read one after the other and their    *)
(* elements one after the other, into four lists that outlive the file.    *)
(***************************************************************************)
EXTENDS Integers, Sequences, FiniteSets

CONSTANT
    CommandLines    \* [finalize, files] records

(* An element, and the type of the first attribute it lacks: a number, a   *)
(* string, or the sparse flag of a program.  The elements of a UFS file    *)
(* are the device descriptor ("common"), a logical unit, the closing tag   *)
(* ("commit"), and "ufs" for one that is none of these.                    *)
Element == [kind : {"program", "patch", "common", "unit", "commit", "ufs",
                    "other"},
            lacks : {"nothing", "number", "string", "flag"},
            lock : BOOLEAN]                 \* bConfigDescrLock

File == [root : {"patches", "data", "contents", "other"},
         elements : Seq(Element)]

CommandLine == [finalize : BOOLEAN, files : Seq(File)]

ASSUME CommandLinesAssumption == CommandLines \subseteq CommandLine

VARIABLES
    args,       \* the command line
    file,       \* the file of it that main is at
    element,    \* the element of that file, 0 before it is opened
    programs, patches,              \* what is loaded: positions
    common, units, epilogue,        \* the same for the UFS descriptors
    status,     \* loading, exited, crashed, flashing or provisioning
    lockSent    \* bConfigDescrLock of the descriptor sent, -1 before

lists == <<programs, patches, common, units, epilogue>>
vars == <<args, file, element, lists, status, lockSent>>

None == <<0, 0>>
Here == <<file, element>>           \* the position of an element
At(p) == args.files[p[1]].elements[p[2]]
Elements(f) == args.files[f].elements

Ufs == {"common", "unit", "commit", "ufs"}

Init ==
    /\ args \in CommandLines
    /\ file = 1 /\ element = 0
    /\ programs = <<>> /\ patches = <<>>
    /\ common = None /\ units = <<>> /\ epilogue = None
    /\ status = "loading" /\ lockSent = -1

-----------------------------------------------------------------------------
(* A file that holds both programs and UFS descriptors is what its first   *)
(* element of the two is; the loader ignores the elements of the other.    *)
detect_type(f) ==
    LET first(kinds) ==
            {i \in 1..Len(Elements(f)) :
                /\ Elements(f)[i].kind \in kinds
                /\ \A j \in 1..(i - 1) :
                     Elements(f)[j].kind \notin Ufs \cup {"program"}}
    IN  CASE args.files[f].root = "patches" -> "patch"
          [] args.files[f].root = "data" /\ first({"program"}) # {} -> "program"
          [] args.files[f].root = "data" /\ first(Ufs) # {} -> "ufs"
          [] OTHER -> "unknown"

(* main opens the next file.  ufs_load takes one file only, and what main  *)
(* makes of its refusal is to end.                                         *)
open_file ==
    /\ status = "loading" /\ file <= Len(args.files) /\ element = 0
    /\ IF \/ detect_type(file) = "unknown"
          \/ detect_type(file) = "ufs" /\ common # None
       THEN status' = "exited" /\ UNCHANGED element
       ELSE element' = 1 /\ UNCHANGED status
    /\ UNCHANGED <<args, file, lists, lockSent>>

(* The loop over the elements of a file of the given type.                 *)
Loads(type) ==
    /\ status = "loading" /\ file <= Len(args.files)
    /\ element \in 1..Len(Elements(file))
    /\ detect_type(file) = type
    /\ element' = element + 1
    /\ UNCHANGED <<args, file, lockSent>>

Skips == UNCHANGED <<lists, status>>
Ends(how) == status' = how /\ UNCHANGED lists

(* Mutant: a program that lacks its sparse flag is loaded all the same.    *)
program_load_lax ==
    /\ Loads("program")
    /\ \/ At(Here).kind # "program" /\ Skips
       \/ /\ At(Here).kind = "program" /\ At(Here).lacks \in {"nothing", "flag"}
          /\ programs' = Append(programs, Here)
          /\ UNCHANGED <<patches, common, units, epilogue, status>>
       \/ /\ At(Here).kind = "program" /\ At(Here).lacks \in {"number", "string"}
          /\ Ends("crashed")

(* A missing number or string is counted as an error and then converted:   *)
(* strtoul(NULL) and strdup(NULL).  Only a missing flag passes over it.    *)
program_load ==
    /\ Loads("program")
    /\ \/ At(Here).kind # "program" /\ Skips
       \/ At(Here).kind = "program" /\ At(Here).lacks = "flag" /\ Skips
       \/ /\ At(Here).kind = "program" /\ At(Here).lacks = "nothing"
          /\ programs' = Append(programs, Here)
          /\ UNCHANGED <<patches, common, units, epilogue, status>>
       \/ /\ At(Here).kind = "program" /\ At(Here).lacks \in {"number", "string"}
          /\ Ends("crashed")

(* A patch has no flag.                                                    *)
patch_load ==
    /\ Loads("patch")
    /\ \/ At(Here).kind # "patch" /\ Skips
       \/ /\ At(Here).kind = "patch" /\ At(Here).lacks = "nothing"
          /\ patches' = Append(patches, Here)
          /\ UNCHANGED <<programs, common, units, epilogue, status>>
       \/ /\ At(Here).kind = "patch" /\ At(Here).lacks \in {"number", "string"}
          /\ Ends("crashed")

(* Whatever ufs_load finds wrong, it stops and main ends with it.  A unit  *)
(* without its desc string is the exception: strdup(NULL) once more.       *)
ufs_load_common ==
    /\ Loads("ufs") /\ At(Here).kind = "common"
    /\ \/ /\ common = None /\ At(Here).lacks = "nothing"
          /\ common' = Here
          /\ UNCHANGED <<programs, patches, units, epilogue, status>>
       \/ /\ common # None \/ At(Here).lacks = "number"
          /\ Ends("exited")

ufs_load_unit ==
    /\ Loads("ufs") /\ At(Here).kind = "unit"
    /\ \/ /\ At(Here).lacks = "nothing"
          /\ units' = Append(units, Here)
          /\ UNCHANGED <<programs, patches, common, epilogue, status>>
       \/ At(Here).lacks = "number" /\ Ends("exited")
       \/ At(Here).lacks = "string" /\ Ends("crashed")

(* Mutant: a second closing tag replaces the first.                        *)
ufs_load_commit_again ==
    /\ Loads("ufs") /\ At(Here).kind = "commit"
    /\ \/ /\ At(Here).lacks = "nothing"
          /\ epilogue' = Here
          /\ UNCHANGED <<programs, patches, common, units, status>>
       \/ At(Here).lacks = "number" /\ Ends("exited")

ufs_load_commit ==
    /\ Loads("ufs") /\ At(Here).kind = "commit"
    /\ \/ /\ epilogue = None /\ At(Here).lacks = "nothing"
          /\ epilogue' = Here
          /\ UNCHANGED <<programs, patches, common, units, status>>
       \/ /\ epilogue # None \/ At(Here).lacks = "number"
          /\ Ends("exited")

ufs_load_other ==
    /\ Loads("ufs") /\ At(Here).kind \notin {"common", "unit", "commit"}
    /\ IF At(Here).kind = "ufs" THEN Ends("exited") ELSE Skips

(* The end of ufs_load: complete, and locking what the user means to lock. *)
ufs_load_gate ==
    /\ common # None /\ units # <<>> /\ epilogue # None
    /\ args.finalize = At(common).lock

close_file ==
    /\ status = "loading" /\ file <= Len(args.files)
    /\ element > Len(Elements(file))
    /\ IF detect_type(file) = "ufs" /\ ~ufs_load_gate
       THEN status' = "exited" /\ UNCHANGED <<file, element>>
       ELSE file' = file + 1 /\ element' = 0 /\ UNCHANGED status
    /\ UNCHANGED <<args, lists, lockSent>>

-----------------------------------------------------------------------------
(* firehose_run: with UFS descriptors loaded nothing else is done.         *)
firehose_run ==
    /\ status = "loading" /\ file > Len(args.files)
    /\ status' = IF epilogue # None THEN "provisioning" ELSE "flashing"
    /\ UNCHANGED <<args, file, element, lists, lockSent>>

(* The descriptor goes out with bConfigDescrLock = 0 whatever was loaded.  *)
firehose_apply_ufs_common ==
    /\ status = "provisioning"
    /\ lockSent' = 0
    /\ UNCHANGED <<args, file, element, lists, status>>

Stopped == status \in {"exited", "crashed", "flashing"} /\ UNCHANGED vars

Next ==
    \/ open_file \/ close_file
    \/ program_load \/ patch_load
    \/ ufs_load_common \/ ufs_load_unit \/ ufs_load_commit \/ ufs_load_other
    \/ firehose_run \/ firehose_apply_ufs_common
    \/ Stopped

Spec == Init /\ [][Next]_vars

-----------------------------------------------------------------------------
Kind(f, k) == {i \in 1..Len(Elements(f)) : Elements(f)[i].kind = k}
FilesOf(type) == {f \in 1..Len(args.files) : detect_type(f) = type}

(* The elements of one kind of the files of one type that are complete.    *)
Whole(type, k) ==
    UNION {{<<f, i>> : i \in {i \in Kind(f, k) : Elements(f)[i].lacks = "nothing"}}
              : f \in FilesOf(type)}

Before(p, q) == p[1] < q[1] \/ (p[1] = q[1] /\ p[2] < q[2])

IsListOf(list, set) ==
    /\ {list[k] : k \in 1..Len(list)} = set
    /\ \A j, k \in 1..Len(list) : j < k => Before(list[j], list[k])

(* What is going to be flashed is every complete program and patch of the  *)
(* command line, once and in its order, however they are spread over files *)
(* and mixed with elements that lack something.                            *)
LoadedInOrder ==
    status = "flashing" =>
        /\ IsListOf(programs, Whole("program", "program"))
        /\ IsListOf(patches, Whole("patch", "patch"))

Provisionable(f) ==
    /\ Cardinality(Kind(f, "common")) = 1
    /\ Kind(f, "unit") # {}
    /\ Cardinality(Kind(f, "commit")) = 1
    /\ Kind(f, "ufs") = {}
    /\ \A k \in {"common", "unit", "commit"} : \A i \in Kind(f, k) :
          Elements(f)[i].lacks = "nothing"
    /\ \A i \in Kind(f, "common") : Elements(f)[i].lock = args.finalize

Acceptable ==
    /\ FilesOf("unknown") = {}
    /\ Cardinality(FilesOf("ufs")) <= 1
    /\ \A f \in FilesOf("ufs") : Provisionable(f)

(* The gate before the device is touched, read as a whole: qdl goes on     *)
(* when every file is of a known type and the only UFS file has one        *)
(* descriptor, one closing tag, a unit, nothing malformed, and the lock    *)
(* the user asked for; it provisions when there is one; and it refuses     *)
(* nothing else.  State left behind by one file never lets another in.     *)
GateExact ==
    /\ status \in {"flashing", "provisioning"} => Acceptable
    /\ status = "provisioning" => FilesOf("ufs") # {}
    /\ status = "flashing" => FilesOf("ufs") = {}
    /\ status = "exited" => ~Acceptable

(* The notice of ufs.c:52: if you REALLY intend to perform OTP, please     *)
(* ensure that your XML includes property bConfigDescrLock = 1 AND provide *)
(* command line parameter --finalize-provisioning.                         *)
LockedAsAsked == lockSent # -1 => (lockSent = 1 <=> args.finalize)
=============================================================================
