----------------------------- MODULE MCRelease -----------------------------
(***************************************************************************)
(* Three toolchains, of which two are compared with their tarballs, and    *)
(* behaviours of two kinds: those in which the tarballs change, and those  *)
(* in which images do.                                                     *)
(***************************************************************************)
EXTENDS Release

MCCompared == <<"linaro", "google">>
MCUncompared == <<"edk2">>

MCBounds ==
    {[updates |-> 2, builds |-> 1, prepares |-> 0, pushes |-> 0, faults |-> 2],
     [updates |-> 0, builds |-> 2, prepares |-> 2, pushes |-> 3, faults |-> 1]}
=============================================================================
