------------------------------ MODULE MCSahara ------------------------------
(***************************************************************************)
(* A programmer of three chunks, whole or cut short.                       *)
(***************************************************************************)
EXTENDS Sahara

MCWanted == {"header", "code", "hashes"}
MCFiles == {MCWanted, {"header", "code"}, {}}
=============================================================================
