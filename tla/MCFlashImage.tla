---------------------------- MODULE MCFlashImage ----------------------------
(***************************************************************************)
(* Files of up to seven bytes in sectors of one to three, partitions that  *)
(* hold all, some or none of it, offsets inside and behind the file, and   *)
(* payload sizes that hold no, one, or several sectors with and without a  *)
(* rest.                                                                   *)
(***************************************************************************)
EXTENDS FlashImage

MCImages == [sector : 1..3, bytes : 0..7, limit : 0..3, offset : 0..3]
MCPayloads == 1..7
=============================================================================
