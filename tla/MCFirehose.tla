----------------------------- MODULE MCFirehose -----------------------------
(***************************************************************************)
(* Small sessions for TLC.  A sector is 2 bytes and the payload size       *)
(* compiled in holds two of them, so that an image of 5 bytes takes one,   *)
(* two or three writes depending on what the target supports; a target     *)
(* that supports 1 byte leaves no room for a sector.  An earlier session   *)
(* may have left an answer, or a log line and two answers, unread.         *)
(***************************************************************************)
EXTENDS FirehoseJob

Image(bytes, limit, opens, boot) ==
    [sector |-> 2, bytes |-> bytes, limit |-> limit, opens |-> opens,
     boot |-> boot, part |-> 1]

Flash(programs, patches) ==
    [ufs |-> FALSE, lus |-> 0, programs |-> programs, patches |-> patches]

(* A boot image of three sectors and one that its partition cuts short.    *)
TwoImages ==
    Flash(<<Image(5, 0, TRUE, TRUE), Image(3, 1, TRUE, FALSE)>>,
          <<FALSE, TRUE>>)

(* An image that is missing, and two candidates for the boot partition.    *)
MissingImage ==
    Flash(<<Image(2, 0, FALSE, TRUE), Image(2, 0, TRUE, TRUE)>>, <<TRUE>>)

(* An empty image behind another one.                                      *)
EmptyImage ==
    Flash(<<Image(2, 0, TRUE, FALSE), Image(0, 0, TRUE, FALSE)>>, <<TRUE>>)

Provision == [ufs |-> TRUE, lus |-> 1, programs |-> <<>>, patches |-> <<>>]

MCPlans == {TwoImages, MissingImage, EmptyImage, Provision}
MCCaps == {1, 2, 4, 6}

MCLeftovers ==
    {<<>>, <<Response(TRUE, NoSize)>>,
     <<Log, Response(TRUE, NoSize), Response(TRUE, 4)>>}
=============================================================================
