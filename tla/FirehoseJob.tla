---------------------------- MODULE FirehoseJob ----------------------------
(***************************************************************************)
(* The Firehose session implements FlashJob.                               *)
(***************************************************************************)
EXTENDS Firehose

(* The images that can be opened and the patches for the disk; or every    *)
(* UFS tag twice.                                                          *)
Job ==
    IF plan.ufs THEN Passed("check", Tags) \cup Passed("provision", Tags)
                ELSE AllPrograms \cup AllPatches

Needs == [k \in Job |-> Required([op |-> k[1], arg |-> k[2]])]

(* What is in flight, and the program whose data is on its way.            *)
Sent(k) == <<toDevice[k].op, toDevice[k].arg>>

UnderWay ==
    ({Sent(k) : k \in 1..Len(toDevice)} \cap Job)
      \cup (IF expect > 0 THEN {<<"program", cur>>} ELSE {})

Carried == done \cap Job
Closing == done \ (Job \cup {<<"nop", 0>>})
Refusal == refused \cap Job # {}

Verdict ==
    CASE ~Ended                        -> "running"
      [] pc = "returned" /\ ret = 0    -> "succeeded"
      [] OTHER                         -> "failed"

Contract == INSTANCE FlashJob WITH
    job <- Job,
    needs <- Needs,
    underway <- UnderWay,
    carried <- Carried,
    closing <- Closing,
    refused <- Refusal,
    verdict <- Verdict,
    trusted <- ~faulted

(* Whatever the target answers, logs or fails to answer, and wherever the  *)
(* buffers end: a session is a job whose items are begun one after the     *)
(* other, in order, none after a refusal, and a success that is reported   *)
(* means all of it.                                                        *)
IsFlashJob == Contract!Spec
=============================================================================
