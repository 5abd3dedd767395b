------------------------------ MODULE FlashJob ------------------------------
(***************************************************************************)
(* What a flashing session promises to whoever started it, without the     *)
(* line, the documents and the raw data: a job is a set of items, each of  *)
(* which needs others; one item is under way at a time, it is begun when   *)
(* all it needs has been carried out, and a refusal is the end of it.      *)
(*                                                                         *)
(* The promise ends when a read of the host has failed (trusted = FALSE):  *)
(* qdl then takes the answer for an ACK and anything may follow.           *)
(***************************************************************************)

VARIABLES
    job,        \* the items
    needs,      \* what must have been carried out before each of them
    underway,   \* the item that was handed to the target, if any
    carried,    \* those the target has carried out
    closing,    \* boot switch and reset, as far as they were carried out
    refused,    \* has the target refused an item?
    verdict,    \* what the session reported
    trusted

vars == <<job, needs, underway, carried, closing, refused, verdict, trusted>>

Init ==
    /\ needs \in [job -> SUBSET job]
    /\ underway = {} /\ carried = {} /\ closing = {}
    /\ refused = FALSE /\ verdict = "running" /\ trusted = TRUE

Begin(k) ==
    /\ verdict = "running" /\ ~refused
    /\ underway = {} /\ k \in job \ carried
    /\ needs[k] \subseteq carried
    /\ underway' = {k}
    /\ UNCHANGED <<job, needs, carried, closing, refused, verdict, trusted>>

CarryOut ==
    /\ underway # {}
    /\ carried' = carried \cup underway /\ underway' = {}
    /\ UNCHANGED <<job, needs, closing, refused, verdict, trusted>>

Refuse ==
    /\ underway # {}
    /\ refused' = TRUE /\ underway' = {}
    /\ UNCHANGED <<job, needs, carried, closing, verdict, trusted>>

(* The cable is pulled, or there turns out to be nothing to the item.      *)
Lose ==
    /\ underway' = {}
    /\ UNCHANGED <<job, needs, carried, closing, refused, verdict, trusted>>

(* The target is told to boot from what was flashed, and reset.            *)
Close ==
    /\ carried = job
    /\ closing \subseteq closing'
    /\ UNCHANGED <<job, needs, underway, carried, refused, verdict, trusted>>

Succeed ==
    /\ verdict = "running" /\ carried = job
    /\ verdict' = "succeeded"
    /\ UNCHANGED <<job, needs, underway, carried, closing, refused, trusted>>

(* What is under way may still be carried out.                             *)
Fail ==
    /\ verdict = "running"
    /\ verdict' = "failed"
    /\ UNCHANGED <<job, needs, underway, carried, closing, refused, trusted>>

Distrust == trusted' = FALSE

Next ==
    \/ \E k \in job : Begin(k)
    \/ CarryOut \/ Refuse \/ Lose \/ Close \/ Succeed \/ Fail \/ Distrust

Spec == Init /\ [][Next]_vars
=============================================================================
