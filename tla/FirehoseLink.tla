---------------------------- MODULE FirehoseLink ----------------------------
(***************************************************************************)
(* The serial line between qdl and the Firehose programmer, as            *)
(* firehose_read() and firehose_write() of qdl/firehose.c use it.          *)
(*                                                                         *)
(* The line is two queues.  A document the host writes is a record         *)
(* [op, arg]; a document the target writes is a log line or a response,    *)
(* and a response is an ACK or a NAK and carries the payload size that     *)
(* only the answer to <configure> uses.  One read() of the host returns    *)
(* whatever prefix of the queue has arrived: several documents may come in *)
(* one buffer.                                                             *)
(***************************************************************************)
EXTENDS Integers, Sequences

CONSTANTS
    Leftovers,  \* what an earlier session may have left unread on the line
    MaxFaults   \* bound: failures of poll(), read() or the XML parser

VARIABLES
    toDevice,   \* documents and raw data written and not yet taken
    toHost,     \* log lines and responses not yet read
    plugged,    \* is the device on the bus?
    faults      \* history: reads of the host that have failed

link == <<toDevice, toHost, plugged, faults>>

faulted == faults > 0

NoSize == -1    \* the response has no payload attribute

Message == [kind : {"log", "response"}, ack : BOOLEAN, size : Nat \cup {NoSize}]

Log == [kind |-> "log", ack |-> FALSE, size |-> NoSize]
Response(ack, size) == [kind |-> "response", ack |-> ack, size |-> size]

ASSUME LeftoversAssumption == Leftovers \subseteq Seq(Message)
ASSUME FaultsAssumption == MaxFaults \in Nat

IsResponse(q, i) == q[i].kind = "response"
NoResponse(q) == \A i \in 1..Len(q) : ~IsResponse(q, i)

LinkInit ==
    /\ toDevice = <<>>
    /\ toHost \in Leftovers
    /\ plugged = TRUE
    /\ faults = 0

-----------------------------------------------------------------------------
(* The value a response parser returns: firehose_nop_parser says whether   *)
(* the answer was anything but an ACK, the configure parser a size, or     *)
(* -EINVAL for a response that names none.                                 *)
Parsed(parser, m) ==
    IF parser = "configure" THEN m.size ELSE IF m.ack THEN 0 ELSE 1

firehose_write(doc) ==
    /\ plugged
    /\ toDevice' = Append(toDevice, doc)
    /\ UNCHANGED <<toHost, plugged, faults>>

(* The first k documents arrive in one buffer; of its responses the last   *)
(* one decides the result, and every other document of it is forgotten.    *)
ReadBatch(parser, r) ==
    /\ \E k \in 1..Len(toHost) : \E j \in 1..k :
          /\ IsResponse(toHost, j)
          /\ \A i \in (j + 1)..k : ~IsResponse(toHost, i)
          /\ r = Parsed(parser, toHost[j])
          /\ toHost' = SubSeq(toHost, k + 1, Len(toHost))
    /\ UNCHANGED <<toDevice, plugged, faults>>

Fault == faults < MaxFaults /\ faults' = faults + 1

(* read() fails: the loop is left with the 0 that firehose_wait returned.  *)
(* poll() fails: its negative result is returned.                          *)
ReadFails(r) ==
    /\ r \in {-1, 0}
    /\ Fault
    /\ UNCHANGED <<toDevice, toHost, plugged>>

(* A document that does not parse, or has no element, ends the read and    *)
(* loses the rest of the buffer.  The result is -EINVAL in the first case  *)
(* and an uninitialised int in the second.                                 *)
ReadGarbled(r) ==
    /\ r \in {-1, 0, 1}
    /\ \E k \in 1..Len(toHost) : toHost' = SubSeq(toHost, k + 1, Len(toHost))
    /\ Fault
    /\ UNCHANGED <<toDevice, plugged>>

firehose_read(parser, r) ==
    ReadBatch(parser, r) \/ ReadFails(r) \/ ReadGarbled(r)

(* Mutant: the loop goes on after a buffer with a response in it.          *)
ReadLogs_all ==
    /\ \E k \in 1..Len(toHost) : toHost' = SubSeq(toHost, k + 1, Len(toHost))
    /\ UNCHANGED <<toDevice, plugged, faults>>

(* A buffer of nothing but log lines does not end the loop of the read.    *)
ReadLogs ==
    /\ \E k \in 1..Len(toHost) :
          /\ \A i \in 1..k : ~IsResponse(toHost, i)
          /\ toHost' = SubSeq(toHost, k + 1, Len(toHost))
    /\ UNCHANGED <<toDevice, plugged, faults>>

(* One read of the draining loop: whatever is there goes, whether it       *)
(* parses or not, for the result is only compared with -ETIMEDOUT.         *)
DrainBatch ==
    /\ \E k \in 1..Len(toHost) : toHost' = SubSeq(toHost, k + 1, Len(toHost))
    /\ UNCHANGED <<toDevice, plugged, faults>>

-----------------------------------------------------------------------------
(* The target's side of the line, and the cable.                           *)
TargetSends(m) == toHost' = Append(toHost, m)

Unplug ==
    /\ plugged
    /\ plugged' = FALSE
    /\ toDevice' = <<>>
    /\ toHost' = <<>>
    /\ UNCHANGED faults

LinkTypeOK ==
    /\ toHost \in Seq(Message)
    /\ plugged \in BOOLEAN
    /\ faults \in 0..MaxFaults
=============================================================================
