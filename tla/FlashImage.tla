----------------------------- MODULE FlashImage -----------------------------
(***************************************************************************)
(* What firehose_program() of qdl/firehose.c puts on the storage: the      *)
(* chunks of raw data it cuts an image into, byte by byte.  Firehose.tla   *)
(* has the commands around them and counts sectors only.                   *)
(*                                                                         *)
(* The k-th byte of the file is represented by k.                          *)
(***************************************************************************)
EXTENDS Integers

CONSTANTS
    Images,     \* [sector, bytes, limit, offset] records
    Payloads,   \* values of max_payload_size, in bytes
    Word        \* 2^32: products of the unsigned members wrap there

Image == [sector : Nat \ {0},   \* SECTOR_SIZE_IN_BYTES
          bytes : Nat,          \* size of the file
          limit : Nat,          \* num_partition_sectors, 0 for none
          offset : Nat]         \* file_sector_offset

ASSUME ImagesAssumption == Images \subseteq Image
ASSUME PayloadsAssumption == Payloads \subseteq Nat /\ Word \in Nat \ {0}

VARIABLES
    image, payload,
    buf,        \* the buffer of max_payload_size bytes
    pos,        \* the position in the file
    left,       \* sectors still to be written
    written,    \* bytes written
    disk        \* what was written, from start_sector on

vars == <<image, payload, buf, pos, left, written, disk>>

Zero == -1
Junk == -2      \* what malloc() returns
Content == Nat \cup {Zero, Junk}

Least(a, b) == IF a < b THEN a ELSE b

(* Sectors announced and written: the whole file, cut at the partition.    *)
num_sectors ==
    LET n == (image.bytes + image.sector - 1) \div image.sector
    IN  IF image.limit # 0 /\ n > image.limit THEN image.limit ELSE n

(* Mutant: rounded up.                                                     *)
chunk_size_up ==
    Least((payload + image.sector - 1) \div image.sector, left)

chunk_size == Least(payload \div image.sector, left)
Bytes == chunk_size * image.sector

(* Bytes that one read() of the file returns.                              *)
Available == IF pos < image.bytes THEN Least(Bytes, image.bytes - pos) ELSE 0

Init ==
    /\ image \in Images /\ payload \in Payloads
    /\ buf = [i \in 0..(payload - 1) |-> Junk]
    /\ pos = (image.offset * image.sector) % Word
    /\ left = num_sectors
    /\ written = 0
    /\ disk = [i \in {} |-> Junk]

(* Mutant: what read() did not fill is left as it was.                     *)
FillBuffer_unpadded(n) ==
    buf' = [i \in 0..(payload - 1) |-> IF i < n THEN pos + i ELSE buf[i]]

(* read(), and zeros from there to the end of the buffer.                  *)
FillBuffer(n) ==
    buf' = [i \in 0..(payload - 1) |-> IF i < n THEN pos + i ELSE Zero]

(* Mutant: the buffer is taken to be full every time.                      *)
WriteChunk_full ==
    /\ disk' = [i \in 0..(written + Bytes - 1) |->
                   IF i < written THEN disk[i] ELSE buf'[i - written]]
    /\ written' = written + Bytes
    /\ left' = left - payload \div image.sector

WriteChunk ==
    /\ disk' = [i \in 0..(written + Bytes - 1) |->
                   IF i < written THEN disk[i] ELSE buf'[i - written]]
    /\ written' = written + Bytes
    /\ left' = left - chunk_size

(* One turn of the loop.                                                   *)
program_chunk ==
    /\ left > 0 /\ chunk_size > 0
    /\ FillBuffer(Available)
    /\ pos' = pos + Available
    /\ WriteChunk
    /\ UNCHANGED <<image, payload>>

(* The loop has ended; or, with a payload below a sector, it never does.   *)
Stays ==
    /\ left <= 0 \/ chunk_size = 0
    /\ UNCHANGED vars

Next == program_chunk \/ Stays

Spec == Init /\ [][Next]_vars

-----------------------------------------------------------------------------
TypeOK ==
    /\ image \in Images /\ payload \in Payloads
    /\ buf \in [0..(payload - 1) -> Content]
    /\ pos \in Nat /\ left \in Nat /\ written \in Nat
    /\ disk \in [0..(written - 1) -> Content]

(* No chunk is larger than the buffer it is read into and written from.    *)
ChunkFits == Bytes <= payload

Start == image.offset * image.sector
Byte(k) == IF k < image.bytes THEN k ELSE Zero

(* What is on the storage is the file from its offset on, in order, and    *)
(* zeros behind its end, however it was cut into chunks: no byte is lost   *)
(* or repeated where two chunks meet, and none is left of an earlier chunk *)
(* or of the heap.  Offsets of 2^32 bytes and more wrap.                   *)
DiskFaithful ==
    Start < Word => \A i \in 0..(written - 1) : disk[i] = Byte(Start + i)

(* The bytes written are those of the sectors that are done, and in the    *)
(* end exactly those the <program> command announced.                      *)
WrittenExactly == written = (num_sectors - left) * image.sector
=============================================================================
