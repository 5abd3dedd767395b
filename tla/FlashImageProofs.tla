-------------------------- MODULE FlashImageProofs --------------------------
(***************************************************************************)
(* For every sector, payload and image size: the chunks fit the buffer,    *)
(* the storage holds the file, and as many bytes of it as announced.       *)
(*                                                                         *)
(* The inductive invariant adds where the file is read: at the byte after  *)
(* the last one written, or at or behind the end of the file.              *)
(***************************************************************************)
EXTENDS FlashImage, TLAPS

(* Where the next chunk comes from.                                        *)
ReadInStep ==
    Start < Word =>
        \/ pos = Start + written
        \/ pos >= image.bytes /\ Start + written >= image.bytes

ImageInv ==
    TypeOK /\ left <= num_sectors /\ ReadInStep /\ DiskFaithful /\ WrittenExactly

(* Dividing and multiplying never makes a size larger.                     *)
LEMMA RoundDown ==
    ASSUME NEW a \in Nat, NEW b \in Nat \ {0}
    PROVE  a \div b \in Nat /\ (a \div b) * b <= a
  BY SMT

(* Products of sizes are sizes, and grow with their factors.               *)
LEMMA Products ==
    ASSUME NEW a \in Nat, NEW b \in Nat, NEW c \in Nat, a <= b
    PROVE  a * c \in Nat /\ a * c <= b * c
<1>1. \A m, n \in Nat : m * n \in Nat
  BY SMT
<1>2. PICK d \in Nat : b = a + d
  <2> WITNESS b - a \in Nat
  <2> QED OBVIOUS
<1>3. b * c = a * c + d * c
  BY <1>2, SMT
<1> QED
  BY <1>1, <1>3

(* The sizes that come with an image.                                      *)
LEMMA ImageSizes ==
    ASSUME image \in Images, payload \in Payloads
    PROVE  /\ image.sector \in Nat \ {0} /\ image.bytes \in Nat
           /\ image.offset \in Nat /\ payload \in Nat
           /\ Start \in Nat /\ num_sectors \in Nat
<1>1. /\ image.sector \in Nat \ {0} /\ image.bytes \in Nat
      /\ image.limit \in Nat /\ image.offset \in Nat /\ payload \in Nat
  BY ImagesAssumption, PayloadsAssumption DEF Image
<1>2. Start \in Nat
  BY <1>1, Products DEF Start
<1>3. num_sectors \in Nat
  <2>1. image.bytes + image.sector - 1 \in Nat
    BY <1>1
  <2>2. (image.bytes + image.sector - 1) \div image.sector \in Nat
    BY <1>1, <2>1, RoundDown
  <2> QED
    BY <1>1, <2>2 DEF num_sectors
<1> QED
  BY <1>1, <1>2, <1>3

(* The sizes of a turn of the loop: whole sectors that fit the buffer, and *)
(* of these as many bytes as the file still has.                           *)
LEMMA ChunkSizes ==
    ASSUME image \in Images, payload \in Payloads, left \in Nat, pos \in Nat
    PROVE  /\ chunk_size \in Nat /\ chunk_size <= left
           /\ Bytes \in Nat /\ Bytes <= payload
           /\ Available \in Nat /\ Available <= Bytes
           /\ \/ Available = Bytes /\ pos + Bytes <= image.bytes
              \/ Available = image.bytes - pos /\ pos < image.bytes
              \/ Available = 0 /\ pos >= image.bytes
<1>1. /\ image.sector \in Nat \ {0} /\ image.bytes \in Nat
      /\ payload \in Nat
  BY ImageSizes
<1>2. /\ payload \div image.sector \in Nat
      /\ (payload \div image.sector) * image.sector <= payload
  BY <1>1, RoundDown
<1>3. /\ chunk_size \in Nat /\ chunk_size <= left
      /\ chunk_size <= payload \div image.sector
  BY <1>2 DEF chunk_size, Least
<1>4. Bytes \in Nat /\ Bytes <= payload
  <2>1. /\ chunk_size * image.sector \in Nat
        /\ chunk_size * image.sector <= (payload \div image.sector) * image.sector
    BY <1>1, <1>2, <1>3, Products
  <2>2. (payload \div image.sector) * image.sector \in Nat
    BY <1>1, <1>2, Products
  <2> QED
    BY <1>1, <1>2, <2>1, <2>2 DEF Bytes
<1>5. /\ Available \in Nat /\ Available <= Bytes
      /\ \/ Available = Bytes /\ pos + Bytes <= image.bytes
         \/ Available = image.bytes - pos /\ pos < image.bytes
         \/ Available = 0 /\ pos >= image.bytes
  BY <1>1, <1>4 DEF Available, Least
<1> QED
  BY <1>3, <1>4, <1>5

(* The invariant holds when the loop starts.                               *)
LEMMA ImageStarts == Init => ImageInv
<1> SUFFICES ASSUME Init PROVE ImageInv
  OBVIOUS
<1>1. image \in Images /\ payload \in Payloads /\ Word \in Nat \ {0}
  BY PayloadsAssumption DEF Init
<1>2. /\ image.sector \in Nat /\ payload \in Nat
      /\ Start \in Nat /\ num_sectors \in Nat
  BY <1>1, ImageSizes
<1>3. /\ left = num_sectors /\ written = 0 /\ pos = Start % Word
      /\ buf = [i \in 0..(payload - 1) |-> Junk] /\ disk = [i \in {} |-> Junk]
  BY DEF Init, Start
<1>4. pos \in Nat /\ (Start < Word => pos = Start)
  <2>1. \A a \in Nat, b \in Nat \ {0} : a % b \in Nat /\ (a < b => a % b = a)
    BY SMT
  <2> QED
    BY <1>1, <1>2, <1>3, <2>1
<1>5. 0..(written - 1) = {}
  BY <1>3
<1>6. TypeOK
  <2>1. disk \in [0..(written - 1) -> Content]
    BY <1>3, <1>5
  <2>2. buf \in [0..(payload - 1) -> Content]
    BY <1>3 DEF Content
  <2> QED
    BY <1>1, <1>2, <1>3, <1>4, <2>1, <2>2 DEF TypeOK
<1>7. left <= num_sectors /\ ReadInStep
  BY <1>2, <1>3, <1>4 DEF ReadInStep
<1>8. DiskFaithful
  BY <1>5 DEF DiskFaithful
<1>9. WrittenExactly
  BY <1>2, <1>3 DEF WrittenExactly
<1> QED
  BY <1>6, <1>7, <1>8, <1>9 DEF ImageInv

(* And every turn of the loop keeps it.                                    *)
LEMMA ImageKept == ImageInv /\ [Next]_vars => ImageInv'
<1> SUFFICES ASSUME ImageInv, [Next]_vars PROVE ImageInv'
  OBVIOUS
<1>1. TypeOK /\ ReadInStep /\ DiskFaithful /\ WrittenExactly /\ left <= num_sectors
  BY DEF ImageInv
<1>2. CASE UNCHANGED vars
  BY <1>1, <1>2
     DEF vars, ImageInv, TypeOK, ReadInStep, DiskFaithful, WrittenExactly,
         num_sectors, Start, Byte
<1>3. CASE program_chunk
  <2>1. /\ image \in Images /\ payload \in Payloads /\ left \in Nat
        /\ pos \in Nat /\ written \in Nat
        /\ disk \in [0..(written - 1) -> Content]
    BY <1>1 DEF TypeOK
  <2>2. /\ image.sector \in Nat \ {0} /\ image.bytes \in Nat /\ payload \in Nat
        /\ Start \in Nat /\ num_sectors \in Nat
    BY <2>1, ImageSizes
  <2>3. /\ chunk_size \in Nat /\ chunk_size <= left
        /\ Bytes \in Nat /\ Bytes <= payload
        /\ Available \in Nat /\ Available <= Bytes
        /\ \/ Available = Bytes /\ pos + Bytes <= image.bytes
           \/ Available = image.bytes - pos /\ pos < image.bytes
           \/ Available = 0 /\ pos >= image.bytes
    BY <2>1, ChunkSizes
  <2>4. /\ image' = image /\ payload' = payload /\ pos' = pos + Available
        /\ buf' = [i \in 0..(payload - 1) |->
                     IF i < Available THEN pos + i ELSE Zero]
        /\ disk' = [i \in 0..(written + Bytes - 1) |->
                     IF i < written THEN disk[i] ELSE buf'[i - written]]
        /\ written' = written + Bytes /\ left' = left - chunk_size
    BY <1>3 DEF program_chunk, FillBuffer, WriteChunk
  <2>5. Start' = Start /\ num_sectors' = num_sectors
    BY <2>4 DEF Start, num_sectors
  <2>6. /\ pos' \in Nat /\ left' \in Nat /\ written' \in Nat
        /\ left' <= num_sectors
    BY <1>1, <2>1, <2>2, <2>3, <2>4
  <2>7. \A i \in 0..(payload - 1) :
          /\ buf'[i] \in Content
          /\ i < Available => buf'[i] = pos + i
          /\ i >= Available => buf'[i] = Zero
    <3>1. \A i \in 0..(payload - 1) :
            buf'[i] = IF i < Available THEN pos + i ELSE Zero
      BY <2>4, Zenon
    <3>2. \A i \in 0..(payload - 1) : pos + i \in Nat /\ (i >= Available <=> ~(i < Available))
      BY <2>1, <2>2, <2>3
    <3> QED
      BY <3>1, <3>2 DEF Content
  <2>8. \A i \in 0..(written' - 1) :
          \/ i < written /\ i \in 0..(written - 1) /\ disk'[i] = disk[i]
          \/ /\ i >= written /\ i - written \in 0..(Bytes - 1)
             /\ i - written \in 0..(payload - 1)
             /\ disk'[i] = buf'[i - written]
    BY <2>1, <2>2, <2>3, <2>4
  <2>9. TypeOK'
    <3>1. \A i \in 0..(written + Bytes - 1) :
            (IF i < written THEN disk[i] ELSE buf'[i - written]) \in Content
      BY <2>1, <2>2, <2>3, <2>7
    <3>2. disk' \in [0..(written + Bytes - 1) -> Content]
      BY <2>4, <3>1, Zenon
    <3>3. buf' \in [0..(payload - 1) -> Content]
      BY <2>4, <2>7
    <3>4. disk' \in [0..(written' - 1) -> Content]
      <4>1. written' = written + Bytes
        BY <2>4
      <4>2. 0..(written' - 1) = 0..(written + Bytes - 1)
        BY <2>1, <2>3, <4>1
      <4> QED
        BY <3>2, <4>2, Zenon
    <3> QED
      BY <2>1, <2>4, <2>6, <3>3, <3>4 DEF TypeOK
  <2>10. ReadInStep'
    BY <1>1, <2>1, <2>2, <2>3, <2>4, <2>5 DEF ReadInStep
  <2>11. DiskFaithful'
    <3> SUFFICES ASSUME Start < Word, NEW i \in 0..(written' - 1)
                 PROVE  disk'[i] = Byte(Start + i)
      BY <2>4, <2>5 DEF DiskFaithful, Byte
    <3>1. CASE i < written
      <4>1. i \in 0..(written - 1) /\ disk'[i] = disk[i]
        <5>1. i \in Nat /\ ~(i >= written)
          BY <2>1, <2>6, <3>1
        <5> QED
          BY <2>8, <5>1
      <4> QED
        BY <1>1, <4>1 DEF DiskFaithful
    <3>2. CASE i >= written
      <4>1. /\ i - written \in 0..(Bytes - 1)
            /\ i - written \in 0..(payload - 1)
            /\ disk'[i] = buf'[i - written]
        BY <2>1, <2>8, <3>2
      <4>2. \/ i - written < Available /\ disk'[i] = pos + (i - written)
            \/ i - written >= Available /\ disk'[i] = Zero
        BY <2>3, <2>7, <4>1
      <4>3. \/ pos = Start + written
            \/ pos >= image.bytes /\ Start + written >= image.bytes
        BY <1>1 DEF ReadInStep
      <4> QED
        <5>1. i \in Nat /\ i < written + Bytes
          BY <2>1, <2>3, <2>4
        <5>2. CASE i - written < Available /\ disk'[i] = pos + (i - written)
          <6>1. pos + (i - written) < image.bytes
            BY <2>1, <2>2, <2>3, <3>2, <5>1, <5>2
          <6>2. pos = Start + written
            BY <2>1, <2>2, <3>2, <4>3, <5>1, <6>1
          <6> QED
            <7>1. pos + (i - written) = Start + i /\ Start + i < image.bytes
              BY <2>1, <2>2, <5>1, <6>1, <6>2
            <7>2. Byte(Start + i) = Start + i
              BY <7>1 DEF Byte
            <7> QED
              BY <5>2, <7>1, <7>2
        <5>3. CASE i - written >= Available /\ disk'[i] = Zero
          BY <2>1, <2>2, <2>3, <3>2, <4>3, <5>1, <5>3 DEF Byte
        <5> QED
          BY <4>2, <5>2, <5>3
    <3> QED
      BY <2>1, <2>6, <3>1, <3>2
  <2>12. WrittenExactly'
    <3>1. written = (num_sectors - left) * image.sector
      BY <1>1 DEF WrittenExactly
    <3>2. \A a, b, c, d \in Nat : (a - b) * d + c * d = (a - (b - c)) * d
      BY SMT
    <3>3. written + Bytes = (num_sectors - (left - chunk_size)) * image.sector
      BY <2>1, <2>2, <2>3, <3>1, <3>2 DEF Bytes
    <3> QED
      BY <2>4, <2>5, <3>3 DEF WrittenExactly
  <2> QED
    BY <2>5, <2>6, <2>9, <2>10, <2>11, <2>12 DEF ImageInv
<1> QED
  BY <1>2, <1>3 DEF Next, Stays

(* What the invariant says of the properties.                              *)
LEMMA ImageSafe ==
    Spec => [](TypeOK /\ ChunkFits /\ DiskFaithful /\ WrittenExactly)
<1>1. ImageInv => TypeOK /\ ChunkFits /\ DiskFaithful /\ WrittenExactly
  BY ChunkSizes DEF ImageInv, TypeOK, ChunkFits
<1> QED
  BY <1>1, ImageStarts, ImageKept, PTL DEF Spec

(* The types hold for images, partitions, offsets and payloads of every    *)
(* size.                                                                   *)
THEOREM TypeCorrect == Spec => []TypeOK
  BY ImageSafe, PTL

(* No chunk is larger than the buffer that is cleared, filled and written. *)
THEOREM ChunksFit == Spec => []ChunkFits
  BY ImageSafe, PTL

(* The storage holds the file and then zeros.                              *)
THEOREM ImageOnDisk == Spec => []DiskFaithful
  BY ImageSafe, PTL

(* As many bytes were written as the sectors announced and passed hold.    *)
THEOREM WrittenAsAnnounced == Spec => []WrittenExactly
  BY ImageSafe, PTL
=============================================================================
