----------------------------- MODULE ElfLayout -----------------------------
(***************************************************************************)
(* elfio::save(): the segments are put in an order, every segment's        *)
(* sections are laid out behind each other, then the sections without a    *)
(* segment, then the section table; at the end the file is written.        *)
(*                                                                         *)
(* Positions are unsigned 64-bit numbers in the code.  A negative number   *)
(* here stands for the number of the same residue, as -1 for 2^64 - 1.     *)
(***************************************************************************)
EXTENDS ElfObject

VARIABLES
    obj,        \* the object that is saved
    pc,         \* the step of save() it is in
    pos,        \* current_file_pos
    work,       \* segments still to be ordered
    ordered,    \* segments in the order they are laid out
    made,       \* section_generated, and the loose sections laid out
    cur,        \* the place in ordered, or the section, save() is at
    nth,        \* the section of that segment
    start,      \* seg_start_pos
    mem,        \* segment_memory
    fsz,        \* segment_filesize
    file,       \* what was written
    back        \* history: was a section put before the current position?

layoutVars == <<pos, work, ordered, made, cur, nth, start, mem, fsz, back>>

LayoutInit ==
    /\ pos = 0 /\ work = <<>> /\ ordered = <<>> /\ made = {} /\ cur = 1
    /\ nth = 1 /\ start = 0 /\ mem = 0 /\ fsz = 0 /\ back = FALSE

Goto(step) == pc' = step

Numbers(s) == [i \in 1..Len(s) |-> i]
PhdrsSize == PhdrSize(obj.hdr.class) * Len(obj.segs)
TablesEnd == EhdrSize(obj.hdr.class) + PhdrsSize
PhdrsOffset == IF obj.segs = <<>> THEN 0 ELSE EhdrSize(obj.hdr.class)

Swap(w, i, j) == [w EXCEPT ![i] = w[j], ![j] = w[i]]

save ==
    /\ pc = "save"
    /\ pos' = TablesEnd
    /\ work' = Numbers(obj.segs)
    /\ ordered' = <<>> /\ made' = {} /\ cur' = 1 /\ nth' = 1
    /\ back' = FALSE
    /\ Goto("front")
    /\ UNCHANGED <<obj, start, mem, fsz, file>>

(* The loop that brings segments at offset 0 to the front; nth is nextSlot.*)
AtZero(g) == obj.segs[g].offsetSet /\ obj.segs[g].offset = 0

bring_to_front ==
    /\ pc = "front" /\ cur \in DOMAIN work
    /\ IF cur # nth /\ AtZero(work[cur])
       THEN work' = Swap(work, cur, nth) /\ nth' = nth + 1
       ELSE UNCHANGED <<work, nth>>
    /\ cur' = cur + 1
    /\ UNCHANGED <<obj, pc, pos, ordered, made, start, mem, fsz, file, back>>

in_front ==
    /\ pc = "front" /\ cur \notin DOMAIN work
    /\ cur' = 1
    /\ Goto("order")
    /\ UNCHANGED <<obj, pos, work, ordered, made, nth, start, mem, fsz, file,
                   back>>

(* get_ordered_segments: a segment whose sections are a part of another's  *)
(* waits until that one has been taken.                                    *)
Waits_not(g) == FALSE                       \* mutant: in the order given
Waits(g) == \E k \in 2..Len(work) :
                is_subsequence_of(obj.segs[g], obj.segs[work[k]])

get_ordered_segments ==
    /\ pc = "order"
    /\ IF work = <<>> THEN Goto("segment") /\ UNCHANGED <<work, ordered>>
       ELSE /\ Goto("order")
            /\ IF Waits(Head(work))
               THEN /\ work' = Append(Tail(work), Head(work))
                    /\ ordered' = ordered
               ELSE /\ work' = Tail(work)
                    /\ ordered' = Append(ordered, Head(work))
    /\ UNCHANGED <<obj, pos, made, cur, nth, start, mem, fsz, file, back>>

-----------------------------------------------------------------------------
(* layout_segments_and_their_sections, one segment.                        *)
Seg == obj.segs[ordered[cur]]
Sec(k) == obj.secs[Seg.secs[k]]
Padding(p, align) == (align - (p % align)) % align

(* Where the segment starts.                                               *)
PhdrSegment ==
    /\ Seg.type = "PHDR" /\ Seg.secs = <<>>
    /\ start' = PhdrsOffset
    /\ mem' = PhdrsSize /\ fsz' = PhdrsSize
    /\ pos' = pos

NullFirst == Len(Seg.secs) > 1 /\ Sec(1).type = "NULL"

FileHeaderSegment ==
    /\ NullFirst
    /\ start' = 0 /\ mem' = pos /\ fsz' = pos
    /\ pos' = pos

NewSegmentHere == ~NullFirst /\ Seg.secs # <<>> /\ Seg.secs[1] \notin made

(* Mutant: the segment starts where the last one ended.                    *)
AlignedSegment_here ==
    /\ NewSegmentHere /\ Seg.align # 0
    /\ pos' = pos /\ start' = pos
    /\ mem' = 0 /\ fsz' = 0

(* The file position becomes congruent to the address.                     *)
AlignedSegment ==
    /\ NewSegmentHere /\ Seg.align # 0
    /\ pos' = pos + (((Seg.vaddr % Seg.align) - (pos % Seg.align)) % Seg.align)
    /\ start' = pos'
    /\ mem' = 0 /\ fsz' = 0

NestedSegment ==
    /\ ~NullFirst /\ Seg.secs # <<>> /\ Seg.secs[1] \in made
    /\ start' = Sec(1).offset
    /\ mem' = 0 /\ fsz' = 0
    /\ pos' = pos

EmptySegment ==
    /\ Seg.type # "PHDR" /\ Seg.secs = <<>>
    /\ start' = pos
    /\ mem' = 0 /\ fsz' = 0
    /\ pos' = pos

open_segment ==
    /\ pc = "segment" /\ cur \in DOMAIN ordered
    /\ PhdrSegment \/ FileHeaderSegment \/ AlignedSegment \/ NestedSegment
         \/ EmptySegment
    /\ nth' = 1
    /\ Goto("place")
    /\ UNCHANGED <<obj, work, ordered, made, cur, file, back>>

(* Division by an alignment of zero.                                       *)
crash_on_alignment ==
    /\ pc = "segment" /\ cur \in DOMAIN ordered
    /\ NewSegmentHere /\ Seg.align = 0
    /\ Goto("crashed")
    /\ UNCHANGED <<obj, file, layoutVars>>

-----------------------------------------------------------------------------
(* One section of the segment.                                             *)
Placing == pc = "place" /\ nth \in DOMAIN Seg.secs

null_section ==
    /\ Placing /\ Sec(nth).type = "NULL"
    /\ made' = made \cup {Seg.secs[nth]}
    /\ nth' = nth + 1
    /\ UNCHANGED <<obj, pc, pos, work, ordered, cur, start, mem, fsz, file,
                   back>>

(* Mutant: the address does not count.                                     *)
Shift_align(s) == Padding(pos, IF s.align = 0 THEN 1 ELSE s.align)

(* Bytes in front of a section that has no place yet: to where its address *)
(* is in the segment, or else to its alignment.                            *)
Shift(s) ==
    IF s.addrSet /\ s.type # "NOBITS"
    THEN (s.addr - Seg.vaddr) - (pos - start)
    ELSE Padding(pos, IF s.align = 0 THEN 1 ELSE s.align)

(* What the section adds to the segment's size in memory and in the file.  *)
(* .tbss takes no memory outside the TLS segment.                          *)
InMemory(s, n) ==
    IF s.alloc /\ ~(s.tls /\ Seg.type # "TLS" /\ s.type = "NOBITS")
    THEN s.size + n ELSE 0
InFile(s, n) == IF s.type # "NOBITS" THEN s.size + n ELSE 0

Grow(s, n) == mem' = mem + InMemory(s, n) /\ fsz' = fsz + InFile(s, n)

(* Sections of a part of another segment are in the file already.          *)
made_section ==
    /\ Placing /\ Sec(nth).type # "NULL" /\ Seg.secs[nth] \in made
    /\ Grow(Sec(nth), Sec(nth).offset - start - fsz)
    /\ nth' = nth + 1
    /\ UNCHANGED <<obj, pc, pos, work, ordered, made, cur, start, file, back>>

place_section ==
    /\ Placing /\ Sec(nth).type # "NULL" /\ Seg.secs[nth] \notin made
    /\ LET s == Sec(nth)
           p == pos + Shift(s)
       IN  /\ Grow(s, Shift(s))
           /\ obj' = [obj EXCEPT !.secs[Seg.secs[nth]] =
                        [s EXCEPT !.offset = IF Seg.secs[nth] = 1 THEN @ ELSE p,
                                  !.addr = IF s.addrSet THEN @
                                           ELSE Seg.vaddr + p - start,
                                  !.addrSet = TRUE]]
           /\ pos' = IF HasBytes(s) THEN p + s.size ELSE p
           /\ back' = (back \/ p < pos)
    /\ made' = made \cup {Seg.secs[nth]}
    /\ nth' = nth + 1
    /\ UNCHANGED <<pc, work, ordered, cur, start, file>>

close_segment ==
    /\ pc = "place" /\ nth \notin DOMAIN Seg.secs
    /\ obj' = [obj EXCEPT !.segs[ordered[cur]] =
                 [@ EXCEPT !.filesz = fsz, !.memsz = mem, !.offset = start,
                           !.offsetSet = TRUE]]
    /\ cur' = cur + 1
    /\ Goto("segment")
    /\ UNCHANGED <<pos, work, ordered, made, nth, start, mem, fsz, file, back>>

segments_done ==
    /\ pc = "segment" /\ cur \notin DOMAIN ordered
    /\ cur' = 1
    /\ Goto("loose")
    /\ UNCHANGED <<obj, pos, work, ordered, made, nth, start, mem, fsz, file,
                   back>>

-----------------------------------------------------------------------------
(* layout_sections_without_segments and layout_section_table.              *)
(* Mutant: the position stays where it is.                                 *)
layout_loose_section_stay ==
    /\ pc = "loose" /\ cur \in DOMAIN obj.secs
    /\ IF is_section_without_segment(obj, cur)
       THEN LET s == obj.secs[cur]
                p == IF s.align > 1 THEN pos + Padding(pos, s.align) ELSE pos
            IN  /\ obj' = [obj EXCEPT !.secs[cur].offset =
                             IF cur = 1 THEN @ ELSE p]
                /\ pos' = p
                /\ made' = made \cup {cur}
       ELSE UNCHANGED <<obj, pos, made>>
    /\ cur' = cur + 1
    /\ UNCHANGED <<pc, work, ordered, nth, start, mem, fsz, file, back>>

layout_loose_section ==
    /\ pc = "loose" /\ cur \in DOMAIN obj.secs
    /\ IF is_section_without_segment(obj, cur)
       THEN LET s == obj.secs[cur]
                p == IF s.align > 1 THEN pos + Padding(pos, s.align) ELSE pos
            IN  /\ obj' = [obj EXCEPT !.secs[cur].offset =
                             IF cur = 1 THEN @ ELSE p]
                /\ pos' = IF HasBytes(s) THEN p + s.size ELSE p
                /\ made' = made \cup {cur}
       ELSE UNCHANGED <<obj, pos, made>>
    /\ cur' = cur + 1
    /\ UNCHANGED <<pc, work, ordered, nth, start, mem, fsz, file, back>>

layout_section_table ==
    /\ pc = "loose" /\ cur \notin DOMAIN obj.secs
    /\ pos' = pos + Padding(pos, 4)
    /\ Goto("write")
    /\ UNCHANGED <<obj, work, ordered, made, cur, nth, start, mem, fsz, file,
                   back>>

(* save_header, save_sections and save_segments.  A section's data goes to *)
(* the file in the order of the sections, a later one over an earlier one. *)
Written(o) ==
    LET Upto[k \in 0..Len(o.secs)] ==
            IF k = 0 THEN {}
            ELSE LET s == o.secs[k]
                 IN  IF HasBytes(s)
                     THEN Overwrite(Upto[k - 1], s.offset, s.size,
                                    Part(s.data, 0, s.size))
                     ELSE Upto[k - 1]
    IN  Upto[Len(o.secs)]

FileOf(o, shoff) ==
    [hdr |-> [o.hdr EXCEPT !.shoff = shoff], phs |-> o.segs, shs |-> o.secs,
     content |-> Written(o)]

write_file ==
    /\ pc = "write"
    /\ file' = FileOf(obj, pos)
    /\ Goto("saved")
    /\ UNCHANGED <<obj, layoutVars>>

LayoutNext ==
    \/ save \/ bring_to_front \/ in_front \/ get_ordered_segments
    \/ open_segment \/ crash_on_alignment
    \/ null_section \/ made_section \/ place_section \/ close_segment
    \/ segments_done
    \/ layout_loose_section \/ layout_section_table \/ write_file

-----------------------------------------------------------------------------
(* What save() takes for granted of the object: the sections a segment     *)
(* names exist, the first section is the null section, and sizes,          *)
(* alignments and addresses are numbers.                                   *)
Saveable(o) ==
    /\ DOMAIN o = {"hdr", "secs", "segs"}
    /\ DOMAIN o.hdr = DOMAIN Header(32, "LSB") /\ o.hdr.class \in {32, 64}
    /\ o.secs \in Seq(Range(o.secs)) /\ o.segs \in Seq(Range(o.segs))
    /\ \A k \in DOMAIN o.secs :
         /\ DOMAIN o.secs[k] = DOMAIN NewSection
         /\ o.secs[k].size \in Nat /\ o.secs[k].align \in Nat
         /\ o.secs[k].addr \in Int /\ o.secs[k].offset \in Int
    /\ \A g \in DOMAIN o.segs :
         /\ DOMAIN o.segs[g] = DOMAIN NewSegment
         /\ o.segs[g].secs \in Seq(DOMAIN o.secs)
         /\ o.segs[g].align \in Nat /\ o.segs[g].vaddr \in Int
         /\ o.segs[g].offset \in Int
    /\ 1 \in DOMAIN o.secs => o.secs[1].type = "NULL"

(* load() takes the same for granted of the tables in a file.              *)
Loadable(f) == Saveable([hdr |-> f.hdr, secs |-> f.shs, segs |-> f.phs])

(* Positions [a, b) of the file that things were laid out in.              *)
Apart(a, b, c, d) == b <= c \/ d <= a
Behind(s) == s.offset + s.size

LaidOut == pc \in {"write", "saved"}

(* No two things share a byte of the file: the bytes of a section lie      *)
(* behind the header and the segment table, in front of the section table, *)
(* and apart from those of every other section -- unless a section's own   *)
(* address puts it in front of what was laid out before it.                *)
NoOverlap ==
    LaidOut /\ ~back =>
        \A i \in DOMAIN obj.secs :
            HasBytes(obj.secs[i]) =>
                /\ obj.secs[i].offset >= TablesEnd
                /\ Behind(obj.secs[i]) <= pos
                /\ \A j \in DOMAIN obj.secs :
                     j # i /\ HasBytes(obj.secs[j]) =>
                        Apart(obj.secs[i].offset, Behind(obj.secs[i]),
                              obj.secs[j].offset, Behind(obj.secs[j]))
=============================================================================
