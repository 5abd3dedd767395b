------------------------------- MODULE SignLk -------------------------------
(***************************************************************************)
(* signlk: main() of signlk.cpp builds a signed layout of an ELF file with *)
(* ELFIO and exports what signlk.sh then hashes, signs and puts together.  *)
(* The other jobs are what the library's own tests do: load a file, save   *)
(* it under another name and load that; save what a program made and load  *)
(* it; add a section to that and save and load it again.                   *)
(***************************************************************************)
EXTENDS ElfLayout

CONSTANTS
    Inputs,         \* files signlk is given
    Originals,      \* files to be copied
    Programs,       \* objects that programs made
    Leftovers       \* segment files a --tmpdir may hold from an earlier run

(* Addresses and sizes in a file are unsigned.  The programs name a        *)
(* section for the names of sections.                                      *)
Readable(f) ==
    /\ Loadable(f) /\ IsContent(f.content)
    /\ \A g \in DOMAIN f.phs : /\ f.phs[g].vaddr \in Nat
                              /\ f.phs[g].paddr \in Nat
                              /\ f.phs[g].filesz \in Nat
                              /\ f.phs[g].memsz \in Nat

ASSUME FilesAssumption ==
    /\ \A f \in Inputs : IsElf(f) => Readable(f)
    /\ \A f \in Originals : IsElf(f) => Loadable(f)
    /\ \A o \in Programs : Saveable(o) /\ o.hdr.shstrndx \in DOMAIN o.secs

(* A segment file has bytes.                                               *)
ASSUME LeftoversAssumption ==
    \A t \in Leftovers :
        /\ IsFiniteSet(DOMAIN t) /\ DOMAIN t \subseteq Nat
        /\ \A n \in DOMAIN t : t[n].size \in Nat \ {0}

(* A segment file's name ends in its number, as one character.  The order  *)
(* of the names is that of the numbers as long as they are digits.         *)
ASSUME DigitsAssumption ==
    /\ \A f \in Inputs : IsElf(f) => Len(f.phs) <= 8
    /\ \A t \in Leftovers : DOMAIN t \subseteq 0..9

ASSUME AddedNamesAssumption ==
    NameSize(".mi") \in Nat /\ NameSize("new") \in Nat

HASH_CODE_SIZE == 128
SIGNATURE_SIZE == 256
MAX_CERT_CHAIN_SIZE == 6568
HASH_SE_ALIGN == 4096
HASH_SE_FLAG == {21, 25}                    \* 0x2200000
SEGMENT_TYPE_MASK == {24, 25, 26}           \* 0x7000000
MiHeaderSize == 40                          \* ten unsigned
HashSize == 32                              \* openssl sha256 -binary
hash_seg_offset == 4096                     \* in signlk.sh

(* The script takes for granted that the headers of what signlk writes, a  *)
(* segment for the headers and one for the hashes among them, end in front *)
(* of its offset, and that a section header is as long as the header of    *)
(* the table but shorter than that and the file's header.                  *)
HeadersFit(f, more) ==
    EhdrSize(f.hdr.class) + PhdrSize(f.hdr.class) * (Len(f.phs) + more)
        <= hash_seg_offset - 4

ASSUME HeadersAssumption ==
    /\ \A class \in {32, 64} :
         /\ MiHeaderSize <= ShdrSize(class)
         /\ ShdrSize(class) < EhdrSize(class) + MiHeaderSize
    /\ \A f \in Inputs : IsElf(f) => HeadersFit(f, 4)

VARIABLES
    job,        \* "sign", "copy", "write" or "extend"
    input,      \* the file
    reader,     \* what was loaded from it; write: the object as it was made
    mi,         \* the header in front of the hash table
    hash_offset,
    i,          \* the loop over the reader's segments
    tmp,        \* segment files in the temporary directory, by number
    image,      \* what signlk.sh put together
    again       \* what the saved file loads as

signVars == <<job, input, reader, mi, hash_offset, i, tmp, image, again>>
vars == <<obj, pc, file, layoutVars, signVars>>

NoFile == [hdr |-> [Header(32, "LSB") EXCEPT !.magic = FALSE], phs |-> <<>>,
           shs |-> <<>>, content |-> {}]
NoImage == [table |-> <<>>, at |-> 0, sig |-> 0]
NoMi == [dest |-> 0, sig |-> 0]

Init ==
    /\ LayoutInit
    /\ obj = create(32, "LSB") /\ again = obj
    /\ \/ job = "sign" /\ input \in Inputs /\ tmp \in Leftovers /\ reader = obj
       \/ job = "copy" /\ input \in Originals /\ tmp = <<>> /\ reader = obj
       \/ job = "write" /\ input = NoFile /\ tmp = <<>> /\ reader \in Programs
    /\ file = input
    /\ pc = IF job = "write" THEN "made" ELSE "load"
    /\ mi = NoMi /\ hash_offset = 2 /\ i = 1 /\ image = NoImage

(* elfio::load refuses what is no ELF file; main returns 2.                *)
load_input ==
    /\ pc = "load"
    /\ IF ~IsElf(input) THEN Goto("failed") /\ UNCHANGED <<reader, obj>>
       ELSE /\ reader' = load(input)
            /\ IF job = "copy" THEN obj' = load(input) /\ Goto("save")
                               ELSE obj' = obj /\ Goto("create")
    /\ UNCHANGED <<file, layoutVars, job, input, mi, hash_offset, i, tmp,
                   image, again>>

-----------------------------------------------------------------------------
(* The hash segment of a file that has one is the first of its type; the   *)
(* search for the highest physical address stops there.  Both addresses    *)
(* are kept in 32 bits by the program: they are below 2^32 here, with the  *)
(* size of the segment and the page behind it.                             *)
IsHash(g) == g.flags \cap SEGMENT_TYPE_MASK = {25}

HashSegments == {k \in DOMAIN reader.segs : IsHash(reader.segs[k])}
FirstHash == CHOOSE k \in HashSegments : \A l \in HashSegments : k <= l

Highest == {k \in DOMAIN reader.segs :
              /\ reader.segs[k].paddr > 0
              /\ \A l \in DOMAIN reader.segs :
                   /\ reader.segs[l].paddr <= reader.segs[k].paddr
                   /\ l < k => reader.segs[l].paddr < reader.segs[k].paddr}

NextPage(a) == a + HASH_SE_ALIGN - (a % HASH_SE_ALIGN)

hash_segment_address ==
    IF HashSegments # {} THEN reader.segs[FirstHash].vaddr ELSE 0

(* Mutant: always behind the highest segment.                              *)
ImageDest_new ==
    IF Highest = {} THEN hash_segment_address
    ELSE LET k == CHOOSE k \in Highest : TRUE
         IN  NextPage(reader.segs[k].paddr + reader.segs[k].memsz)

(* Where the signed image's hash segment goes in memory.                   *)
ImageDest ==
    IF HashSegments # {} THEN hash_segment_address
    ELSE LET k == CHOOSE k \in Highest : TRUE
         IN  NextPage(reader.segs[k].paddr + reader.segs[k].memsz)

(* The two segments in front: one for the headers and one for the hashes.  *)
(* The address of the hash segment is assigned before it is computed.      *)
HashSegment ==
    [NewSegment EXCEPT !.vaddr = hash_segment_address,
                       !.paddr = hash_segment_address,
                       !.flags = HASH_SE_FLAG, !.align = HASH_SE_ALIGN,
                       !.memsz = MAX_CERT_CHAIN_SIZE]

MiSection ==
    set_data([NewSection EXCEPT !.name = ".mi", !.type = "PROC",
                                !.alloc = TRUE, !.align = HASH_SE_ALIGN],
             Piece("mi", MAX_CERT_CHAIN_SIZE), MAX_CERT_CHAIN_SIZE)

Writer ==
    LET empty == create(reader.hdr.class, reader.hdr.encoding)
        both == AddSegment(AddSegment(empty, NewSegment), HashSegment)
        full == AddSection(both, MiSection)
    IN  [full EXCEPT !.segs[2] = add_section_index(@, Len(full.secs),
                                                   HASH_SE_ALIGN)]

create_writer ==
    /\ pc = "create"
    /\ HashSegments # {} \/ Highest # {}
    /\ obj' = Writer
    /\ hash_offset' = IF HashSegments = {} THEN 2 ELSE 0
    /\ mi' = [dest |-> ImageDest + MiHeaderSize,
              sig |-> ImageDest + MiHeaderSize + HASH_CODE_SIZE]
    /\ i' = 1
    /\ Goto("copy")
    /\ UNCHANGED <<file, layoutVars, job, input, reader, tmp, image, again>>

(* No hash segment and no physical address: max_seg is a null pointer.     *)
crash_on_max_seg ==
    /\ pc = "create"
    /\ HashSegments = {} /\ Highest = {}
    /\ Goto("crashed")
    /\ UNCHANGED <<obj, file, layoutVars, signVars>>

-----------------------------------------------------------------------------
(* One segment of the input.  Every segment copied gets a section of its   *)
(* own with the bytes it has in the file, and those are exported.          *)
Skipped(g) == g.flags \cap HASH_SE_FLAG # {}

DataSection(g) ==
    set_data([NewSection EXCEPT !.type = "PROGBITS", !.alloc = TRUE,
                                !.align = 1],
             IF HasData(g) THEN g.data ELSE Piece("garbage", g.filesz),
             g.filesz)

Copied(g, k) ==
    add_section_index([g EXCEPT !.offset = 0, !.offsetSet = FALSE,
                                !.secs = <<>>, !.data = {}], k, 1)

(* The file it is exported to.  A segment without bytes has none.          *)
FileNumber(k) == k - 1 + hash_offset
SegmentFile(g) ==
    [size |-> IF HasData(g) THEN g.filesz ELSE 0, data |-> g.data]

copy_segment ==
    /\ pc = "copy" /\ i \in DOMAIN reader.segs
    /\ LET g == reader.segs[i]
       IN  IF Skipped(g) THEN UNCHANGED <<obj, tmp>>
           ELSE /\ obj' = LET o == AddSection(obj, DataSection(g))
                          IN  AddSegment(o, Copied(g, Len(o.secs)))
                /\ tmp' = IF HasData(g)
                          THEN [k \in DOMAIN tmp \cup {FileNumber(i)} |->
                                  IF k = FileNumber(i) THEN SegmentFile(g)
                                                       ELSE tmp[k]]
                          ELSE tmp
    /\ i' = i + 1
    /\ UNCHANGED <<pc, file, layoutVars, job, input, reader, mi, hash_offset,
                   image, again>>

(* The section that stands for the headers takes no room in the file.      *)
header_segment ==
    /\ pc = "copy" /\ i \notin DOMAIN reader.segs
    /\ LET o == AddSection(obj, set_data([NewSection EXCEPT
                                  !.type = "NOBITS", !.alloc = TRUE,
                                  !.align = 1], {}, TablesEnd))
       IN  obj' = [o EXCEPT !.segs[1] =
                     add_section_index([@ EXCEPT !.align = 4], Len(o.secs), 1),
                           !.hdr.entry = reader.hdr.entry]
    /\ Goto("save")
    /\ UNCHANGED <<file, layoutVars, signVars>>

-----------------------------------------------------------------------------
(* signlk.sh: the hashes of the headers, 32 bytes, and the hash of every   *)
(* segment file there is, in the order of the file names; a number is one  *)
(* character of a name.  The place of the table behind the header is taken *)
(* from the size of a section header.                                      *)
Ascending(s) == \A k, l \in DOMAIN s : k < l => s[k] < s[l]
Sorted(S) == CHOOSE s \in [1..Cardinality(S) -> S] : Ascending(s)

(* Mutant: in the order they were written last.                            *)
SegmentFiles_latest == Reverse(Sorted(DOMAIN tmp))

SegmentFiles == Sorted(DOMAIN tmp)

DataSize == HashSize * (2 + Len(SegmentFiles))

TableAt == hash_seg_offset + ShdrSize(obj.hdr.class)

(* From there to the end of the hash segment's size the script puts hashes,*)
(* signature, certificates and filler over what the file held.             *)
assemble ==
    /\ pc = "saved" /\ job = "sign" /\ DOMAIN tmp # {}
    /\ image' = [table |-> [k \in DOMAIN SegmentFiles |-> tmp[SegmentFiles[k]]],
                 at |-> TableAt, sig |-> TableAt + DataSize]
    /\ LET n == MAX_CERT_CHAIN_SIZE - ShdrSize(obj.hdr.class)
       IN  file' = [file EXCEPT !.content =
                      Overwrite(@, TableAt, n, Piece("signatures", n))]
    /\ Goto("done")
    /\ UNCHANGED <<obj, layoutVars, job, input, reader, mi, hash_offset, i, tmp,
                   again>>

(* Without a segment file openssl is given the pattern itself and fails,   *)
(* and with it the script.                                                 *)
no_segment_files ==
    /\ pc = "saved" /\ job = "sign" /\ DOMAIN tmp = {}
    /\ Goto("failed")
    /\ UNCHANGED <<obj, file, layoutVars, signVars>>

load_again ==
    /\ pc = "saved" /\ job # "sign"
    /\ again' = load(file)
    /\ Goto("done")
    /\ UNCHANGED <<obj, file, layoutVars, job, input, reader, mi, hash_offset,
                   i, tmp, image>>

(* The job "write" starts with an object in memory.                        *)
save_program ==
    /\ pc = "made"
    /\ obj' = reader
    /\ Goto("save")
    /\ UNCHANGED <<file, layoutVars, signVars>>

(* The test elfio_copy: a section is added to what was loaded.             *)
elfio_copy ==
    /\ pc = "done" /\ job = "write"
    /\ job' = "extend"
    /\ obj' = AddSection(again, [NewSection EXCEPT !.name = "new"])
    /\ Goto("save")
    /\ UNCHANGED <<file, layoutVars, input, reader, mi, hash_offset, i, tmp,
                   image, again>>

(* The signed file can be given to signlk again, in the same temporary     *)
(* directory or in another one.  Bound: once.                              *)
sign_again ==
    /\ pc = "done" /\ job = "sign" /\ hash_offset = 2
    /\ input' = file
    /\ tmp' \in {tmp, <<>>}
    /\ Goto("load")
    /\ UNCHANGED <<obj, file, layoutVars, job, reader, mi, hash_offset, i,
                   image, again>>

Stopped == pc \in {"done", "failed", "crashed"} /\ UNCHANGED vars

Next ==
    \/ LayoutNext /\ UNCHANGED signVars
    \/ load_input
    \/ create_writer \/ crash_on_max_seg \/ copy_segment \/ header_segment
    \/ assemble \/ no_segment_files \/ sign_again
    \/ load_again \/ save_program \/ elfio_copy
    \/ Stopped

Spec == Init /\ [][Next]_vars

-----------------------------------------------------------------------------
(* Whatever an object was made of -- a file, a program, a file with new    *)
(* segments in front -- it reaches save() with what that takes for granted.*)
TypeOK ==
    /\ job \in {"sign", "copy", "write", "extend"} /\ hash_offset \in {0, 2}
    /\ pc \in {"load", "made", "create", "copy", "failed", "done", "crashed",
               "save", "front", "order", "segment", "place", "loose", "write",
               "saved"}
    /\ pc = "save" => Saveable(obj)

Signed == pc = "done" /\ job = "sign"
Output == load(file).segs

(* The segments of the input that are copied, by number.                   *)
CopiedAmong(n) ==
    LET Upto[k \in 0..n] ==
            IF k = 0 THEN <<>>
            ELSE IF Skipped(reader.segs[k]) THEN Upto[k - 1]
            ELSE Append(Upto[k - 1], k)
    IN  Upto[n]

CopiedSegments ==
    LET numbers == CopiedAmong(Len(reader.segs))
    IN  [k \in DOMAIN numbers |-> reader.segs[numbers[k]]]

AlignedHash == hash_segment_address % HASH_SE_ALIGN = 0

(* The signed file has every segment of the input but those of the old     *)
(* signature, in their order, with their bytes, and its header says that   *)
(* their file offsets are congruent to the addresses: the table the script *)
(* writes at its fixed offset meets none of them, as long as an old hash   *)
(* segment lay on a page.  The size in memory does not survive: save()     *)
(* computes it from the one section of the segment, so that exactly the    *)
(* segments that end in zeroes lose them.                                  *)
SegmentsKept ==
    Signed /\ AlignedHash =>
        /\ Len(Output) = 2 + Len(CopiedSegments)
        /\ \A k \in DOMAIN CopiedSegments :
             LET g == CopiedSegments[k]
                 h == Output[k + 2]
             IN  /\ [h EXCEPT !.align = g.align, !.offset = g.offset,
                               !.memsz = g.memsz, !.secs = g.secs] = g
                 /\ h.memsz = g.memsz <=> g.memsz = g.filesz
                 /\ (h.offset - h.vaddr) % file.phs[k + 2].align = 0

(* A loader checks the segments against the table in order.  The table has *)
(* one hash for each of them exactly if every segment copied has bytes in  *)
(* the file and the directory held no segment file this run did not write: *)
(* never for a file that signlk wrote, whose first segment it copies too.  *)
HashPerSegment ==
    Signed =>
        (image.table = [k \in DOMAIN CopiedSegments |->
                          SegmentFile(CopiedSegments[k])]
           <=> /\ \A k \in DOMAIN CopiedSegments : HasData(CopiedSegments[k])
               /\ Len(image.table) = Len(CopiedSegments))

(* The offset in the file of an address in the hash segment.               *)
OffsetOf(a) == Output[2].offset + a - Output[2].vaddr

(* The header's pointers lead to where the script puts the table and the   *)
(* signature in exactly these cases: there was a hash segment, as far      *)
(* behind the start of a page as a section header is longer than the       *)
(* header -- on a page in a 32-bit file -- and two segments are exported.  *)
PointersRight ==
    Signed =>
        (OffsetOf(mi.dest) = image.at /\ OffsetOf(mi.sig) = image.sig
           <=> /\ HashSegments # {}
               /\ hash_segment_address % HASH_SE_ALIGN
                    = ShdrSize(reader.hdr.class) - MiHeaderSize
               /\ Len(image.table) = 2)

(* The sections of a segment reach to its end, in the file and in memory.  *)
Filled(g) ==
    \/ /\ g.secs = <<>>
       /\ g.type = "PHDR" \/ (g.filesz = 0 /\ g.memsz = 0)
    \/ /\ \E k \in DOMAIN g.secs :
             LET s == reader.secs[g.secs[k]]
             IN  s.offset + (IF HasBytes(s) THEN s.size ELSE 0)
                    = g.offset + g.filesz
       /\ \E k \in DOMAIN g.secs :
             LET s == reader.secs[g.secs[k]]
             IN  s.addr + s.size = g.vaddr + g.memsz

(* What the tests of the library compare: a file that is loaded, saved and *)
(* loaded again has the same sections, and the same segments but for those *)
(* that end where no section of theirs does -- the test leaves a segment   *)
(* of that kind out.                                                       *)
SameSection(s, t) == [t EXCEPT !.offset = s.offset] = s
SameSegment(g, h) == [h EXCEPT !.offset = g.offset, !.secs = g.secs] = g

CopyIsFaithful ==
    pc = "done" /\ job = "copy" =>
        /\ Len(again.secs) = Len(reader.secs)
        /\ Len(again.segs) = Len(reader.segs)
        /\ \A k \in DOMAIN reader.secs :
             SameSection(reader.secs[k], again.secs[k])
        /\ \A k \in DOMAIN reader.segs :
             SameSegment(reader.segs[k], again.segs[k])
                <=> Filled(reader.segs[k])

(* A section lies where it was told to, or where its segment begins.       *)
HolderOf(k) == {g \in DOMAIN reader.segs : k \in Members(reader.segs[g])}
AddressOf(k) ==
    IF reader.secs[k].addrSet \/ HolderOf(k) = {} THEN reader.secs[k].addr
    ELSE reader.segs[CHOOSE g \in HolderOf(k) : TRUE].vaddr

(* Some other segment's section lies between a segment's start and its own *)
(* section.                                                                *)
Crossed(g) ==
    \E k \in Members(reader.segs[g]), l \in DOMAIN reader.secs :
        /\ HolderOf(l) \notin {{}, {g}}
        /\ reader.segs[g].vaddr <= AddressOf(l) /\ AddressOf(l) < AddressOf(k)

(* A program's object is loaded as it was made: every section with its     *)
(* name, data and address, every segment with its sections.  When it is    *)
(* saved once more, with a section added, a segment loses its own section  *)
(* exactly if another segment's section lies in front of that one, as in   *)
(* the object the test elfio_copy takes: the size of the segment ends      *)
(* behind the section laid out last.                                       *)
ProgramKept ==
    pc = "done" /\ job \in {"write", "extend"} =>
        /\ Len(again.secs) = Len(reader.secs) + (IF job = "extend" THEN 1 ELSE 0)
        /\ again.hdr.entry = reader.hdr.entry
        /\ \A k \in DOMAIN reader.secs :
             LET s == reader.secs[k]
                 t == again.secs[k]
             IN  /\ <<t.name, t.type, t.alloc, t.align, t.addr>>
                       = <<s.name, s.type, s.alloc, s.align, AddressOf(k)>>
                 /\ s.data \subseteq t.data
        /\ \A g \in DOMAIN reader.segs :
             Members(reader.segs[g]) \subseteq Members(again.segs[g])
                <=> job = "write" \/ ~Crossed(g)
=============================================================================
