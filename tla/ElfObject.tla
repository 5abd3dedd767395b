----------------------------- MODULE ElfObject -----------------------------
(***************************************************************************)
(* An ELF file in memory, as class elfio holds it, and the operations on   *)
(* it that are not part of save(): create, load, adding sections, segments *)
(* and names, setting and appending a section's data.                      *)
(*                                                                         *)
(* Bytes are not modelled one by one.  A content is a set of extents, each *)
(* saying which piece of which thing lies where; what no extent covers is  *)
(* zero or was never written.  Sections and segments are numbered from 1,  *)
(* so that index 0 of the code, the null section, is 1 here.               *)
(***************************************************************************)
EXTENDS Integers, Sequences, FiniteSets, SequencesExt

CONSTANTS
    EhdrSize(_), PhdrSize(_), ShdrSize(_),  \* sizes of the structures
    NameSize(_)     \* bytes of a name with its terminating NUL

ASSUME SizesAssumption ==
    \A class \in {32, 64} : /\ EhdrSize(class) \in Nat
                             /\ PhdrSize(class) \in Nat
                             /\ ShdrSize(class) \in Nat

NoName == ""
ShstrtabName == ".shstrtab"

ASSUME NamesAssumption ==
    NameSize(NoName) \in Nat /\ NameSize(ShstrtabName) \in Nat

-----------------------------------------------------------------------------
(* Contents.                                                               *)
Extent(at, len, id, skip) == [at |-> at, len |-> len, id |-> id, skip |-> skip]
Piece(id, len) == IF len = 0 THEN {} ELSE {Extent(0, len, id, 0)}

IsContent(c) ==
    \A e \in c : /\ e = Extent(e.at, e.len, e.id, e.skip)
                 /\ e.at \in Nat /\ e.len \in Nat \ {0} /\ e.skip \in Nat

(* The part of content c from position a up to but not including b.        *)
Part(c, a, b) ==
    {LET lo == IF e.at < a THEN a ELSE e.at
         hi == IF e.at + e.len > b THEN b ELSE e.at + e.len
     IN  Extent(lo, hi - lo, e.id, e.skip + lo - e.at) :
        e \in {x \in c : x.at < b /\ x.at + x.len > a}}

Moved(c, by) == {[e EXCEPT !.at = @ + by] : e \in c}

(* What a stream returns for n bytes at position a ...                     *)
Read(c, a, n) == Moved(Part(c, a, a + n), -a)

(* ... and what it holds after n bytes d have been written there.          *)
Overwrite(c, a, n, d) ==
    Part(c, 0, a) \cup (UNION {Part({e}, a + n, e.at + e.len) : e \in c})
                  \cup Moved(d, a)

-----------------------------------------------------------------------------
(* Sections and segments.                                                  *)
NewSection ==
    [name |-> NoName, nameAt |-> 0, type |-> "NULL", alloc |-> FALSE,
     tls |-> FALSE, size |-> 0, align |-> 0, addr |-> 0, addrSet |-> FALSE,
     offset |-> 0, data |-> {}]

NewSegment ==
    [type |-> "NULL", flags |-> {}, vaddr |-> 0, paddr |-> 0, filesz |-> 0,
     memsz |-> 0, align |-> 0, offset |-> 0, offsetSet |-> FALSE,
     secs |-> <<>>, data |-> {}]

HasBytes(s) == s.type \notin {"NULL", "NOBITS"}

(* section_impl::set_data.  Without a source the new buffer is never       *)
(* filled; a NOBITS section keeps the size alone.                          *)
set_data(s, d, n) ==
    [s EXCEPT !.size = n, !.data = IF s.type = "NOBITS" THEN @ ELSE d]

(* section_impl::append_data, whatever the capacity of the buffer is.      *)
append_data(s, d, n) ==
    IF s.type = "NOBITS" THEN s
    ELSE [s EXCEPT !.size = @ + n, !.data = @ \cup Moved(d, s.size)]

(* string_section_accessor::add_string: the first string follows a NUL.    *)
add_string(s, name) ==
    append_data(IF s.size = 0 THEN append_data(s, {}, 1) ELSE s,
                Piece(name, NameSize(name)), NameSize(name))

StringPosition(s) == IF s.size = 0 THEN 1 ELSE s.size

(* string_section_accessor::get_string, for a position a string starts at. *)
get_string(s, at) ==
    {e.id : e \in {x \in s.data : x.at = at /\ x.skip = 0 /\ at < s.size}}

(* Mutant: the section's number, counted from the next one.                *)
add_section_index_next(g, i, align) ==
    [g EXCEPT !.secs = Append(@, i + 1), !.align = IF align > @ THEN align ELSE @]

(* segment_impl::add_section_index                                         *)
add_section_index(g, i, align) ==
    [g EXCEPT !.secs = Append(@, i), !.align = IF align > @ THEN align ELSE @]

(* elfio::Sections::add: the name goes to the section of names.            *)
AddSection(obj, s) ==
    LET k == obj.hdr.shstrndx
        secs == Append(obj.secs,
                       [s EXCEPT !.nameAt = StringPosition(obj.secs[k])])
    IN  [obj EXCEPT !.secs = [secs EXCEPT ![k] = add_string(secs[k], s.name)]]

AddSegment(obj, g) == [obj EXCEPT !.segs = Append(@, g)]

(* A new header.  Its own size and those of the tables' entries follow     *)
(* from the class; version, type, machine and flags are left out.          *)
Header(class, encoding) ==
    [magic |-> TRUE, class |-> class, encoding |-> encoding, shstrndx |-> 2,
     entry |-> 0, shoff |-> 0]

(* elfio::create and create_mandatory_sections.  The section of names      *)
(* holds its own name, which is added before it has a type.                *)
create(class, encoding) ==
    LET empty == [hdr |-> Header(class, encoding),
                  secs |-> <<NewSection, [NewSection EXCEPT
                                            !.name = ShstrtabName,
                                            !.nameAt = 1]>>,
                  segs |-> <<>>]
    IN  [empty EXCEPT !.secs[2] = [add_string(@, ShstrtabName)
                                     EXCEPT !.type = "STRTAB", !.align = 1]]

-----------------------------------------------------------------------------
(* load().  A file is its header, the two tables the header points to, and *)
(* its content; section_impl::load and segment_impl::load read the data.   *)
LoadSection(f, sh) ==
    [sh EXCEPT !.addrSet = TRUE, !.name = NoName,
               !.data = IF HasBytes(sh) THEN Read(f.content, sh.offset, sh.size)
                                        ELSE {}]

HasData(g) == g.type # "NULL" /\ g.filesz # 0

(* The sections of a segment: those it occupies memory with by address,    *)
(* the others by file offset.                                              *)
Inside(s, g) ==
    IF s.alloc
    THEN g.vaddr <= s.addr /\ s.addr + s.size <= g.vaddr + g.memsz
    ELSE g.offset <= s.offset /\ s.offset + s.size <= g.offset + g.filesz

LoadSegment(f, secs, ph) ==
    LET empty == [ph EXCEPT !.offsetSet = TRUE, !.secs = <<>>,
                            !.data = IF HasData(ph)
                                     THEN Read(f.content, ph.offset, ph.filesz)
                                     ELSE {}]
        Upto[i \in 0..Len(secs)] ==
            IF i = 0 THEN empty
            ELSE IF Inside(secs[i], ph)
            THEN add_section_index(Upto[i - 1], i, secs[i].align)
            ELSE Upto[i - 1]
    IN  Upto[Len(secs)]

(* A section keeps an empty name when its position has no string.          *)
Named(secs, k) ==
    [i \in DOMAIN secs |->
        LET names == get_string(secs[k], secs[i].nameAt)
        IN  IF names = {} THEN secs[i]
            ELSE [secs[i] EXCEPT !.name = CHOOSE n \in names : TRUE]]

IsElf(f) == f.hdr.magic /\ f.hdr.class \in {32, 64}

load(f) ==
    LET read == [i \in DOMAIN f.shs |-> LoadSection(f, f.shs[i])]
        secs == IF f.hdr.shstrndx \in DOMAIN read \ {1}
                THEN Named(read, f.hdr.shstrndx) ELSE read
    IN  [hdr |-> f.hdr,
         secs |-> secs,
         segs |-> [i \in DOMAIN f.phs |-> LoadSegment(f, secs, f.phs[i])]]

-----------------------------------------------------------------------------
(* is_section_without_segment and is_subsequence_of.  The section lists of *)
(* segments are sorted, and a list is no subsequence of one as long.       *)
is_section_without_segment(obj, i) ==
    \A g \in DOMAIN obj.segs : \A k \in DOMAIN obj.segs[g].secs :
        obj.segs[g].secs[k] # i

Members(g) == {g.secs[k] : k \in DOMAIN g.secs}

is_subsequence_of(g, h) ==
    Len(g.secs) < Len(h.secs) /\ Members(g) \subseteq Members(h)
=============================================================================
