------------------------------ MODULE MCSignLk ------------------------------
(***************************************************************************)
(* Input files for TLC, with the sizes of the real structures.             *)
(***************************************************************************)
EXTENDS SignLk, ElfWriters

MCEhdrSize(class) == SizeOf(Ehdr, class)
MCPhdrSize(class) == SizeOf(Phdr, class)
MCShdrSize(class) == SizeOf(Shdr, class)
MCNameSize(name) ==
    CASE name = ""                                       -> 1
      [] name \in {".mi", "msg", "new"}                  -> 4
      [] name \in {".text", ".data", ".note"}            -> 6
      [] name = "_start"                                 -> 7
      [] name \in {".strtab", ".symtab"}                 -> 8
      [] name \in {".rel.text", ".shstrtab"}             -> 10

Segment(type, flags, addr, offset, filesz, memsz, align) ==
    [NewSegment EXCEPT !.type = type, !.flags = flags, !.vaddr = addr,
                       !.paddr = addr, !.offset = offset, !.filesz = filesz,
                       !.memsz = memsz, !.align = align]

Section(type, alloc, addr, offset, size, align) ==
    [NewSection EXCEPT !.type = type, !.alloc = alloc, !.addr = addr,
                       !.offset = offset, !.size = size, !.align = align]

File(class, phs, shs, content) ==
    [hdr |-> [Header(class, "LSB") EXCEPT !.shstrndx = 1, !.shoff = 40000],
     phs |-> phs, shs |-> shs, content |-> content]

Loaded(addr, offset, filesz, memsz) ==
    Segment("LOAD", {0}, addr, offset, filesz, memsz, 16)

Code == {Extent(4096, 300, "code", 0), Extent(8192, 200, "data", 0)}

(* A bootloader as it is linked: code, data with zeroes behind it, and an  *)
(* empty segment for the stack.                                            *)
Linked ==
    File(32, <<Loaded(61440, 4096, 300, 300), Loaded(65536, 8192, 200, 500),
               Segment("GNU_STACK", {1}, 0, 0, 0, 0, 16)>>,
         <<NewSection>>, Code)

Small == File(32, <<Loaded(61440, 4096, 300, 300)>>, <<NewSection>>, Code)

(* An image that was signed before, its hash segment at address a.         *)
Signature(class, a) ==
    File(class, <<Segment("NULL", {24, 25, 26}, 0, 0, 180, 180, 4),
                  Segment("NULL", {21, 25}, a, 12288, 6568, 8192, 4096),
                  Loaded(61440, 4096, 300, 300), Loaded(65536, 8192, 200, 200)>>,
         <<NewSection>>, Code \cup {Extent(12288, 6568, "old", 0)})

NoAddress == File(32, <<Loaded(0, 4096, 300, 300)>>, <<NewSection>>, Code)
NoBytes ==
    File(32, <<Segment("LOAD", {0}, 61440, 4096, 0, 500, 16)>>, <<NewSection>>,
         Code)
NotElf == [Small EXCEPT !.hdr.magic = FALSE]

MCInputs == {Linked, Small, Signature(32, 81920), Signature(32, 83970),
             Signature(64, 81920), NoAddress, NoBytes, NotElf}

(* A program: the headers are part of the first segment.  The segments for *)
(* thread-local data and for what is read-only after relocation lie in the *)
(* second one.                                                             *)
Name(s, name, at) == [s EXCEPT !.name = name, !.nameAt = at]
Tls(s) == [s EXCEPT !.tls = TRUE]

Sections ==
    <<NewSection,
      Name(Section("PROGBITS", TRUE, 66000, 464, 100, 16), ".text", 1),
      Name(Tls(Section("PROGBITS", TRUE, 70400, 768, 32, 4)), ".tdata", 11),
      Name(Tls(Section("NOBITS", TRUE, 70432, 800, 16, 4)), ".tbss", 21),
      Name(Section("DYNAMIC", TRUE, 70432, 800, 64, 4), ".dynamic", 31),
      Name(Section("PROGBITS", TRUE, 70496, 864, 36, 4), ".data", 41),
      Name(Section("NOBITS", TRUE, 70532, 900, 100, 4), ".bss", 51),
      Name(Section("STRTAB", FALSE, 0, 900, 80, 1), ".shstrtab", 61)>>

Strings == {Extent(900 + s.nameAt, 10, s.name, 0) :
                s \in {Sections[k] : k \in 2..Len(Sections)}}

ProgramContent ==
    {Extent(464, 100, "text", 0), Extent(768, 32, "tdata", 0),
     Extent(800, 64, "dynamic", 0), Extent(864, 36, "data", 0)}
        \cup Strings

LoadText == Segment("LOAD", {0}, 65536, 0, 564, 564, 4)
LoadData == Segment("LOAD", {1}, 70400, 768, 132, 232, 4)
PhdrSeg == Segment("PHDR", {0}, 65588, 52, 192, 192, 4)
TlsSeg == Segment("TLS", {0}, 70400, 768, 32, 48, 4)
DynamicSeg == Segment("DYNAMIC", {0}, 70432, 800, 64, 64, 4)
RelroSeg == Segment("GNU_RELRO", {0}, 70400, 768, 112, 112, 1)
StackSeg(align) == Segment("GNU_STACK", {1}, 0, 0, 0, 0, align)

Linked32(phs) ==
    [File(32, phs, Sections, ProgramContent) EXCEPT !.hdr.shstrndx = 8]

Whole == Linked32(<<PhdrSeg, LoadText, LoadData, TlsSeg, DynamicSeg,
                   StackSeg(16)>>)
Relro == Linked32(<<RelroSeg, LoadText, LoadData>>)

MCOriginals == {Whole, Relro, Small,
                Linked32(<<TlsSeg, LoadData, DynamicSeg>>),
                Linked32(<<DynamicSeg, LoadData>>),
                Linked32(<<StackSeg(0), LoadData>>),
                Linked32(<<LoadData, StackSeg(16)>>)}

MCPrograms ==
    {write_exe_i386(class, addr) :
        class \in Classes, addr \in {{}, {CodeAt + 256}}}
    \cup {write_obj_i386(class) : class \in Classes}
    \cup {dummy_out(class, encoding) :
            class \in Classes, encoding \in {"LSB", "MSB"}}
    \cup {writer_cpp, write_obj_cpp}

Old == [size |-> 10, data |-> {Extent(0, 10, "stale", 0)}]
MCLeftovers == {<<>>, [k \in {2} |-> Old], [k \in {3, 5} |-> Old]}
=============================================================================
