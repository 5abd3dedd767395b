----------------------------- MODULE ElfWriters -----------------------------
(***************************************************************************)
(* Programs that make ELF files with the library: its examples and the     *)
(* writers of its tests.  Each operator is the object as it is saved.      *)
(***************************************************************************)
EXTENDS ElfObject, ElfTypes

Add(o, name, type, alloc, align) ==
    AddSection(o, [NewSection EXCEPT !.name = name, !.type = type,
                                     !.alloc = alloc, !.align = align])

(* Data for the section added last.                                        *)
With(o, id, n) ==
    [o EXCEPT !.secs[Len(o.secs)] = append_data(@, Piece(id, n), n)]

(* A name of n characters and a description of m bytes.                    *)
NoteBytes(n, m) == 12 + 4 * ((n + 4) \div 4) + 4 * ((m + 3) \div 4)

Created(o) == With(o, "Created by ELFIO", NoteBytes(16, 0))
NeverEasier(o) == With(o, "Never easier!", NoteBytes(13, 6))

(* Strings and symbols: "msg" and "_start" behind the empty one.           *)
Labels(o, align) ==
    LET str == add_string([NewSection EXCEPT !.name = ".strtab",
                             !.type = "STRTAB", !.align = align], "msg")
        names == AddSection(o, add_string(str, "_start"))
        null == Add(names, ".symtab", "SYMTAB", FALSE, 4)
    IN  With(null, "null, msg, _start", 3 * SizeOf(Sym, o.hdr.class))

Relocated(o) ==
    With(Add(o, ".rel.text", "REL", FALSE, 4), "msg",
         get_default_entry_size("REL", o.hdr.class))

Text(o, addr) ==
    LET t == Add(o, ".text", "PROGBITS", TRUE, 16)
        at == IF addr = {} THEN t
              ELSE [t EXCEPT !.secs[Len(t.secs)] =
                      [@ EXCEPT !.addr = CHOOSE a \in addr : TRUE,
                                !.addrSet = TRUE]]
    IN  With(at, "text", 29)

Data(o) == With(Add(o, ".data", "PROGBITS", TRUE, 4), "Hello, World!", 14)

(* A segment for the section added last.                                   *)
Load(o, flags, addr, align) ==
    AddSegment(o, add_section_index(
        [NewSegment EXCEPT !.type = "LOAD", !.flags = flags, !.vaddr = addr,
                           !.paddr = addr, !.align = align],
        Len(o.secs), o.secs[Len(o.secs)].align))

CodeAt == 134512640                         \* 0x08048000
DataAt == CodeAt + 32

(* A program of two segments; addr is empty or has the address of .text.   *)
Program(class, addr) ==
    Add(Load(Data(Load(Text(create(class, "LSB"), addr), {0, 2}, CodeAt, 4096)),
             {1, 2}, DataAt, 16),
        ".note", "NOTE", FALSE, 1)

Started(o) == [o EXCEPT !.hdr.entry = CodeAt]

write_exe_i386(class, addr) ==
    Started(NeverEasier(Created(Program(class, addr))))
writer_cpp == write_exe_i386(32, {})

write_obj_i386(class) ==
    Created(Add(Relocated(Labels(Data(Text(create(class, "LSB"), {})), 1)),
                ".note", "NOTE", FALSE, 1))

(* Code and message are in one section here.                               *)
write_obj_cpp ==
    LET code == With(Text(create(32, "LSB"), {}), "msg", 14)
        note == Add(Relocated(Labels(code, 0)), ".note", "NOTE", FALSE, 0)
    IN  NeverEasier(Created(note))

(* The four tests test_dummy_out.                                          *)
dummy_out(class, encoding) ==
    LET note == Add(create(class, encoding), ".note", "NOTE", TRUE, 4)
    IN  With([note EXCEPT !.hdr.entry = 134513328], "Hello", NoteBytes(5, 6))
=============================================================================
