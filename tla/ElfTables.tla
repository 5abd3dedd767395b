----------------------------- MODULE ElfTables -----------------------------
(***************************************************************************)
(* The tables inside an ELF file: strings, symbols, relocations, dynamic   *)
(* entries and notes, written and read back through the library's          *)
(* accessors in a file of either class and either byte order, and the dump *)
(* that elfdump prints of them.                                            *)
(*                                                                         *)
(* A section's bytes are the sequence of the items that were appended; the *)
(* fields of an item are numbers as they are stored in the file.  Saving   *)
(* and loading keeps the bytes, as long as each had room (ElfBuffer).      *)
(***************************************************************************)
EXTENDS ElfTypes, FiniteSets

CONSTANTS
    Names,          \* names of the symbols of linked files
    Files,          \* linked files to begin with
    Strings,        \* names to add
    StringSize(_),  \* characters of a name
    Hash(_),        \* elf_hash of a name
    Numbers,        \* values, sizes and offsets to add
    Addends,        \* addends of relocations
    Tags,           \* tags of dynamic entries
    RelTypes,       \* types of relocations
    MaxAdded,       \* bound: items added
    MaxString       \* bound: characters of a name

(* A linked file has symbols, and sections that are linked to them.        *)
File ==
    [class : Classes, need_conversion : BOOLEAN,
     symbols : Seq(Names) \ {<<>>}, nbucket : Nat \ {0},
     links : Seq(STRING), segs : Seq([null : BOOLEAN, filesz : Nat])]

ASSUME FilesAssumption == Files \subseteq File

(* Only the null symbol has no name.                                       *)
NoName == ""

ASSUME StringsAssumption ==
    /\ NoName \notin Strings
    /\ \A str \in Names \cup Strings :
         StringSize(str) \in 0..MaxString /\ Hash(str) \in Nat

(* The accessors take 64-bit numbers, tags that an Elf_Sword holds without *)
(* a sign, and a type that is an unsigned char.                            *)
ASSUME NumbersAssumption ==
    /\ Numbers \subseteq Values(8) /\ Addends \subseteq Int
    /\ Tags \subseteq {tag \in Values(4) : 2 * tag < Limit(4)}
    /\ RelTypes \subseteq Values(1)

(* A string table is shorter than an Elf_Word can tell, and the index of a *)
(* symbol fits into r_info beside the type of a relocation.                *)
ASSUME BoundsAssumption ==
    /\ MaxAdded \in Nat /\ MaxString \in Nat
    /\ \A f \in Files :
         LET most == Len(f.symbols) + MaxAdded + 1
         IN  /\ most * (MaxString + 1) < Limit(4)
             /\ most * TypeBase(f.class) <= Limit(f.class \div 8)

SHN == 7                                    \* the section symbols are in
R_386_32 == 1
R_386_PC32 == 2
R_386_GLOB_DAT == 6
R_386_JMP_SLOT == 7
R_386_RELATIVE == 8

DT_NULL == 0
ValuelessTags == {0, 16, 22, 24}            \* NULL SYMBOLIC TEXTREL BIND_NOW
StringTags == {1, 14, 15, 29}               \* NEEDED SONAME RPATH RUNPATH

VARIABLES
    class,              \* 32 or 64
    need_conversion,    \* the file's byte order is not the host's
    links,              \* sections whose sh_link is the symbol table
    hash,               \* the words of the hash section
    segs,               \* the segments
    sec,                \* the sections by name
    note_start_positions,
    added,              \* history: what was asked to be stored
    pc,
    i,                  \* the dump's loop over a section, an Elf_Half
    shown               \* what the dump printed

vars == <<class, need_conversion, links, hash, segs, sec,
          note_start_positions, added, pc, i, shown>>

Stored(v, type) ==
    LET w == Width(type, class)
    IN  Convert(need_conversion, Narrow(v, w), w)
Fetched(v, type) == Convert(need_conversion, v, Width(type, class))

(* A signed number of that width.                                          *)
Signed(v, w) == IF 2 * v < Limit(w) THEN v ELSE v - Limit(w)

-----------------------------------------------------------------------------
(* section_impl::append_data, of which ElfBuffer has the buffer.           *)
append_data(s, item, n) == [s EXCEPT !.size = @ + n, !.items = Append(@, item)]

Empty(entry_size) == [entry_size |-> entry_size, size |-> 0, items |-> <<>>]

(* string_section_accessor: the first string follows an empty one.         *)
StringPosition_size(s) == s.size            \* mutant: also for the first
StringPosition(s) == IF s.size = 0 THEN 1 ELSE s.size

add_string(s, str) ==
    LET t == IF s.size = 0 THEN append_data(s, [at |-> 0, str |-> NoName], 1)
             ELSE s
    IN  append_data(t, [at |-> t.size, str |-> str], StringSize(str) + 1)

NoString == "no string"

get_string(s, at) ==
    LET there == {e \in {s.items[k] : k \in DOMAIN s.items} : e.at = at}
    IN  IF at < s.size /\ there # {} THEN (CHOOSE e \in there : TRUE).str
        ELSE NoString

get_entries_num(s) ==
    IF s.entry_size = 0 THEN 0 ELSE s.size \div s.entry_size

-----------------------------------------------------------------------------
(* Symbols.                                                                *)
SymbolEntry(name, value, size, info, other, shndx) ==
    [st_name |-> Stored(name, "Word"), st_value |-> Stored(value, "Addr"),
     st_size |-> Stored(size, "Native"), st_info |-> Narrow(info, 1),
     st_other |-> Narrow(other, 1), st_shndx |-> Stored(shndx, "Half")]

generic_add_symbol(s, entry) == append_data(s, entry, SizeOf(Sym, class))

(* The first symbol follows a null symbol.                                 *)
add_symbol(s, entry) ==
    generic_add_symbol(
        IF s.size = 0
        THEN generic_add_symbol(s, SymbolEntry(0, 0, 0, 0, 0, 0)) ELSE s,
        entry)

(* A symbol and its name.                                                  *)
WithSymbol(s, str, value, size, info) ==
    [s EXCEPT !.strtab = add_string(@, str),
              !.symtab = add_symbol(@, SymbolEntry(StringPosition(s.strtab),
                                           value, size, info, 0, SHN))]

LastSymbol(s) == s.size \div SizeOf(Sym, class) - 1

generic_get_symbol(e) ==
    [name |-> get_string(sec.strtab, Fetched(e.st_name, "Word")),
     value |-> Fetched(e.st_value, "Addr"),
     size |-> Fetched(e.st_size, "Native"),
     bind |-> ELF_ST_BIND(e.st_info), type |-> ELF_ST_TYPE(e.st_info),
     section_index |-> Fetched(e.st_shndx, "Half"), other |-> e.st_other]

get_symbol(index) == generic_get_symbol(sec.symtab.items[index + 1])

(* get_symbol by name.  The hash section is the first one linked to the    *)
(* symbol table, whatever it is, and its words are not converted.  Wild:   *)
(* the look-up reads bytes that are no word of a hash table.               *)
Wild == -1
NotFound == -2

(* Mutant: the last section that is linked.                                *)
find_hash_section_last ==
    IF links = <<>> THEN "none" ELSE links[Len(links)]

find_hash_section == IF links = <<>> THEN "none" ELSE Head(links)

HashWord(k) ==
    IF find_hash_section = "hash" /\ k \in DOMAIN hash THEN hash[k] ELSE Wild

get_symbol_by_name(name) ==
    LET nbucket == HashWord(1)
        nchain == HashWord(2)
        NameOf(y) == get_symbol(y).name
        Follow[y \in 0..(get_entries_num(sec.symtab) - 1)] ==
            IF NameOf(y) = name THEN y
            ELSE IF y = 0 \/ y >= nchain THEN NotFound
            ELSE LET next == HashWord(3 + nbucket + y)
                 IN  IF next \in 0..(get_entries_num(sec.symtab) - 1)
                     THEN Follow[next] ELSE Wild
        first == HashWord(3 + (Hash(name) % nbucket))
    IN  IF find_hash_section = "none" THEN NotFound
        ELSE IF nbucket \in {0, Wild} THEN Wild
        ELSE IF first \in 0..(get_entries_num(sec.symtab) - 1)
        THEN Follow[first] ELSE Wild

-----------------------------------------------------------------------------
(* Relocations, without and with an addend.                                *)
RelEntry(offset, info) ==
    [r_offset |-> Stored(offset, "Addr"), r_info |-> Stored(info, "Native")]

RelaEntry(offset, info, addend) ==
    [r_offset |-> Stored(offset, "Addr"), r_info |-> Stored(info, "Native"),
     r_addend |-> Stored(addend, "Native")]

add_rel(s, offset, symbol, type) ==
    append_data(s, RelEntry(offset, ELF_R_INFO(symbol, type, class)),
                SizeOf(Rel, class))

add_rela(s, offset, symbol, type, addend) ==
    append_data(s, RelaEntry(offset, ELF_R_INFO(symbol, type, class), addend),
                SizeOf(Rela, class))

generic_get_entry(e) ==
    LET info == Fetched(e.r_info, "Native")
    IN  [offset |-> Fetched(e.r_offset, "Addr"),
         symbol |-> ELF_R_SYM(info, class), type |-> ELF_R_TYPE(info, class),
         addend |-> IF "r_addend" \in DOMAIN e
                    THEN Signed(Fetched(e.r_addend, "Native"),
                                Width("Native", class))
                    ELSE 0]

get_relocation(s, index) == generic_get_entry(s.items[index + 1])

(* get_entry with the symbol: calcValue, a signed 64-bit number.           *)
Calculated(type, S, A, P) ==
    CASE type = R_386_32                           -> S + A
      [] type = R_386_PC32                         -> S + A - P
      [] type \in {R_386_GLOB_DAT, R_386_JMP_SLOT} -> S
      [] type = R_386_RELATIVE                     -> A
      [] OTHER                                     -> 0

get_calculated(s, index) ==
    LET r == get_relocation(s, index)
        symbol == get_symbol(r.symbol)
        v == Calculated(r.type, symbol.value, r.addend, r.offset)
    IN  [name |-> symbol.name, value |-> Signed(Narrow(v, 8), 8)]

-----------------------------------------------------------------------------
(* Dynamic entries.  Both numbers are converted at eight bytes and then    *)
(* cut to the width of the field.                                          *)
Cut_not(v) == Narrow(v, Width("Native", class))     \* mutant: no conversion

Cut(v) == Narrow(Convert(need_conversion, Narrow(v, 8), 8),
                 Width("Native", class))

add_dynamic(s, tag, value) ==
    append_data(s, [d_tag |-> Cut(tag),
                    d_un |-> Cut(IF tag \in ValuelessTags THEN 0 ELSE value)],
                SizeOf(Dyn, class))

generic_get_entry_dyn(e) ==
    LET tag == Fetched(e.d_tag, "Native")
    IN  [tag |-> tag, value |-> IF tag \in ValuelessTags THEN 0
                                ELSE Fetched(e.d_un, "Native")]

get_dynamic(s, strings, index) ==
    LET e == generic_get_entry_dyn(s.items[index + 1])
    IN  [tag |-> e.tag, value |-> e.value,
         str |-> IF e.tag \in StringTags THEN get_string(strings, e.value)
                 ELSE NoName]

-----------------------------------------------------------------------------
(* Notes.  A description of size n may be given without its bytes.         *)
Padded(n) == ((n + 3) \div 4) * 4

Note(type, name, n, bytes) ==
    [namesz |-> Stored(StringSize(name) + 1, "Word"),
     descsz |-> Stored(n, "Word"), type |-> Stored(type, "Word"),
     name |-> name, bytes |-> bytes]

(* Mutant: the description is not padded.                                  *)
NoteSize_tight(name, n, bytes) ==
    12 + Padded(StringSize(name) + 1) + (IF bytes THEN n ELSE 0)

NoteSize(name, n, bytes) ==
    12 + Padded(StringSize(name) + 1) + (IF bytes THEN Padded(n) ELSE 0)

add_note(s, type, name, n, bytes) ==
    append_data(s, [at |-> s.size, note |-> Note(type, name, n, bytes)],
                NoteSize(name, n, bytes))

(* note_section_accessor::process_section goes by the sizes in the notes.  *)
process_section(s) ==
    LET At(p) == {e \in {s.items[k] : k \in DOMAIN s.items} : e.at = p}
        Next(e) == e.at + 12 + Padded(Fetched(e.note.namesz, "Word"))
                             + Padded(Fetched(e.note.descsz, "Word"))
        Walk[p \in 0..s.size] ==
            IF p + 12 > s.size THEN <<>>
            ELSE IF At(p) = {} THEN <<Wild>>
            ELSE LET q == Next(CHOOSE e \in At(p) : TRUE)
                 IN  <<p>> \o IF q + 12 > s.size THEN <<>> ELSE Walk[q]
    IN  Walk[0]

(* get_note refuses a note whose sizes do not fit into the section.        *)
NoNote == [type |-> Wild, name |-> NoString, descSize |-> 0]

get_note(s, at) ==
    LET e == (CHOOSE e \in {s.items[k] : k \in DOMAIN s.items} : e.at = at).note
        n == Fetched(e.descsz, "Word")
    IN  IF Fetched(e.namesz, "Word") + n > s.size - at THEN NoNote
        ELSE [type |-> Fetched(e.type, "Word"), name |-> e.name,
              descSize |-> n]

-----------------------------------------------------------------------------
(* A linked file: its symbols, and the hash table the linker made of them. *)
(* A bucket and a chain go through the symbols of one bucket in order.     *)
LinkedSymbols(names) ==
    LET Upto[n \in 0..Len(names)] ==
            IF n = 0
            THEN [strtab |-> Empty(0), symtab |-> Empty(SizeOf(Sym, class))]
            ELSE WithSymbol(Upto[n - 1], names[n], 0, 0, 0)
    IN  Upto[Len(names)]

HashWords(names, nbucket) ==
    LET After(k, b) == {y \in DOMAIN names : y > k /\ Hash(names[y]) % nbucket = b}
        First(S) == IF S = {} THEN 0 ELSE CHOOSE y \in S : \A z \in S : y <= z
        buckets == [b \in 1..nbucket |-> First(After(0, b - 1))]
        chains == [y \in 1..Len(names) |->
                     First(After(y, Hash(names[y]) % nbucket))]
    IN  <<nbucket, Len(names) + 1>> \o buckets \o <<0>> \o chains

LinkerHash(names, nbucket) ==
    LET words == HashWords(names, nbucket)
    IN  [k \in DOMAIN words |-> Convert(need_conversion, words[k], 4)]

NothingShown ==
    [headers |-> <<>>, segments |-> <<>>, segdata |-> <<>>, symbols |-> {}, notes |-> <<>>, dynamic |-> <<>>,
     data |-> <<>>]

Asked(name, value, size, info) ==
    [name |-> name, value |-> value, size |-> size, info |-> info]

Init ==
    \E f \in Files :
        /\ class = f.class /\ need_conversion = f.need_conversion
        /\ links = f.links /\ segs = f.segs
        /\ hash = LinkerHash(f.symbols, f.nbucket)
        /\ LET s == LinkedSymbols(f.symbols)
           IN  sec = [strtab |-> s.strtab,
                      symtab |-> s.symtab,
                      rel |-> Empty(SizeOf(Rel, f.class)),
                      rela |-> Empty(SizeOf(Rela, f.class)),
                      dynamic |-> Empty(SizeOf(Dyn, f.class)),
                      dynamic1 |-> Empty(SizeOf(Dyn, f.class)),
                      dynstr |-> Empty(0),
                      note |-> Empty(0)]
        /\ note_start_positions = <<>>
        /\ added = [linked |-> Len(f.symbols),
                    symbols |-> [k \in DOMAIN f.symbols |->
                                   Asked(f.symbols[k], 0, 0, 0)],
                    rel |-> <<>>, rela |-> <<>>, dynamic |-> <<>>,
                    note |-> <<>>]
        /\ pc = "build" /\ i = 0 /\ shown = NothingShown

Building ==
    /\ pc = "build"
    /\ Len(added.symbols) - added.linked + Len(added.rel) + Len(added.rela)
         + Len(added.dynamic) + Len(added.note) < MaxAdded
    /\ UNCHANGED <<class, need_conversion, links, hash, segs, pc, i, shown>>

-----------------------------------------------------------------------------
(* The accessors' writing operations.                                      *)
AddSymbol(str, value, size, bind, type) ==
    /\ Building
    /\ LET info == ELF_ST_INFO(bind, type)
       IN  /\ sec' = WithSymbol(sec, str, value, size, info)
           /\ added' = [added EXCEPT !.symbols =
                          Append(@, Asked(str, value, size, info))]
    /\ UNCHANGED note_start_positions

AddRel(symbol, offset, type) ==
    /\ Building
    /\ sec' = [sec EXCEPT !.rel = add_rel(@, offset, symbol, type)]
    /\ added' = [added EXCEPT !.rel =
                   Append(@, [symbol |-> symbol, offset |-> offset,
                              type |-> type, addend |-> 0])]
    /\ UNCHANGED note_start_positions

AddRela(symbol, offset, type, addend) ==
    /\ Building
    /\ sec' = [sec EXCEPT !.rela = add_rela(@, offset, symbol, type, addend)]
    /\ added' = [added EXCEPT !.rela =
                   Append(@, [symbol |-> symbol, offset |-> offset,
                              type |-> type, addend |-> addend])]
    /\ UNCHANGED note_start_positions

(* add_entry with a string: the symbol and the relocation at one step.     *)
AddRelWithSymbol(str, value, offset, type) ==
    /\ Building
    /\ LET s == WithSymbol(sec, str, value, 0, 0)
           symbol == LastSymbol(s.symtab)
       IN  /\ sec' = [s EXCEPT !.rel = add_rel(@, offset, symbol, type)]
           /\ added' = [added EXCEPT
                          !.symbols = Append(@, Asked(str, value, 0, 0)),
                          !.rel = Append(@, [symbol |-> Len(added.symbols) + 1,
                                             offset |-> offset, type |-> type,
                                             addend |-> 0])]
    /\ UNCHANGED note_start_positions

AddDynamic(tag, value) ==
    /\ Building
    /\ sec' = [sec EXCEPT !.dynamic = add_dynamic(@, tag, value)]
    /\ added' = [added EXCEPT !.dynamic =
                   Append(@, [tag |-> tag, value |-> value, str |-> NoName])]
    /\ UNCHANGED note_start_positions

AddDynamicString(tag, str) ==
    /\ Building
    /\ LET at == StringPosition(sec.strtab)
       IN  /\ sec' = [sec EXCEPT !.strtab = add_string(@, str),
                                 !.dynamic = add_dynamic(@, tag, at)]
           /\ added' = [added EXCEPT !.dynamic =
                          Append(@, [tag |-> tag, value |-> at, str |-> str])]
    /\ UNCHANGED note_start_positions

(* What the test test_dynamic_64_3 does: every entry is read and added to  *)
(* a section with strings of its own.                                      *)
WithCopy(s, e) ==
    IF e.tag \in StringTags
    THEN [s EXCEPT !.dynstr = add_string(@, e.str),
                   !.dynamic1 = add_dynamic(@, e.tag, StringPosition(s.dynstr))]
    ELSE [s EXCEPT !.dynamic1 = add_dynamic(@, e.tag, e.value)]

WithCopies ==
    LET Upto[n \in 0..get_entries_num(sec.dynamic)] ==
            IF n = 0 THEN sec
            ELSE WithCopy(Upto[n - 1],
                          get_dynamic(sec.dynamic, sec.strtab, n - 1))
    IN  Upto[get_entries_num(sec.dynamic)]

copy_dynamic ==
    /\ pc = "build" /\ sec.dynamic.size > 0 /\ sec.dynamic1.size = 0
    /\ sec' = WithCopies
    /\ UNCHANGED <<class, need_conversion, links, hash, segs,
                   note_start_positions, added, pc, i, shown>>

AddNote(type, name, n, bytes) ==
    /\ Building
    /\ sec' = [sec EXCEPT !.note = add_note(@, type, name, n, bytes)]
    /\ note_start_positions' = Append(note_start_positions, sec.note.size)
    /\ added' = [added EXCEPT !.note =
                   Append(@, [type |-> type, name |-> name, descSize |-> n,
                              bytes |-> bytes])]

(* The file is saved and loaded into a new object.                         *)
save_and_load ==
    /\ pc = "build"
    /\ note_start_positions' = process_section(sec.note)
    /\ UNCHANGED <<class, need_conversion, links, hash, segs, sec, added, pc, i,
                   shown>>

-----------------------------------------------------------------------------
(* elfdump, on the file as it is loaded.                                   *)
Dumping(step) ==
    /\ pc = step
    /\ UNCHANGED <<class, need_conversion, links, hash, segs, sec,
                   note_start_positions, added>>

dump ==
    /\ pc = "build"
    /\ note_start_positions' = process_section(sec.note)
    /\ pc' = "headers"
    /\ UNCHANGED <<class, need_conversion, links, hash, segs, sec, added, i,
                   shown>>

(* The sections in the order of the file, with what is printed of each: a  *)
(* line of the list, and no more than MAX_DATA_ENTRIES bytes of the data.  *)
SectionOrder == <<"strtab", "symtab", "rel", "rela", "dynamic", "note">>
MAX_DATA_ENTRIES == 64
AtMost(n) == IF n < MAX_DATA_ENTRIES THEN n ELSE MAX_DATA_ENTRIES

Headers ==
    [k \in DOMAIN SectionOrder |->
        LET s == sec[SectionOrder[k]]
        IN  [name |-> SectionOrder[k], size |-> s.size,
             entries |-> get_entries_num(s)]]

section_headers ==
    /\ Dumping("headers")
    /\ shown' = [shown EXCEPT !.headers = Headers]
    /\ pc' = "segments"
    /\ UNCHANGED i

segment_headers ==
    /\ Dumping("segments")
    /\ shown' = [shown EXCEPT !.segments = segs]
    /\ pc' = "symbols"
    /\ i' = 0

section_datas ==
    /\ Dumping("data")
    /\ shown' = [shown EXCEPT !.data =
                   [k \in DOMAIN SectionOrder |->
                      AtMost(sec[SectionOrder[k]].size)]]
    /\ pc' = "segdata"
    /\ UNCHANGED i

(* A segment of no type has no data, whatever its size.                    *)
segment_datas ==
    /\ Dumping("segdata")
    /\ shown' = [shown EXCEPT !.segdata =
                   [k \in DOMAIN segs |->
                      IF segs[k].null THEN 0 ELSE AtMost(segs[k].filesz)]]
    /\ pc' = "dumped"
    /\ UNCHANGED i

(* The example tutorial lists the sections, the segments and the symbols;  *)
(* it counts the symbols in an int.                                        *)
tutorial ==
    /\ pc = "build"
    /\ shown' = [shown EXCEPT !.headers = Headers, !.segments = segs,
                   !.symbols = 0..(get_entries_num(sec.symtab) - 1)]
    /\ pc' = "listed"
    /\ UNCHANGED <<class, need_conversion, links, hash, segs, sec,
                   note_start_positions, added, i>>

(* Mutant: it counts in a byte.                                            *)
symbol_tables_byte ==
    /\ Dumping("symbols")
    /\ IF i < get_entries_num(sec.symtab)
       THEN /\ shown' = [shown EXCEPT !.symbols = @ \cup {i}]
            /\ i' = Narrow(i + 1, 1)
            /\ pc' = pc
       ELSE pc' = "notes" /\ i' = 0 /\ UNCHANGED shown

(* The number of symbols is an Elf_Xword, the loop counts in an Elf_Half.  *)
symbol_tables ==
    /\ Dumping("symbols")
    /\ IF i < get_entries_num(sec.symtab)
       THEN /\ shown' = [shown EXCEPT !.symbols = @ \cup {i}]
            /\ i' = Narrow(i + 1, Width("Half", class))
            /\ pc' = pc
       ELSE pc' = "notes" /\ i' = 0 /\ UNCHANGED shown

(* Behind a wild position anything may be printed; nothing is, here.       *)
notes ==
    /\ Dumping("notes")
    /\ IF i < Len(note_start_positions)
       THEN /\ LET at == note_start_positions[i + 1]
                   note == IF at = Wild THEN NoNote ELSE get_note(sec.note, at)
               IN  shown' = [shown EXCEPT !.notes =
                               IF note = NoNote THEN @ ELSE Append(@, note)]
            /\ i' = i + 1
            /\ pc' = pc
       ELSE pc' = "dynamic" /\ i' = 0 /\ UNCHANGED shown

(* Mutant: the end mark does not end the list.                             *)
dynamic_tags_all ==
    /\ Dumping("dynamic")
    /\ IF i < get_entries_num(sec.dynamic)
       THEN /\ shown' = [shown EXCEPT !.dynamic = Append(@, get_dynamic(sec.dynamic, sec.strtab, i))]
            /\ i' = i + 1
            /\ pc' = pc
       ELSE pc' = "data" /\ UNCHANGED <<i, shown>>

dynamic_tags ==
    /\ Dumping("dynamic")
    /\ IF i < get_entries_num(sec.dynamic)
       THEN /\ shown' = [shown EXCEPT !.dynamic = Append(@, get_dynamic(sec.dynamic, sec.strtab, i))]
            /\ i' = i + 1
            /\ pc' = IF get_dynamic(sec.dynamic, sec.strtab, i).tag = DT_NULL THEN "data" ELSE pc
       ELSE pc' = "data" /\ UNCHANGED <<i, shown>>

DumpStep ==
    \/ section_headers \/ segment_headers \/ symbol_tables \/ notes
    \/ dynamic_tags \/ section_datas \/ segment_datas

Done == pc \in {"dumped", "listed"} /\ UNCHANGED vars

Next ==
    \/ \E str \in Strings, value \in Numbers : AddSymbol(str, value, value, 1, 2)
    \/ \E symbol \in {1, Len(added.symbols)}, offset \in Numbers,
          type \in RelTypes :
         \/ AddRel(symbol, offset, type)
         \/ \E addend \in Addends : AddRela(symbol, offset, type, addend)
    \/ \E str \in Strings, value \in Numbers, offset \in Numbers :
         AddRelWithSymbol(str, value, offset, R_386_32)
    \/ \E tag \in Tags \ StringTags, value \in Numbers : AddDynamic(tag, value)
    \/ \E tag \in Tags \cap StringTags, str \in Strings :
         AddDynamicString(tag, str)
    \/ \E name \in Strings, n \in {0, 6}, bytes \in BOOLEAN :
         AddNote(1, name, n, bytes)
    \/ copy_dynamic
    \/ save_and_load
    \/ tutorial
    \/ dump \/ DumpStep
    \/ Done

Spec == Init /\ [][Next]_vars /\ WF_vars(DumpStep)

-----------------------------------------------------------------------------
(* The numbers of a file as a 64-bit program reads them.                  *)
FitsAddr(v) == Narrow(v, Width("Addr", class))
FitsAddend(v) ==
    Signed(Narrow(v, Width("Native", class)), Width("Native", class))
Sxword(v) == Signed(Narrow(v, 8), 8)

(* In a file of either class and byte order every relocation leads to the  *)
(* symbol it was made for, with that symbol's name, and its value is       *)
(* computed from what was asked, cut to the width of the file's addresses. *)
RelocationsReachSymbols ==
    \A kind \in {"rel", "rela"} : \A k \in DOMAIN added[kind] :
        LET r == added[kind][k]
            s == added.symbols[r.symbol]
        IN  get_calculated(sec[kind], k - 1) =
              [name |-> s.name,
               value |-> Sxword(Calculated(r.type, FitsAddr(s.value),
                                           FitsAddend(r.addend),
                                           FitsAddr(r.offset)))]

(* A name is found, as a symbol of that name, exactly if the linker hashed *)
(* it: when the hash section is the first one linked to the symbols and    *)
(* the file has the host's byte order.  Symbols added later are not found. *)
LookupByName ==
    links # <<>> /\ Head(links) = "hash" /\ ~need_conversion =>
        \A name \in Strings :
            LET y == get_symbol_by_name(name)
            IN  /\ (\E k \in 1..added.linked : added.symbols[k].name = name)
                     <=> y \in 1..added.linked
                /\ y \in 1..added.linked => get_symbol(y).name = name
                /\ y # Wild

(* A dynamic entry reads back as it was added, unless the file is a 32-bit *)
(* one of the other byte order: there every entry becomes the end mark.    *)
(* What is read can be added to another section and reads the same there.  *)
DynamicReadBack ==
    /\ \A k \in DOMAIN added.dynamic :
        LET e == added.dynamic[k]
            v == IF e.tag \in ValuelessTags THEN 0
                 ELSE Narrow(e.value, Width("Native", class))
        IN  get_dynamic(sec.dynamic, sec.strtab, k - 1) =
              IF class = 32 /\ need_conversion
              THEN [tag |-> DT_NULL, value |-> 0, str |-> NoName]
              ELSE [tag |-> e.tag, value |-> v, str |-> e.str]
    /\ \A k \in DOMAIN sec.dynamic1.items :
        LET e == get_dynamic(sec.dynamic, sec.strtab, k - 1)
            c == get_dynamic(sec.dynamic1, sec.dynstr, k - 1)
        IN  /\ c.tag = e.tag /\ c.str = e.str
            /\ e.tag \notin StringTags => c.value = e.value

(* The notes found in the file are those that were added, unless a note    *)
(* before the last one has the size of a description it was not given.     *)
Whole(e) == e.bytes \/ e.descSize = 0
StartsOf(s) == [k \in DOMAIN s.items |-> s.items[k].at]

NotesReadBack ==
    process_section(sec.note) = StartsOf(sec.note)
      <=> \A k \in 1..(Len(added.note) - 1) : Whole(added.note[k])

(* A dump that ends has counted what was added and shown all symbols, all  *)
(* notes if they can be found and the dynamic entries up to the end mark.  *)
DumpedAll ==
    /\ pc = "listed" => shown.symbols = 0..Len(added.symbols)
    /\ pc = "dumped" =>
        /\ \A k \in DOMAIN segs :
             /\ shown.segments[k] = segs[k]
             /\ shown.segdata[k] <= segs[k].filesz
        /\ [k \in 2..5 |-> shown.headers[k].entries] =
              [k \in 2..5 |-> (IF k = 2 THEN Len(added.symbols) + 1
                               ELSE Len(added[SectionOrder[k]]))]
        /\ shown.symbols = 0..Len(added.symbols)
        /\ (\A k \in DOMAIN added.note : Whole(added.note[k]))
             => shown.notes = [k \in DOMAIN added.note |->
                   [type |-> added.note[k].type, name |-> added.note[k].name,
                    descSize |-> added.note[k].descSize]]
        /\ \A k \in 1..Len(added.dynamic) :
             k > Len(shown.dynamic)
                <=> \E l \in 1..(k - 1) :
                      added.dynamic[l].tag = DT_NULL
                        \/ (class = 32 /\ need_conversion)

(* The dump of a file with fewer symbols than an Elf_Half has values ends, *)
(* that of any other file never does.                                      *)
DumpEnds ==
    /\ (pc = "symbols" /\ Len(added.symbols) + 1 < Limit(2)) ~> pc = "dumped"
    /\ [](Len(added.symbols) + 1 >= Limit(2) => pc # "dumped")
=============================================================================
