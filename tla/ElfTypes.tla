------------------------------ MODULE ElfTypes ------------------------------
(***************************************************************************)
(* The types of the ELF library that signlk is built on: the widths of the *)
(* fields, the structures of a 32-bit and a 64-bit file, the macros that   *)
(* pack two values into one field, and the endianess convertor.            *)
(***************************************************************************)
EXTENDS Integers, Sequences

CONSTANT ByteBase       \* values of a byte: 256 in the code, smaller for TLC

ASSUME ByteAssumption == ByteBase \in Nat \ {0, 1}

Classes == {32, 64}                         \* ELFCLASS32, ELFCLASS64
EI_NIDENT == 16

(* Bytes of a field.  Addresses, offsets and Native (an Elf_Word that the  *)
(* 64-bit structures declare as Elf_Xword) depend on the class.            *)
Width(type, class) ==
    CASE type = "ident" -> EI_NIDENT
      [] type = "uchar" -> 1
      [] type = "Half"  -> 2
      [] type = "Word"  -> 4
      [] type = "Xword" -> 8
      [] OTHER          -> class \div 8     \* "Addr", "Off", "Native"

Ehdr == <<"ident", "Half", "Half", "Word", "Addr", "Off", "Off", "Word",
          "Half", "Half", "Half", "Half", "Half", "Half">>
Shdr == <<"Word", "Word", "Native", "Addr", "Off", "Native", "Word", "Word",
          "Native", "Native">>
Phdr == <<"Word", "Word", "Off", "Addr", "Addr", "Native", "Native", "Native">>
Sym == <<"Word", "uchar", "uchar", "Half", "Addr", "Native">>
Rel == <<"Addr", "Native">>
Rela == <<"Addr", "Native", "Native">>
Dyn == <<"Native", "Native">>

SizeOf(struct, class) ==
    LET Upto[n \in 0..Len(struct)] ==
            IF n = 0 THEN 0 ELSE Upto[n - 1] + Width(struct[n], class)
    IN  Upto[Len(struct)]

(* elfio::get_default_entry_size; other types have no default.             *)
get_default_entry_size(type, class) ==
    CASE type = "RELA"    -> SizeOf(Rela, class)
      [] type = "REL"     -> SizeOf(Rel, class)
      [] type = "SYMTAB"  -> SizeOf(Sym, class)
      [] type = "DYNAMIC" -> SizeOf(Dyn, class)
      [] OTHER            -> 0

-----------------------------------------------------------------------------
(* How many values a field of w bytes has, and what an assignment keeps.   *)
Limit(w) ==
    LET two == ByteBase * ByteBase
        four == two * two
    IN  CASE w = 1 -> ByteBase
          [] w = 2 -> two
          [] w = 4 -> four
          [] w = 8 -> four * four

Values(w) == 0..(Limit(w) - 1)
Narrow(v, w) == v % Limit(w)

(* The bytes of v in the other order: each half is reversed, and the two   *)
(* change places.  Only files whose encoding is not the host's need that.  *)
Reversed2(v) == (v % Limit(1)) * Limit(1) + (v \div Limit(1))
Reversed4(v) ==
    Reversed2(v % Limit(2)) * Limit(2) + Reversed2(v \div Limit(2))
Reversed8(v) ==
    Reversed4(v % Limit(4)) * Limit(4) + Reversed4(v \div Limit(4))

Reversed(v, w) ==
    CASE w = 2 -> Reversed2(v)
      [] w = 4 -> Reversed4(v)
      [] w = 8 -> Reversed8(v)
      [] OTHER -> v

Convert(need_conversion, v, w) ==
    IF need_conversion THEN Reversed(v, w) ELSE v

(* Two values in one field.  A byte has two nibbles; the type of a 32-bit  *)
(* relocation is its low byte, that of a 64-bit one its low half.          *)
Nibble == CHOOSE n \in 1..ByteBase : n * n >= ByteBase
ELF_ST_BIND(i) == i \div Nibble
ELF_ST_TYPE(i) == i % Nibble
ELF_ST_INFO(b, t) == Narrow(b * Nibble + (t % Nibble), 1)

TypeBase(class) == Limit(IF class = 64 THEN 4 ELSE 1)
ELF_R_SYM(i, class) == i \div TypeBase(class)
ELF_R_TYPE(i, class) == i % TypeBase(class)
ELF_R_INFO(s, t, class) ==
    Narrow(s * TypeBase(class) + (t % TypeBase(class)), class \div 8)
=============================================================================
