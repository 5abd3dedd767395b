---------------------------- MODULE MCElfTables ----------------------------
(***************************************************************************)
(* Files of both classes and byte orders for TLC.  A byte has four values, *)
(* so that an Elf_Half counts to 16.                                       *)
(***************************************************************************)
EXTENDS ElfSections

LinkedFile(c, need, order, symbols) ==
    [class |-> c, need_conversion |-> need, links |-> order,
     symbols |-> symbols, nbucket |-> 2,
     segs |-> <<[null |-> TRUE, filesz |-> 80], [null |-> FALSE, filesz |-> 80]>>]

Few == <<"a", "b", "c">>
Many == [k \in 1..14 |-> "a"]

MCFiles ==
    {LinkedFile(c, need, <<"hash", "rel">>, Few) :
        c \in Classes, need \in BOOLEAN}
    \cup {LinkedFile(32, FALSE, <<"rel", "hash">>, Few),
          LinkedFile(32, FALSE, <<"hash">>, Many),
          LinkedFile(64, FALSE, <<>>, <<"a">>)}

MCNames == {"a", "b", "c"}
MCStrings == {"b", "d"}
MCStringSize(str) == IF str = "" THEN 0 ELSE IF str = "d" THEN 6 ELSE 3
MCHash(name) ==
    CASE name = "a" -> 1 [] name = "b" -> 2 [] name = "c" -> 4 [] OTHER -> 3

(* The second one needs more than 32 bits.                                 *)
MCNumbers == {5, Limit(4) + 3}
MCAddends == {-2}
MCTags == {0, 1, 5}
MCRelTypes == {R_386_32, R_386_PC32}

(* Nothing, an eighth, a quarter, a half and nearly all of what an Elf_Word*)
(* tells, and more than that.                                              *)
MCSizes == {0, 32, 64, 128, 224, 288}
=============================================================================
