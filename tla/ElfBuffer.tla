----------------------------- MODULE ElfBuffer -----------------------------
(***************************************************************************)
(* The buffer behind one section's data: section_impl with its size, a     *)
(* field of the header, and its data_size, an Elf_Word beside it.  Any of  *)
(* the three operations that fill the buffer may come at any time, load    *)
(* only into a new section, and any allocation may fail.  Sections that    *)
(* have no data (SHT_NULL, SHT_NOBITS) have no buffer and are left out.    *)
(***************************************************************************)
EXTENDS ElfTypes

CONSTANT Sizes          \* sizes of what is set, appended or in a file

VARIABLES
    class,      \* 32 or 64
    buf,        \* the section
    past        \* history: what has happened since its data were last set

vars == <<class, buf, past>>

(* size is the header's; room is how long the buffer really is; reach is   *)
(* how far the last copy into it went.                                     *)
NewSection == [size |-> 0, data_size |-> 0, room |-> 0, reach |-> 0]
Nothing == [bare |-> FALSE, starved |-> FALSE, large |-> FALSE]

Header(n) == Narrow(n, Width("Native", class))

Init ==
    /\ class \in Classes
    /\ buf = NewSection /\ past = Nothing

(* Nothing is said of a program that has written behind a buffer.          *)
Intact == buf.reach <= buf.room /\ UNCHANGED class

-----------------------------------------------------------------------------
(* section_impl::load.  The size in the file is an Elf_Xword.  The data    *)
(* are read even if there is no buffer for them.                           *)
load(n, allocated) ==
    /\ Intact
    /\ buf = NewSection /\ past = Nothing
    /\ n \in Values(Width("Native", class))
    /\ buf' = [size |-> n, data_size |-> Narrow(n, 4),
               room |-> IF allocated THEN n ELSE 0, reach |-> n]
    /\ past' = [past EXCEPT !.starved = ~allocated]

(* section_impl::set_data.  Without bytes (raw) the buffer is new, but     *)
(* data_size is that of the old one.                                       *)
set_data(n, raw, allocated) ==
    /\ Intact
    /\ buf' = IF allocated
              THEN [size |-> n, data_size |-> IF raw THEN n ELSE buf.data_size,
                    room |-> n, reach |-> IF raw THEN n ELSE 0]
              ELSE NewSection
    /\ past' = [Nothing EXCEPT !.bare = allocated /\ ~raw]

(* section_impl::append_data.  Copied into the buffer there is, if that is *)
(* longer than the data become; otherwise into a new one.  The length of   *)
(* the new one is kept even if it cannot be had.                           *)
Fits(n) == buf.size + n < buf.data_size

(* Mutant: the new buffer is twice as long as what is appended.            *)
Doubled_short(n) == Narrow(2 * n, 4)

Doubled(n) == Narrow(2 * (buf.data_size + n), 4)

Big(n) == 4 * (buf.size + n) >= Limit(4)

append_data(n, allocated) ==
    /\ Intact
    /\ LET size == buf.size + n
       IN  buf' = CASE Fits(n) ->
                         [buf EXCEPT !.size = Header(size), !.reach = size]
                    [] ~Fits(n) /\ allocated ->
                         [size |-> Header(size), data_size |-> Doubled(n),
                          room |-> Doubled(n), reach |-> size]
                    [] OTHER -> [buf EXCEPT !.data_size = Doubled(n)]
    /\ past' = [past EXCEPT !.large = @ \/ Big(n),
                            !.starved = @ \/ (~Fits(n) /\ ~allocated)]

Next ==
    \E n \in Sizes, allocated \in BOOLEAN :
        \/ load(n, allocated)
        \/ /\ n \in Values(4)
           /\ \/ append_data(n, allocated)
              \/ \E raw \in BOOLEAN : set_data(n, raw, allocated)

Spec == Init /\ [][Next]_vars

-----------------------------------------------------------------------------
(* Whatever is loaded, set and appended, in any order: nothing is copied   *)
(* behind the end of the buffer, and the data never become longer than it, *)
(* unless one of three things has happened since the data were last set: a *)
(* size was set without bytes, an allocation failed, or an append made the *)
(* data a quarter as long as an Elf_Word can tell, from where on doubling  *)
(* the buffer may wrap round.                                              *)
RoomForAll ==
    \/ buf.reach <= buf.room /\ buf.size <= buf.room
    \/ past.bare \/ past.starved \/ past.large
=============================================================================
