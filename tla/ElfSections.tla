---------------------------- MODULE ElfSections ----------------------------
(***************************************************************************)
(* A program that works on an ELF file with the library: on its tables,    *)
(* through the accessors (ElfTables), or on the data of a section it fills *)
(* by itself (ElfBuffer).  The two share the class of the file and nothing *)
(* else, so that one program does one of them here.                        *)
(***************************************************************************)
EXTENDS ElfTables

CONSTANT Sizes          \* of what is set, appended or in a file

VARIABLES
    subject,            \* "tables" or "section"
    buf, past           \* the section

Buffer == INSTANCE ElfBuffer

sectionVars == <<subject, buf, past>>

SectionsInit ==
    /\ Init /\ Buffer!Init
    /\ subject \in {"tables", "section"}

OnTables ==
    /\ subject = "tables" /\ Next
    /\ UNCHANGED sectionVars

OnSection ==
    /\ subject = "section" /\ Buffer!Next
    /\ UNCHANGED <<subject, vars>>

(* Nothing is said of a program that has written behind a buffer.          *)
Overrun ==
    /\ buf.reach > buf.room
    /\ UNCHANGED <<sectionVars, vars>>

SectionsNext == OnTables \/ OnSection \/ Overrun

SectionsSpec ==
    /\ SectionsInit /\ [][SectionsNext]_<<sectionVars, vars>>
    /\ WF_vars(DumpStep)

(* Of a section that is filled by load, set_data and append_data: see      *)
(* ElfBuffer.                                                              *)
RoomForAll == Buffer!RoomForAll
=============================================================================
