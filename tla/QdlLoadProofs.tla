--------------------------- MODULE QdlLoadProofs ---------------------------
(***************************************************************************)
(* What qdl loads and what it lets pass, for every command line.           *)
(*                                                                         *)
(* The four lists outlive the file they were filled from, so the invariant *)
(* says what they hold in the middle of a command line: of what has been   *)
(* scanned the complete programs and patches, in order; and of the one UFS *)
(* file that may have been opened, how many descriptors of each kind it    *)
(* had so far.  A file that was left behind has passed the gate.           *)
(***************************************************************************)
EXTENDS QdlLoad, FiniteSetTheorems, TLAPS

Positions == Nat \X Nat
Going == status \in {"loading", "flashing", "provisioning"}

Places ==
    /\ args \in CommandLines
    /\ file \in 1..(Len(args.files) + 1)
    /\ element \in Nat
    /\ file <= Len(args.files) => element <= Len(Elements(file)) + 1
    /\ file > Len(args.files) => element = 0
    /\ programs \in Seq(Positions) /\ patches \in Seq(Positions)
    /\ units \in Seq(Positions)
    /\ status \in {"loading", "exited", "crashed", "flashing", "provisioning"}

(* Main has got past this position, and has opened these files.            *)
Scanned(p) == p[1] < file \/ (p[1] = file /\ p[2] < element)
Opened == {f \in 1..Len(args.files) : f < file \/ (f = file /\ element > 0)}
UfsOpened == Opened \cap FilesOf("ufs")

Loaded(type, k) == {p \in Whole(type, k) : Scanned(p)}
Seen(f, k) == {i \in Kind(f, k) : Scanned(<<f, i>>)}

Lists ==
    /\ IsListOf(programs, Loaded("program", "program"))
    /\ IsListOf(patches, Loaded("patch", "patch"))

(* One descriptor of the kind was loaded, or none; no other was seen.      *)
OnlyOne(descriptor, f, k) ==
    \/ descriptor = None /\ Seen(f, k) = {}
    \/ \E i \in Seen(f, k) : descriptor = <<f, i>> /\ Seen(f, k) = {i}

UfsFile(f) ==
    /\ UfsOpened = {f}
    /\ Seen(f, "ufs") = {}
    /\ \A k \in {"common", "unit", "commit"} : \A i \in Seen(f, k) :
          Elements(f)[i].lacks = "nothing"
    /\ OnlyOne(common, f, "common")
    /\ OnlyOne(epilogue, f, "commit")
    /\ units = <<>> <=> Seen(f, "unit") = {}
    /\ f < file => ufs_load_gate

UfsLists ==
    /\ UfsOpened = {} => common = None /\ units = <<>> /\ epilogue = None
    /\ \A f \in UfsOpened : UfsFile(f)

LoadInv ==
    /\ Places
    /\ \A f \in Opened : detect_type(f) # "unknown"
    /\ Going => Lists /\ UfsLists
    /\ status = "exited" => ~Acceptable
    /\ status \in {"flashing", "provisioning"} => file > Len(args.files)
    /\ status = "flashing" => epilogue = None
    /\ status = "provisioning" => epilogue # None

-----------------------------------------------------------------------------
(* The command line as its type says.                                      *)
LEMMA FilesType ==
  ASSUME Places
  PROVE  /\ Len(args.files) \in Nat
         /\ \A f \in 1..Len(args.files) :
              /\ Elements(f) \in Seq(Element)
              /\ Len(Elements(f)) \in Nat
              /\ \A i \in 1..Len(Elements(f)) : Elements(f)[i] \in Element
<1>1. args.files \in Seq(File)
  BY CommandLinesAssumption DEF Places, CommandLine
<1>2. \A f \in 1..Len(args.files) : Elements(f) \in Seq(Element)
  <2>1. \A f \in 1..Len(args.files) : args.files[f] \in File
    BY <1>1
  <2>2. \A f \in File : f.elements \in Seq(Element)
    BY DEF File
  <2> QED
    BY <2>1, <2>2 DEF Elements
<1> QED
  BY <1>1, <1>2

(* Nothing changes the command line.                                       *)
LEMMA TypesStay ==
  ASSUME args' = args
  PROVE  /\ \A f : detect_type(f)' = detect_type(f)
         /\ \A f : Elements(f)' = Elements(f)
  BY DEF detect_type, Elements

LEMMA SetsStay ==
  ASSUME args' = args
  PROVE  /\ \A f, k : Kind(f, k)' = Kind(f, k)
         /\ \A type : FilesOf(type)' = FilesOf(type)
         /\ \A type, k : Whole(type, k)' = Whole(type, k)
         /\ Acceptable' = Acceptable
<1>1. \A f, k : Kind(f, k)' = Kind(f, k)
  BY TypesStay DEF Kind
<1>2. \A type : FilesOf(type)' = FilesOf(type)
  BY TypesStay DEF FilesOf
<1>3. \A type, k : Whole(type, k)' = Whole(type, k)
  BY TypesStay DEF Whole, FilesOf, Kind
<1>4. \A f : Provisionable(f)' = Provisionable(f)
  BY TypesStay, <1>1 DEF Provisionable
<1>5. Acceptable' = Acceptable
  BY <1>2, <1>4 DEF Acceptable
<1> QED
  BY <1>1, <1>2, <1>3, <1>5

LEMMA InWhole ==
  ASSUME NEW type, NEW k, NEW p
  PROVE  p \in Whole(type, k) <=>
           \E f \in FilesOf(type) : \E i \in Kind(f, k) :
              p = <<f, i>> /\ Elements(f)[i].lacks = "nothing"
  BY DEF Whole

(* The positions there are.                                                *)
LEMMA KindPositions ==
  ASSUME Places, NEW f \in 1..Len(args.files), NEW k
  PROVE  /\ Kind(f, k) \subseteq 1..Len(Elements(f))
         /\ Kind(f, k) \subseteq Nat \ {0}
  BY FilesType DEF Kind

LEMMA WholePositions ==
  ASSUME Places, NEW type, NEW k, NEW p \in Whole(type, k)
  PROVE  /\ p = <<p[1], p[2]>>
         /\ p[1] \in FilesOf(type) /\ p[1] \in 1..Len(args.files)
         /\ p[2] \in Kind(p[1], k) /\ p[2] \in 1..Len(Elements(p[1]))
         /\ Elements(p[1])[p[2]].lacks = "nothing"
<1>1. PICK f \in FilesOf(type) : \E i \in Kind(f, k) :
         p = <<f, i>> /\ Elements(f)[i].lacks = "nothing"
  BY InWhole
<1>2. f \in 1..Len(args.files)
  BY DEF FilesOf
<1> QED
  BY <1>1, <1>2, KindPositions

-----------------------------------------------------------------------------
(* How the scan moves.  One element further ...                            *)
LEMMA NextElement ==
  ASSUME Places, file <= Len(args.files), element \in 1..Len(Elements(file)),
         element' = element + 1, UNCHANGED <<args, file>>
  PROVE  /\ \A type, k : Loaded(type, k)' =
              IF Here \in Whole(type, k) THEN Loaded(type, k) \cup {Here}
                                         ELSE Loaded(type, k)
         /\ \A f \in 1..Len(args.files) : \A k : Seen(f, k)' =
              IF f = file /\ At(Here).kind = k THEN Seen(f, k) \cup {element}
                                               ELSE Seen(f, k)
         /\ Opened' = Opened /\ UfsOpened' = UfsOpened
         /\ file \in Opened
         /\ element' <= Len(Elements(file)) + 1
<1> file \in 1..Len(args.files) /\ Len(Elements(file)) \in Nat
  BY FilesType DEF Places
<1>1. \A f \in Nat, i \in Nat :
         Scanned(<<f, i>>)' <=> Scanned(<<f, i>>) \/ <<f, i>> = Here
  BY DEF Scanned, Here
<1>2. ASSUME NEW type, NEW k
      PROVE  Loaded(type, k)' = IF Here \in Whole(type, k)
                                THEN Loaded(type, k) \cup {Here}
                                ELSE Loaded(type, k)
  <2>1. Whole(type, k)' = Whole(type, k)
    BY SetsStay
  <2>2. ASSUME NEW p \in Whole(type, k)
        PROVE  Scanned(p)' <=> Scanned(p) \/ p = Here
    <3>1. p[1] \in Nat /\ p[2] \in Nat /\ p = <<p[1], p[2]>>
      BY WholePositions, FilesType
    <3> QED
      BY <1>1, <3>1
  <2> QED
    BY <2>1, <2>2 DEF Loaded
<1>3. ASSUME NEW f \in 1..Len(args.files), NEW k
      PROVE  Seen(f, k)' = IF f = file /\ At(Here).kind = k
                           THEN Seen(f, k) \cup {element} ELSE Seen(f, k)
  <2>1. Kind(f, k)' = Kind(f, k)
    BY SetsStay
  <2>2. \A i \in Kind(f, k) : Scanned(<<f, i>>)' <=>
                                Scanned(<<f, i>>) \/ (f = file /\ i = element)
    BY <1>1, KindPositions, FilesType DEF Here
  <2>3. element \in Kind(file, k) <=> At(Here).kind = k
    BY DEF Kind, At, Here, Elements
  <2> QED
    BY <2>1, <2>2, <2>3 DEF Seen
<1>4. Opened' = Opened
  BY DEF Opened, Places
<1>5. UfsOpened' = UfsOpened
  BY <1>4, SetsStay DEF UfsOpened
<1> QED
  BY <1>2, <1>3, <1>4, <1>5 DEF Opened

(* ... and to the next file, in the two halves of it.                      *)
LEMMA SameScan ==
  ASSUME Places, args' = args,
         \A f \in 1..Len(args.files) : \A i \in 1..Len(Elements(f)) :
            Scanned(<<f, i>>)' <=> Scanned(<<f, i>>)
  PROVE  /\ \A type, k : Loaded(type, k)' = Loaded(type, k)
         /\ \A f \in 1..Len(args.files) : \A k : Seen(f, k)' = Seen(f, k)
<1>1. ASSUME NEW type, NEW k
      PROVE  Loaded(type, k)' = Loaded(type, k)
  <2>1. Whole(type, k)' = Whole(type, k)
    BY SetsStay
  <2>2. \A p \in Whole(type, k) : Scanned(p)' <=> Scanned(p)
    BY WholePositions
  <2> QED
    BY <2>1, <2>2 DEF Loaded
<1>2. ASSUME NEW f \in 1..Len(args.files), NEW k
      PROVE  Seen(f, k)' = Seen(f, k)
  <2>1. Kind(f, k)' = Kind(f, k)
    BY SetsStay
  <2> QED
    BY <2>1, KindPositions DEF Seen
<1> QED
  BY <1>1, <1>2

LEMMA OpensFile ==
  ASSUME Places, file <= Len(args.files), element = 0,
         element' = 1, UNCHANGED <<args, file>>
  PROVE  /\ \A type, k : Loaded(type, k)' = Loaded(type, k)
         /\ \A f \in 1..Len(args.files) : \A k : Seen(f, k)' = Seen(f, k)
         /\ Opened' = Opened \cup {file}
         /\ \A k : Seen(file, k) = {}
<1> file \in 1..Len(args.files)
  BY FilesType DEF Places
<1>1. \A f, i \in Nat : i # 0 => (Scanned(<<f, i>>)' <=> Scanned(<<f, i>>))
  BY DEF Scanned
<1>2. /\ \A type, k : Loaded(type, k)' = Loaded(type, k)
      /\ \A f \in 1..Len(args.files) : \A k : Seen(f, k)' = Seen(f, k)
  BY <1>1, SameScan, FilesType
<1>3. Opened' = Opened \cup {file}
  BY FilesType DEF Opened
<1>4. \A k : Seen(file, k) = {}
  BY KindPositions DEF Seen, Scanned
<1> QED
  BY <1>2, <1>3, <1>4

LEMMA LeavesFile ==
  ASSUME Places, file <= Len(args.files), element > Len(Elements(file)),
         file' = file + 1, element' = 0, args' = args
  PROVE  /\ \A type, k : Loaded(type, k)' = Loaded(type, k)
         /\ \A f \in 1..Len(args.files) : \A k : Seen(f, k)' = Seen(f, k)
         /\ Opened' = Opened
<1> file \in 1..Len(args.files) /\ Len(Elements(file)) \in Nat
  BY FilesType DEF Places
<1>1. \A f \in 1..Len(args.files) : \A i \in 1..Len(Elements(f)) :
         Scanned(<<f, i>>)' <=> Scanned(<<f, i>>)
  BY FilesType DEF Scanned, Places
<1>2. /\ \A type, k : Loaded(type, k)' = Loaded(type, k)
      /\ \A f \in 1..Len(args.files) : \A k : Seen(f, k)' = Seen(f, k)
  BY <1>1, SameScan
<1>3. Opened' = Opened
  BY FilesType DEF Opened, Places
<1> QED
  BY <1>2, <1>3

(* A list that gets the position of the scan at its end stays in order.    *)
LEMMA AppendHere ==
  ASSUME Places, NEW list \in Seq(Positions), NEW type, NEW k,
         IsListOf(list, Loaded(type, k))
  PROVE  IsListOf(Append(list, Here), Loaded(type, k) \cup {Here})
<1>1. \A j \in 1..Len(list) : Before(list[j], Here)
  <2> SUFFICES ASSUME NEW j \in 1..Len(list)
               PROVE  Before(list[j], Here)
    OBVIOUS
  <2>1. list[j] \in Loaded(type, k)
    BY DEF IsListOf
  <2> QED
    BY <2>1 DEF Loaded, Scanned, Before, Here
<1> DEFINE longer == Append(list, Here)
<1>2. /\ Len(longer) = Len(list) + 1 /\ longer[Len(list) + 1] = Here
      /\ \A j \in 1..Len(list) : longer[j] = list[j]
      /\ Len(list) \in Nat
  BY DEF Here, Places, Positions
<1>3. {longer[j] : j \in 1..Len(longer)}
        = {list[j] : j \in 1..Len(list)} \cup {Here}
  BY <1>2
<1>4. \A i, j \in 1..Len(longer) : i < j => Before(longer[i], longer[j])
  BY <1>1, <1>2 DEF IsListOf
<1> QED
  BY <1>3, <1>4 DEF IsListOf

-----------------------------------------------------------------------------
(* Counting.  The gate counts descriptors and files, the invariant knows   *)
(* them.                                                                   *)
LEMMA KindCount ==
  ASSUME Places, NEW f \in 1..Len(args.files), NEW k
  PROVE  Cardinality(Kind(f, k)) = 1 <=> \E i : Kind(f, k) = {i}
<1>1. IsFiniteSet(1..Len(Elements(f)))
  BY FilesType, FS_Interval
<1>2. IsFiniteSet(Kind(f, k))
  BY <1>1, KindPositions, FS_Subset
<1> QED
  BY <1>2, FS_Singleton

LEMMA FilesCount ==
  ASSUME Places, NEW type
  PROVE  Cardinality(FilesOf(type)) <= 1 <=>
           \A f, g \in FilesOf(type) : f = g
<1>1. IsFiniteSet(FilesOf(type))
  <2>1. IsFiniteSet(1..Len(args.files))
    BY FilesType, FS_Interval
  <2> QED
    BY <2>1, FS_Subset DEF FilesOf
<1>2. Cardinality(FilesOf(type)) \in Nat
  BY <1>1, FS_CardinalityType
<1>3. Cardinality(FilesOf(type)) = 0 <=> FilesOf(type) = {}
  BY <1>1, FS_EmptySet
<1>4. Cardinality(FilesOf(type)) = 1 <=> \E f : FilesOf(type) = {f}
  BY <1>1, FS_Singleton
<1>5. (\A f, g \in FilesOf(type) : f = g)
        <=> FilesOf(type) = {} \/ \E f : FilesOf(type) = {f}
  OBVIOUS
<1> QED
  BY <1>2, <1>3, <1>4, <1>5

(* A UFS file that was left behind is one the gate was meant to let pass.  *)
LEMMA PassedGate ==
  ASSUME Places, UfsLists, NEW f \in UfsOpened, f < file
  PROVE  Provisionable(f)
<1>1. f \in 1..Len(args.files)
  BY DEF UfsOpened, Opened
<1>2. UfsFile(f) /\ ufs_load_gate
  BY DEF UfsLists, UfsFile
<1>3. \A k : Seen(f, k) = Kind(f, k)
  BY DEF Seen, Scanned
<1>4. PICK i \in Kind(f, "common") :
         common = <<f, i>> /\ Kind(f, "common") = {i}
  BY <1>2, <1>3 DEF UfsFile, OnlyOne, ufs_load_gate
<1>5. \E j : Kind(f, "commit") = {j}
  BY <1>2, <1>3 DEF UfsFile, OnlyOne, ufs_load_gate
<1>6. Kind(f, "unit") # {} /\ Kind(f, "ufs") = {}
  BY <1>2, <1>3 DEF UfsFile, ufs_load_gate
<1>7. \A k \in {"common", "unit", "commit"} : \A j \in Kind(f, k) :
         Elements(f)[j].lacks = "nothing"
  BY <1>2, <1>3 DEF UfsFile
<1>8. Elements(f)[i].lock = args.finalize
  BY <1>2, <1>4 DEF ufs_load_gate, At, Elements
<1> QED
  BY <1>1, <1>4, <1>5, <1>6, <1>7, <1>8, KindCount DEF Provisionable

(* Steps that load nothing into the UFS lists.                             *)
LEMMA UfsUntouched ==
  ASSUME Places, UfsLists, UNCHANGED <<args, common, units, epilogue>>,
         UfsOpened' = UfsOpened,
         \A f \in UfsOpened : \A k : Seen(f, k)' = Seen(f, k),
         \A f \in UfsOpened : f < file' => f < file \/ ufs_load_gate
  PROVE  UfsLists'
<1>1. ASSUME NEW f \in UfsOpened PROVE UfsFile(f)'
  <2>1. UfsFile(f)
    BY DEF UfsLists
  <2>2. f < file' => ufs_load_gate'
    BY <2>1 DEF UfsFile, ufs_load_gate, At
  <2>3. /\ OnlyOne(common, f, "common")'
        /\ OnlyOne(epilogue, f, "commit")'
    BY <2>1 DEF UfsFile, OnlyOne
  <2>4. \A k \in {"common", "unit", "commit"} : \A i \in Seen(f, k)' :
           Elements(f)'[i].lacks = "nothing"
    BY <2>1, TypesStay DEF UfsFile
  <2> QED
    BY <2>1, <2>2, <2>3, <2>4 DEF UfsFile
<1> QED
  BY <1>1 DEF UfsLists

-----------------------------------------------------------------------------
(* The steps.                                                              *)
LEMMA LoadStarts == Init => LoadInv
<1> SUFFICES ASSUME Init PROVE LoadInv
  OBVIOUS
<1>1. args.files \in Seq(File)
  BY CommandLinesAssumption DEF Init, CommandLine
<1>2. Places
  <2>1. Len(Elements(1)) \in Nat \/ Len(args.files) = 0
    <3>1. ASSUME Len(args.files) # 0
          PROVE  args.files[1].elements \in Seq(Element)
      <4>1. args.files[1] \in File
        BY <1>1, <3>1
      <4> QED
        BY <4>1 DEF File
    <3> QED
      BY <3>1, <1>1 DEF Elements
  <2> QED
    BY <1>1, <2>1 DEF Init, Places, Positions
<1>3. Opened = {}
  BY <1>1 DEF Init, Opened
<1>4. \A type, k : Loaded(type, k) = {}
  BY <1>2, WholePositions DEF Loaded, Scanned, Init
<1>5. Lists
  BY <1>4 DEF Init, Lists, IsListOf
<1>6. UfsLists
  BY <1>3 DEF Init, UfsLists, UfsOpened
<1> QED
  BY <1>2, <1>3, <1>5, <1>6 DEF LoadInv, Init

(* The lists of programs and patches as the element at hand leaves them.   *)
LEMMA SkipsElement ==
  ASSUME Places, Lists, file <= Len(args.files),
         element \in 1..Len(Elements(file)),
         element' = element + 1, UNCHANGED <<args, file, programs, patches>>,
         Here \notin Whole("program", "program"),
         Here \notin Whole("patch", "patch")
  PROVE  Lists'
  BY NextElement DEF Lists

LEMMA HereWhole ==
  ASSUME Places, file <= Len(args.files),
         element \in 1..Len(Elements(file)), NEW type, NEW k
  PROVE  Here \in Whole(type, k) <=>
           /\ detect_type(file) = type
           /\ At(Here).kind = k /\ At(Here).lacks = "nothing"
<1> file \in 1..Len(args.files)
  BY FilesType DEF Places
<1>1. Here \in Whole(type, k) <=>
        \E f \in FilesOf(type) : \E i \in Kind(f, k) :
           Here = <<f, i>> /\ Elements(f)[i].lacks = "nothing"
  BY InWhole
<1>2. Here \in Whole(type, k) <=>
        /\ file \in FilesOf(type) /\ element \in Kind(file, k)
        /\ Elements(file)[element].lacks = "nothing"
  BY <1>1 DEF Here
<1> QED
  BY <1>2 DEF FilesOf, Kind, At, Here, Elements

(* What the loops over the elements have in common.                        *)
LEMMA LoopPlaces ==
  ASSUME LoadInv, NEW type, Loads(type), type # "unknown"
  PROVE  /\ status = "loading" /\ Places /\ Lists /\ UfsLists
         /\ file <= Len(args.files) /\ element \in 1..Len(Elements(file))
         /\ file \in 1..Len(args.files)
         /\ element' = element + 1 /\ UNCHANGED <<args, file>>
         /\ \A f \in Opened' : detect_type(f)' # "unknown"
         /\ Opened' = Opened /\ UfsOpened' = UfsOpened
         /\ type = "ufs" <=> file \in UfsOpened
         /\ Here \in Positions
<1>1. /\ status = "loading" /\ Places /\ Lists /\ UfsLists
      /\ file <= Len(args.files) /\ element \in 1..Len(Elements(file))
      /\ element' = element + 1 /\ UNCHANGED <<args, file>>
      /\ detect_type(file) = type
  BY DEF LoadInv, Going, Loads
<1>2. file \in 1..Len(args.files)
  BY <1>1, FilesType DEF Places
<1>3. Opened' = Opened /\ UfsOpened' = UfsOpened /\ file \in Opened
  BY <1>1, NextElement
<1>4. \A f \in Opened' : detect_type(f)' # "unknown"
  BY <1>1, <1>3, TypesStay DEF LoadInv
<1>5. type = "ufs" <=> file \in UfsOpened
  BY <1>1, <1>2, <1>3 DEF UfsOpened, FilesOf
<1>6. Here \in Positions
  BY <1>1, <1>2, FilesType DEF Here, Positions
<1> QED
  BY <1>1, <1>2, <1>3, <1>4, <1>5, <1>6

(* The places after a turn of such a loop.                                 *)
LEMMA NextPlaces ==
  ASSUME LoadInv, NEW type, Loads(type), type # "unknown",
         programs' \in Seq(Positions), patches' \in Seq(Positions),
         units' \in Seq(Positions),
         status' \in {"loading", "exited", "crashed"}
  PROVE  Places'
<1>1. /\ Places /\ file <= Len(args.files)
      /\ element \in 1..Len(Elements(file))
      /\ element' = element + 1 /\ UNCHANGED <<args, file>>
  BY LoopPlaces
<1>2. Elements(file)' = Elements(file)
  BY <1>1, TypesStay DEF Elements
<1>3. element' <= Len(Elements(file)) + 1
  BY <1>1, NextElement
<1> QED
  BY <1>1, <1>2, <1>3 DEF Places

(* A loader that gives up ends the program, or crashes it.                 *)
LEMMA LoaderEnds ==
  ASSUME LoadInv, NEW type, Loads(type), type # "unknown",
         NEW how \in {"exited", "crashed"}, Ends(how),
         how = "exited" => ~Acceptable
  PROVE  LoadInv'
<1>1. UNCHANGED lists /\ status' = how
  BY DEF Ends
<1>2. Places'
  BY <1>1, NextPlaces DEF LoadInv, Places, lists
<1>3. Acceptable' = Acceptable
  BY LoopPlaces, SetsStay
<1> QED
  BY <1>1, <1>2, <1>3, LoopPlaces DEF LoadInv, Going

(* In a file of another type nothing happens to the UFS descriptors.       *)
LEMMA NoUfsElement ==
  ASSUME LoadInv, NEW type, Loads(type), type \notin {"unknown", "ufs"},
         UNCHANGED <<common, units, epilogue>>
  PROVE  UfsLists'
<1>1. \A f \in UfsOpened : f \in 1..Len(args.files) /\ f # file
  BY LoopPlaces DEF UfsOpened, Opened
<1>2. \A f \in UfsOpened : \A k : Seen(f, k)' = Seen(f, k)
  BY <1>1, LoopPlaces, NextElement
<1> QED
  BY <1>1, <1>2, LoopPlaces, UfsUntouched

LEMMA ProgramStep ==
  ASSUME LoadInv, program_load
  PROVE  LoadInv'
<1> Loads("program")
  BY DEF program_load
<1>1. At(Here).kind = "program" /\ At(Here).lacks \in {"number", "string"}
        /\ Ends("crashed")
        => LoadInv'
  BY LoaderEnds
<1>2. ASSUME Skips, ~(At(Here).kind = "program" /\ At(Here).lacks = "nothing")
      PROVE  LoadInv'
  <2>1. UNCHANGED lists /\ status' = "loading"
    BY <1>2, LoopPlaces DEF Skips
  <2>2. Places'
    BY <2>1, NextPlaces DEF LoadInv, Places, lists
  <2>3. Lists'
    <3>1. detect_type(file) = "program"
      BY DEF Loads
    <3>2. Here \notin Whole("program", "program")
            /\ Here \notin Whole("patch", "patch")
      BY <1>2, <3>1, LoopPlaces, HereWhole
    <3> QED
      BY <2>1, <3>2, LoopPlaces, SkipsElement DEF lists
  <2>4. UfsLists'
    BY <2>1, NoUfsElement DEF lists
  <2> QED
    BY <2>1, <2>2, <2>3, <2>4, LoopPlaces DEF LoadInv
<1>3. ASSUME At(Here).kind = "program", At(Here).lacks = "nothing",
             programs' = Append(programs, Here),
             UNCHANGED <<patches, common, units, epilogue, status>>
      PROVE  LoadInv'
  <2>1. detect_type(file) = "program"
    BY DEF Loads
  <2>2. programs' \in Seq(Positions)
    BY <1>3, LoopPlaces DEF Places
  <2>3. Places'
    BY <1>3, <2>2, LoopPlaces, NextPlaces DEF LoadInv, Places
  <2>4. Lists'
    <3>1. Here \in Whole("program", "program")
            /\ Here \notin Whole("patch", "patch")
      BY <1>3, <2>1, LoopPlaces, HereWhole
    <3>2. /\ Loaded("program", "program")'
               = Loaded("program", "program") \cup {Here}
          /\ Loaded("patch", "patch")' = Loaded("patch", "patch")
      BY <3>1, LoopPlaces, NextElement
    <3>3. IsListOf(Append(programs, Here),
                   Loaded("program", "program") \cup {Here})
      BY LoopPlaces, AppendHere DEF Lists, Places
    <3> QED
      BY <1>3, <3>2, <3>3, LoopPlaces DEF Lists
  <2>5. UfsLists'
    BY <1>3, NoUfsElement
  <2> QED
    BY <1>3, <2>3, <2>4, <2>5, LoopPlaces DEF LoadInv
<1> QED
  BY <1>1, <1>2, <1>3 DEF program_load

LEMMA PatchStep ==
  ASSUME LoadInv, patch_load
  PROVE  LoadInv'
<1> Loads("patch")
  BY DEF patch_load
<1>1. At(Here).kind = "patch" /\ At(Here).lacks \in {"number", "string"}
        /\ Ends("crashed")
        => LoadInv'
  BY LoaderEnds
<1>2. ASSUME Skips, At(Here).kind # "patch"
      PROVE  LoadInv'
  <2>1. UNCHANGED lists /\ status' = "loading"
    BY <1>2, LoopPlaces DEF Skips
  <2>2. Places'
    BY <2>1, NextPlaces DEF LoadInv, Places, lists
  <2>3. Lists'
    <3>1. detect_type(file) = "patch"
      BY DEF Loads
    <3>2. Here \notin Whole("program", "program")
            /\ Here \notin Whole("patch", "patch")
      BY <1>2, <3>1, LoopPlaces, HereWhole
    <3> QED
      BY <2>1, <3>2, LoopPlaces, SkipsElement DEF lists
  <2>4. UfsLists'
    BY <2>1, NoUfsElement DEF lists
  <2> QED
    BY <2>1, <2>2, <2>3, <2>4, LoopPlaces DEF LoadInv
<1>3. ASSUME At(Here).kind = "patch", At(Here).lacks = "nothing",
             patches' = Append(patches, Here),
             UNCHANGED <<programs, common, units, epilogue, status>>
      PROVE  LoadInv'
  <2>1. detect_type(file) = "patch"
    BY DEF Loads
  <2>2. patches' \in Seq(Positions)
    BY <1>3, LoopPlaces DEF Places
  <2>3. Places'
    BY <1>3, <2>2, LoopPlaces, NextPlaces DEF LoadInv, Places
  <2>4. Lists'
    <3>1. Here \in Whole("patch", "patch")
            /\ Here \notin Whole("program", "program")
      BY <1>3, <2>1, LoopPlaces, HereWhole
    <3>2. /\ Loaded("program", "program")' = Loaded("program", "program")
          /\ Loaded("patch", "patch")' = Loaded("patch", "patch") \cup {Here}
      BY <3>1, LoopPlaces, NextElement
    <3>3. IsListOf(Append(patches, Here), Loaded("patch", "patch") \cup {Here})
      BY LoopPlaces, AppendHere DEF Lists, Places
    <3> QED
      BY <1>3, <3>2, <3>3, LoopPlaces DEF Lists
  <2>5. UfsLists'
    BY <1>3, NoUfsElement
  <2> QED
    BY <1>3, <2>3, <2>4, <2>5, LoopPlaces DEF LoadInv
<1> QED
  BY <1>1, <1>2, <1>3 DEF patch_load

-----------------------------------------------------------------------------
(* An element of the one UFS file that is being read.                      *)
LEMMA UfsElement ==
  ASSUME LoadInv, Loads("ufs")
  PROVE  /\ UfsOpened = {file} /\ UfsFile(file)
         /\ file \in FilesOf("ufs")
         /\ element \in Kind(file, At(Here).kind)
         /\ \A k : Seen(file, k)' = IF At(Here).kind = k
                                    THEN Seen(file, k) \cup {element}
                                    ELSE Seen(file, k)
         /\ element \notin Seen(file, At(Here).kind)
         /\ Elements(file)[element] = At(Here)
<1>1. file \in UfsOpened /\ UfsLists /\ file \in 1..Len(args.files)
        /\ element \in 1..Len(Elements(file))
  BY LoopPlaces
<1>2. UfsOpened = {file} /\ UfsFile(file)
  BY <1>1 DEF UfsLists, UfsFile
<1>3. /\ element \in Kind(file, At(Here).kind)
      /\ Elements(file)[element] = At(Here)
  BY <1>1 DEF Kind, At, Here, Elements
<1>4. element \notin Seen(file, At(Here).kind)
  BY <1>1, FilesType, LoopPlaces DEF Seen, Scanned
<1>5. \A k : Seen(file, k)' = IF At(Here).kind = k
                              THEN Seen(file, k) \cup {element}
                              ELSE Seen(file, k)
  BY <1>1, LoopPlaces, NextElement
<1> QED
  BY <1>1, <1>2, <1>3, <1>4, <1>5 DEF UfsOpened

(* The UFS file after an element that was not refused.                     *)
LEMMA UfsElementTaken ==
  ASSUME LoadInv, Loads("ufs"), UNCHANGED <<programs, patches, status>>,
         units' \in Seq(Positions),
         At(Here).kind # "ufs",
         At(Here).kind \in {"common", "unit", "commit"} =>
            At(Here).lacks = "nothing",
         OnlyOne(common, file, "common")',
         OnlyOne(epilogue, file, "commit")',
         units' = <<>> <=> Seen(file, "unit")' = {}
  PROVE  LoadInv'
<1>1. Places'
  BY LoopPlaces, NextPlaces DEF LoadInv, Places
<1>2. Lists'
  <2>1. detect_type(file) = "ufs"
    BY DEF Loads
  <2>2. Here \notin Whole("program", "program")
          /\ Here \notin Whole("patch", "patch")
    BY <2>1, LoopPlaces, HereWhole
  <2> QED
    BY <2>2, LoopPlaces, SkipsElement
<1>3. UfsFile(file)'
  <2>1. UfsOpened' = {file}
    BY UfsElement, LoopPlaces
  <2>2. Seen(file, "ufs")' = {}
    BY UfsElement DEF UfsFile
  <2>3. \A k \in {"common", "unit", "commit"} : \A i \in Seen(file, k)' :
           Elements(file)'[i].lacks = "nothing"
    <3>1. Elements(file)' = Elements(file)
      BY LoopPlaces DEF Elements
    <3> QED
      BY <3>1, UfsElement DEF UfsFile
  <2>4. ~(file < file)'
    BY LoopPlaces DEF Places
  <2>5. file' = file
    BY LoopPlaces
  <2> QED
    BY <2>1, <2>2, <2>3, <2>4, <2>5 DEF UfsFile
<1>4. UfsLists'
  <2>1. UfsOpened' = {file} /\ file' = file
    BY UfsElement, LoopPlaces
  <2> QED
    BY <1>3, <2>1 DEF UfsLists
<1> QED
  BY <1>1, <1>2, <1>4, LoopPlaces DEF LoadInv

(* Two elements of a kind that may be there once.                          *)
LEMMA UfsTwice ==
  ASSUME LoadInv, Loads("ufs"), NEW descriptor, NEW k,
         OnlyOne(descriptor, file, k), descriptor # None,
         At(Here).kind = k
  PROVE  Cardinality(Kind(file, k)) # 1
<1>1. PICK i \in Seen(file, k) : descriptor = <<file, i>>
  BY DEF OnlyOne
<1>2. i \in Kind(file, k) /\ element \in Kind(file, k) /\ i # element
  BY UfsElement DEF Seen
<1> QED
  BY <1>2, LoopPlaces, KindCount

(* What ufs_load refuses at an element, the gate was meant to refuse.      *)
LEMMA UfsRefuses ==
  ASSUME LoadInv, Loads("ufs"), Ends("exited"), ~Provisionable(file)
  PROVE  LoadInv'
<1>1. ~Acceptable
  BY UfsElement DEF Acceptable
<1> QED
  BY <1>1, LoaderEnds

LEMMA CommonStep ==
  ASSUME LoadInv, ufs_load_common
  PROVE  LoadInv'
<1> Loads("ufs") /\ At(Here).kind = "common"
  BY DEF ufs_load_common
<1>1. ASSUME common = None, At(Here).lacks = "nothing", common' = Here,
             UNCHANGED <<programs, patches, units, epilogue, status>>
      PROVE  LoadInv'
  <2>1. OnlyOne(common, file, "common")'
    <3>1. Seen(file, "common") = {}
      BY <1>1, UfsElement, LoopPlaces, FilesType
         DEF UfsFile, OnlyOne, None, Places
    <3>2. Seen(file, "common")' = {element} /\ file' = file
      BY <3>1, UfsElement, LoopPlaces
    <3> QED
      BY <1>1, <3>2 DEF OnlyOne, Here
  <2>2. /\ OnlyOne(epilogue, file, "commit")'
        /\ units' = <<>> <=> Seen(file, "unit")' = {}
    BY <1>1, UfsElement, LoopPlaces DEF UfsFile, OnlyOne
  <2>3. units' \in Seq(Positions)
    BY <1>1, LoopPlaces DEF Places
  <2> QED
    BY <1>1, <2>1, <2>2, <2>3, UfsElementTaken
<1>2. ASSUME common # None, Ends("exited")
      PROVE  LoadInv'
  <2>1. Cardinality(Kind(file, "common")) # 1
    BY <1>2, UfsElement, UfsTwice DEF UfsFile
  <2> QED
    BY <1>2, <2>1, UfsRefuses DEF Provisionable
<1>3. ASSUME At(Here).lacks = "number", Ends("exited")
      PROVE  LoadInv'
  <2>1. ~Provisionable(file)
    BY <1>3, UfsElement DEF Provisionable
  <2> QED
    BY <1>3, <2>1, UfsRefuses
<1> QED
  BY <1>1, <1>2, <1>3 DEF ufs_load_common

LEMMA UnitStep ==
  ASSUME LoadInv, ufs_load_unit
  PROVE  LoadInv'
<1> Loads("ufs") /\ At(Here).kind = "unit"
  BY DEF ufs_load_unit
<1>1. ASSUME At(Here).lacks = "nothing", units' = Append(units, Here),
             UNCHANGED <<programs, patches, common, epilogue, status>>
      PROVE  LoadInv'
  <2>1. units' \in Seq(Positions) /\ units' # <<>>
    <3>1. units \in Seq(Positions) /\ Here \in Positions
      BY LoopPlaces DEF Places
    <3> QED
      BY <1>1, <3>1
  <2>2. Seen(file, "unit")' # {} /\ file' = file
    BY UfsElement, LoopPlaces
  <2>3. /\ OnlyOne(common, file, "common")'
        /\ OnlyOne(epilogue, file, "commit")'
    BY <1>1, UfsElement, LoopPlaces DEF UfsFile, OnlyOne
  <2> QED
    BY <1>1, <2>1, <2>2, <2>3, UfsElementTaken
<1>2. ASSUME At(Here).lacks = "number", Ends("exited")
      PROVE  LoadInv'
  <2>1. ~Provisionable(file)
    BY <1>2, UfsElement DEF Provisionable
  <2> QED
    BY <1>2, <2>1, UfsRefuses
<1>3. ASSUME Ends("crashed") PROVE LoadInv'
  BY <1>3, LoaderEnds
<1> QED
  BY <1>1, <1>2, <1>3 DEF ufs_load_unit

LEMMA CommitStep ==
  ASSUME LoadInv, ufs_load_commit
  PROVE  LoadInv'
<1> Loads("ufs") /\ At(Here).kind = "commit"
  BY DEF ufs_load_commit
<1>1. ASSUME epilogue = None, At(Here).lacks = "nothing", epilogue' = Here,
             UNCHANGED <<programs, patches, common, units, status>>
      PROVE  LoadInv'
  <2>1. OnlyOne(epilogue, file, "commit")'
    <3>1. Seen(file, "commit") = {}
      BY <1>1, UfsElement, LoopPlaces, FilesType
         DEF UfsFile, OnlyOne, None, Places
    <3>2. Seen(file, "commit")' = {element} /\ file' = file
      BY <3>1, UfsElement, LoopPlaces
    <3> QED
      BY <1>1, <3>2 DEF OnlyOne, Here
  <2>2. /\ OnlyOne(common, file, "common")'
        /\ units' = <<>> <=> Seen(file, "unit")' = {}
    BY <1>1, UfsElement, LoopPlaces DEF UfsFile, OnlyOne
  <2>3. units' \in Seq(Positions)
    BY <1>1, LoopPlaces DEF Places
  <2> QED
    BY <1>1, <2>1, <2>2, <2>3, UfsElementTaken
<1>2. ASSUME epilogue # None, Ends("exited")
      PROVE  LoadInv'
  <2>1. Cardinality(Kind(file, "commit")) # 1
    BY <1>2, UfsElement, UfsTwice DEF UfsFile
  <2> QED
    BY <1>2, <2>1, UfsRefuses DEF Provisionable
<1>3. ASSUME At(Here).lacks = "number", Ends("exited")
      PROVE  LoadInv'
  <2>1. ~Provisionable(file)
    BY <1>3, UfsElement DEF Provisionable
  <2> QED
    BY <1>3, <2>1, UfsRefuses
<1> QED
  BY <1>1, <1>2, <1>3 DEF ufs_load_commit

LEMMA OtherStep ==
  ASSUME LoadInv, ufs_load_other
  PROVE  LoadInv'
<1> Loads("ufs") /\ At(Here).kind \notin {"common", "unit", "commit"}
  BY DEF ufs_load_other
<1>1. CASE At(Here).kind = "ufs"
  <2>1. ~Provisionable(file)
    BY <1>1, UfsElement DEF Provisionable
  <2> QED
    BY <1>1, <2>1, UfsRefuses DEF ufs_load_other
<1>2. CASE At(Here).kind # "ufs"
  <2>1. UNCHANGED <<lists, status>>
    BY <1>2 DEF ufs_load_other, Skips
  <2>2. /\ OnlyOne(common, file, "common")'
        /\ OnlyOne(epilogue, file, "commit")'
        /\ units' = <<>> <=> Seen(file, "unit")' = {}
    BY <2>1, UfsElement, LoopPlaces DEF UfsFile, OnlyOne, lists
  <2>3. units' \in Seq(Positions)
    BY <2>1, LoopPlaces DEF Places, lists
  <2> QED
    BY <1>2, <2>1, <2>2, <2>3, UfsElementTaken DEF lists
<1> QED
  BY <1>1, <1>2

-----------------------------------------------------------------------------
(* Opening a file.  A second UFS file finds the descriptor of the first.   *)
LEMMA OpenStep ==
  ASSUME LoadInv, open_file
  PROVE  LoadInv'
<1>1. /\ status = "loading" /\ file <= Len(args.files) /\ element = 0
      /\ UNCHANGED <<args, file, lists>>
      /\ Places /\ Lists /\ UfsLists
      /\ file \in 1..Len(args.files)
  BY FilesType DEF open_file, LoadInv, Going, Places
<1>2. file \notin Opened
  BY <1>1 DEF Opened
<1>3. \A f \in UfsOpened : f < file /\ f \in FilesOf("ufs")
  BY <1>1, <1>2 DEF UfsOpened, Opened
<1>4. CASE status' = "exited" /\ UNCHANGED element
  <2>1. ~Acceptable
    <3>1. CASE detect_type(file) = "unknown"
      BY <3>1, <1>1 DEF FilesOf, Acceptable
    <3>2. CASE detect_type(file) = "ufs" /\ common # None
      <4>1. PICK f \in UfsOpened : TRUE
        BY <3>2, <1>1 DEF UfsLists
      <4>2. file \in FilesOf("ufs") /\ f \in FilesOf("ufs") /\ f # file
        BY <3>2, <4>1, <1>1, <1>3 DEF FilesOf
      <4> QED
        BY <4>2, <1>1, FilesCount DEF Acceptable
    <3> QED
      BY <3>1, <3>2, <1>1, <1>4 DEF open_file
  <2>2. Places'
    BY <1>1, <1>4, TypesStay DEF Places, lists
  <2>3. Opened' = Opened /\ Acceptable' = Acceptable
    BY <1>1, <1>4, SetsStay DEF Opened
  <2> QED
    BY <2>1, <2>2, <2>3, <1>1, <1>4, TypesStay DEF LoadInv, Going
<1>5. CASE /\ detect_type(file) # "unknown"
           /\ ~(detect_type(file) = "ufs" /\ common # None)
           /\ element' = 1 /\ UNCHANGED status
  <2>1. /\ \A type, k : Loaded(type, k)' = Loaded(type, k)
        /\ \A f \in 1..Len(args.files) : \A k : Seen(f, k)' = Seen(f, k)
        /\ Opened' = Opened \cup {file}
        /\ \A k : Seen(file, k) = {}
    BY <1>1, <1>5, OpensFile
  <2>2. Places'
    <3>1. Elements(file)' = Elements(file) /\ Len(Elements(file)) \in Nat
      BY <1>1, FilesType DEF Elements
    <3> QED
      BY <3>1, <1>1, <1>5 DEF Places, lists
  <2>3. \A f \in Opened' : detect_type(f)' # "unknown"
    BY <2>1, <1>1, <1>5, TypesStay DEF LoadInv
  <2>4. Lists'
    BY <2>1, <1>1 DEF Lists, lists
  <2>5. UfsLists'
    <3>1. CASE detect_type(file) = "ufs"
      <4>1. UfsOpened = {}
        BY <3>1, <1>1, <1>3, <1>5 DEF UfsLists, UfsFile, ufs_load_gate
      <4>2. UfsOpened' = {file}
        BY <3>1, <4>1, <2>1, <1>1, SetsStay DEF UfsOpened, FilesOf
      <4>3. common' = None /\ units' = <<>> /\ epilogue' = None
        BY <4>1, <1>1 DEF UfsLists, lists
      <4>4. \A k : Seen(file, k)' = {}
        BY <2>1, <1>1
      <4>5. file' = file /\ ~(file < file)
        BY <1>1 DEF Places
      <4>6. UfsFile(file)'
        BY <4>2, <4>3, <4>4, <4>5 DEF UfsFile, OnlyOne
      <4> QED
        BY <4>2, <4>5, <4>6 DEF UfsLists
    <3>2. CASE detect_type(file) # "ufs"
      <4>1. UfsOpened' = UfsOpened
        BY <3>2, <2>1, <1>1, SetsStay DEF UfsOpened, FilesOf
      <4>2. \A f \in UfsOpened : \A k : Seen(f, k)' = Seen(f, k)
        BY <2>1 DEF UfsOpened, Opened
      <4> QED
        BY <4>1, <4>2, <1>1, <1>3, UfsUntouched DEF lists
    <3> QED
      BY <3>1, <3>2
  <2> QED
    BY <2>2, <2>3, <2>4, <2>5, <1>1, <1>5 DEF LoadInv
<1> QED
  BY <1>4, <1>5 DEF open_file

(* Leaving it.  The gate lets pass what it was meant to.                   *)
LEMMA GateRefuses ==
  ASSUME Places, UfsFile(file), file \in 1..Len(args.files),
         element > Len(Elements(file)), ~ufs_load_gate
  PROVE  ~Provisionable(file)
<1> SUFFICES ASSUME Provisionable(file) PROVE FALSE
  OBVIOUS
<1>1. \A k : Seen(file, k) = Kind(file, k)
  BY FilesType DEF Seen, Scanned, Kind, Places
<1>2. PICK i : Kind(file, "common") = {i}
  BY KindCount DEF Provisionable
<1>3. common = <<file, i>>
  BY <1>1, <1>2 DEF UfsFile, OnlyOne
<1>4. PICK j : Kind(file, "commit") = {j}
  BY KindCount DEF Provisionable
<1>5. epilogue = <<file, j>>
  BY <1>1, <1>4 DEF UfsFile, OnlyOne
<1>6. units # <<>>
  BY <1>1 DEF UfsFile, Provisionable
<1>7. args.finalize = At(common).lock
  BY <1>2, <1>3 DEF Provisionable, At, Elements
<1>8. common # None /\ epilogue # None
  BY <1>3, <1>5 DEF None
<1> QED
  BY <1>6, <1>7, <1>8 DEF ufs_load_gate

LEMMA CloseStep ==
  ASSUME LoadInv, close_file
  PROVE  LoadInv'
<1>1. /\ status = "loading" /\ file <= Len(args.files)
      /\ element > Len(Elements(file))
      /\ UNCHANGED <<args, lists>>
      /\ Places /\ Lists /\ UfsLists
      /\ file \in 1..Len(args.files)
  BY FilesType DEF close_file, LoadInv, Going, Places
<1>2. file \in Opened
  BY <1>1, FilesType DEF Opened, Places
<1>3. detect_type(file) = "ufs" =>
        file \in UfsOpened /\ file \in FilesOf("ufs")
  BY <1>1, <1>2 DEF UfsOpened, FilesOf
<1>4. CASE /\ detect_type(file) = "ufs" /\ ~ufs_load_gate
           /\ status' = "exited" /\ UNCHANGED <<file, element>>
  <2>1. ~Provisionable(file)
    BY <1>1, <1>3, <1>4, GateRefuses DEF UfsLists
  <2>2. ~Acceptable
    BY <2>1, <1>3, <1>4 DEF Acceptable
  <2>3. Places'
    BY <1>1, <1>4, TypesStay DEF Places, lists
  <2>4. Opened' = Opened /\ Acceptable' = Acceptable
    BY <1>1, <1>4, SetsStay DEF Opened
  <2> QED
    BY <2>2, <2>3, <2>4, <1>1, <1>4, TypesStay DEF LoadInv, Going
<1>5. CASE /\ detect_type(file) = "ufs" => ufs_load_gate
           /\ file' = file + 1 /\ element' = 0 /\ UNCHANGED status
  <2>1. /\ \A type, k : Loaded(type, k)' = Loaded(type, k)
        /\ \A f \in 1..Len(args.files) : \A k : Seen(f, k)' = Seen(f, k)
        /\ Opened' = Opened
    BY <1>1, <1>5, LeavesFile
  <2>2. Places'
    <3>1. \A f \in 1..Len(args.files) :
             Elements(f)' = Elements(f) /\ Len(Elements(f)) \in Nat
      BY <1>1, FilesType, TypesStay
    <3>2. file' \in 1..(Len(args.files) + 1)
      BY <1>1, <1>5, FilesType
    <3> QED
      BY <3>1, <3>2, <1>1, <1>5, FilesType DEF Places, lists
  <2>3. \A f \in Opened' : detect_type(f)' # "unknown"
    BY <2>1, <1>1, TypesStay DEF LoadInv
  <2>4. Lists'
    BY <2>1, <1>1 DEF Lists, lists
  <2>5. UfsLists'
    <3>1. UfsOpened' = UfsOpened
      BY <2>1, <1>1, SetsStay DEF UfsOpened
    <3>2. \A f \in UfsOpened : \A k : Seen(f, k)' = Seen(f, k)
      BY <2>1 DEF UfsOpened, Opened
    <3>3. \A f \in UfsOpened : f < file' => f < file \/ ufs_load_gate
      BY <1>1, <1>5, FilesType DEF UfsOpened, FilesOf
    <3> QED
      BY <3>1, <3>2, <3>3, <1>1, UfsUntouched DEF lists
  <2> QED
    BY <2>2, <2>3, <2>4, <2>5, <1>1, <1>5 DEF LoadInv
<1> QED
  BY <1>4, <1>5 DEF close_file

(* Neither the lists nor the place in the command line change any more.    *)
LEMMA AfterLoading ==
  ASSUME LoadInv, UNCHANGED <<args, file, element, lists>>,
         \/ UNCHANGED status
         \/ firehose_run
  PROVE  LoadInv'
<1>1. /\ \A type, k : Whole(type, k)' = Whole(type, k)
      /\ \A f, k : Kind(f, k)' = Kind(f, k)
      /\ \A type : FilesOf(type)' = FilesOf(type)
      /\ Acceptable' = Acceptable
      /\ \A f : detect_type(f)' = detect_type(f)
  BY SetsStay, TypesStay
<1>2. Opened' = Opened /\ UfsOpened' = UfsOpened
  BY <1>1 DEF Opened, UfsOpened
<1>3. \A type, k : Loaded(type, k)' = Loaded(type, k)
  BY <1>1 DEF Loaded, Scanned
<1>4. \A f, k : Seen(f, k)' = Seen(f, k)
  BY <1>1 DEF Seen, Scanned
<1>5. /\ status' \in {"loading", "exited", "crashed", "flashing",
                      "provisioning"}
      /\ Going' => Going
      /\ status' = "exited" => status = "exited"
      /\ status' \in {"flashing", "provisioning"} => file > Len(args.files)
      /\ status' = "flashing" => epilogue = None
      /\ status' = "provisioning" => epilogue # None
  BY DEF LoadInv, Going, Places, firehose_run
<1>6. Places'
  BY <1>5, TypesStay DEF LoadInv, Places, lists
<1>7. Going => Lists'
  BY <1>3 DEF LoadInv, Lists, lists
<1>8. Going => UfsLists'
  <2>1. \A f \in UfsOpened : f < file' => f < file
    OBVIOUS
  <2> QED
    BY <1>2, <1>4, <2>1, UfsUntouched DEF LoadInv, lists
<1> QED
  BY <1>1, <1>2, <1>5, <1>6, <1>7, <1>8 DEF LoadInv, lists

LEMMA LoadSteps == LoadInv /\ [Next]_vars => LoadInv'
<1> SUFFICES ASSUME LoadInv, [Next]_vars PROVE LoadInv'
  OBVIOUS
<1>1. open_file \/ close_file => LoadInv'
  BY OpenStep, CloseStep
<1>2. program_load \/ patch_load => LoadInv'
  BY ProgramStep, PatchStep
<1>3. ufs_load_common \/ ufs_load_unit \/ ufs_load_commit \/ ufs_load_other
        => LoadInv'
  BY CommonStep, UnitStep, CommitStep, OtherStep
<1>4. firehose_run => LoadInv'
  BY AfterLoading DEF firehose_run
<1>5. firehose_apply_ufs_common => LoadInv'
  BY AfterLoading DEF firehose_apply_ufs_common
<1>6. UNCHANGED vars => LoadInv'
  BY AfterLoading DEF vars
<1> QED
  BY <1>1, <1>2, <1>3, <1>4, <1>5, <1>6 DEF Next, Stopped

LEMMA LoadInvariant == Spec => []LoadInv
<1> QED
  BY LoadStarts, LoadSteps, PTL DEF Spec

-----------------------------------------------------------------------------
(* What is going to be flashed is every complete program and patch of the  *)
(* command line, once and in its order: whatever the files, their types    *)
(* and the elements between and after them that lack something.            *)
THEOREM LoadedAsGiven == Spec => []LoadedInOrder
<1>1. LoadInv => LoadedInOrder
  <2> SUFFICES ASSUME LoadInv, status = "flashing"
               PROVE  /\ IsListOf(programs, Whole("program", "program"))
                      /\ IsListOf(patches, Whole("patch", "patch"))
    BY DEF LoadedInOrder
  <2>1. Places /\ Lists /\ file > Len(args.files)
    BY DEF LoadInv, Going
  <2>2. \A type, k : \A p \in Whole(type, k) : Scanned(p)
    BY <2>1, WholePositions, FilesType DEF Scanned, Places
  <2>3. \A type, k : Loaded(type, k) = Whole(type, k)
    BY <2>2 DEF Loaded
  <2> QED
    BY <2>1, <2>3 DEF Lists
<1> QED
  BY <1>1, LoadInvariant, PTL

(* The checks that qdl makes one at a time, at the file, at the element    *)
(* and at the end of the file, add up to the gate: it goes on to the       *)
(* device with an acceptable command line and gives up on no other, and it *)
(* provisions exactly when a UFS file was given.                           *)
THEOREM GateHolds == Spec => []GateExact
<1>1. LoadInv => GateExact
  <2> SUFFICES ASSUME LoadInv PROVE GateExact
    OBVIOUS
  <2>1. ASSUME status \in {"flashing", "provisioning"}
        PROVE  /\ Acceptable
               /\ FilesOf("ufs") = {} <=> epilogue = None
    <3>1. Places /\ UfsLists /\ file > Len(args.files)
      BY <2>1 DEF LoadInv, Going
    <3>2. Opened = 1..Len(args.files)
      BY <3>1, FilesType DEF Opened, Places
    <3>3. UfsOpened = FilesOf("ufs")
      BY <3>2 DEF UfsOpened, FilesOf
    <3>4. \A f \in UfsOpened : f < file /\ f \in 1..Len(args.files)
      BY <3>1, <3>2, FilesType DEF UfsOpened, Places
    <3>5. FilesOf("unknown") = {}
      BY <3>2 DEF LoadInv, FilesOf
    <3>6. \A f, g \in FilesOf("ufs") : f = g
      BY <3>1, <3>3 DEF UfsLists, UfsFile
    <3>7. \A f \in FilesOf("ufs") : Provisionable(f)
      BY <3>1, <3>3, <3>4, PassedGate
    <3>8. FilesOf("ufs") # {} => epilogue # None
      BY <3>1, <3>3, <3>4 DEF UfsLists, UfsFile, ufs_load_gate
    <3> QED
      BY <3>1, <3>3, <3>5, <3>6, <3>7, <3>8, FilesCount
         DEF Acceptable, UfsLists
  <2> QED
    BY <2>1 DEF LoadInv, GateExact
<1> QED
  BY <1>1, LoadInvariant, PTL
=============================================================================
