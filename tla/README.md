# Formal models of the NEOS builder

This directory holds TLA+ models of the programs in this repository that make
decisions at run time, the TLC configurations that check them on small
instances, and proofs, checked by TLAPS, that hold for every value of the
constants.  Paths below are relative to the repository; `qdl/` stands for
`devices/cici/bootloader/qdl/`.

    tlc -config MCFirehose.cfg MCFirehose.tla     # one run
    tlapm FirehoseProofs.tla                      # one proof module

`PROJECT.json` lists the components, the runs with what each shows, the source
lines of every definition, one deliberately broken variant per property (the
"mutants", defined next to the definition they break), the hazards and the
theorems.

## 1. The system

The repository builds, signs, publishes and flashes the operating system of two
devices (EON and tici) and contains the few programs that run on them besides
Android.  Its own logic is in these components; `ELFIO/` stands for
`devices/cici/bootloader/signlk/signer/ELFIO/elfio/`, the library its signer is
built on and compiled from.

| component | where | state | operations | interacts with |
|---|---|---|---|---|
| **Firehose session** | `qdl/firehose.c`, `program.c`, `patch.c`, `ufs.c` | step, list position, payload size, sectors left; the programmer's raw mode | nop, configure (twice), program, raw data, patch, UFS tags in a dry and a real pass, boot switch, reset | the programmer, over a tty; the lists the loaders made |
| **raw data** | `firehose_program` | file position, chunk buffer, sectors left | read, pad, write one chunk | the image file, the tty |
| **Sahara upload** | `qdl/sahara.c`, `qdl.c` | process, packets on the line; the boot ROM's progress | open, hello, read, end of image, done, hand-over | the boot ROM; then the Firehose session |
| **command line and loaders** | `qdl/qdl.c`, `program.c`, `patch.c`, `ufs.c` | lists of programs and patches, one descriptor, units, one closing tag | detect the type, load, gate on locking | what the session sends |
| debugging output | `qdl/util.c` | none | hex dump | |
| **EON boot supervisor** | `devices/eon/ramdisk_common/comma.sh`, `init.comma.rc` | `/runonce`, the key pair, the ssh keys, `continue.sh`, the installer | once per boot: make a key pair, set or clear setup keys, ask for and run an installer, hand over | init, the setup app, the installer, sshd; the power supply |
| EON services | `comma.ssh.sh`, `comma.usb.sh`, `comma.eth0.sh` | init properties | start and stop sshd; set up USB and Ethernet once | init |
| EON updates | `devices/eon/prepare_ota.sh`, `ota_push_*.sh`, `README.md`, `build_usr/download.py` | images built, `neosupdate/`, the json files, two buckets, what updaters are given; the files and the link downloaded | prepare, push to staging, test, push to production, ship, download for the next image | builds; the updater on devices |
| EON `/usr` builder | `devices/eon/build_usr/install.py`, `finish.sh` | package index, installed set | resolve, download, unpack | package server |
| toolchain cache | `tools/extract_toolchains.sh` | directories and their times | compare, remove, extract | pulls of the repository; the builds |
| build and flash scripts | `devices/*/build_*.sh`, `flash*.sh`, `run_ci.sh` | none of their own | call compilers and image tools | fastboot |
| image signing | `signlk/signer/signlk.cpp`, `signlk/signlk.sh` | the image read and the one written, segment files, header in front of the hashes | copy segments, add two, export, hash, put together; sign again | ELFIO; openssl |
| ELFIO: layout | `ELFIO/elfio.hpp`, `elfio_section.hpp`, `elfio_segment.hpp`, `elfio_header.hpp` | header, sections, segments, file position | create, load, add, append, order, lay out, save | streams; signer, tests, examples |
| ELFIO: tables | `ELFIO/elfio_symbols.hpp` and the accessors beside it, `elfio_dump.hpp` | the data of a section and its buffer | add and read strings, symbols, relocations, dynamic entries, notes; dump | files of both classes and byte orders |
| dump conversion | `qdl`'s input: `prebuilt/fetch_from_dumps.py` | a template and partition tables | join them | the loaders |
| vendored parts | `devices/tici`, `tools` binaries, stock init files | | | |

### What is hard about each, and what makes it correct

* **Firehose session.**  Two machines and a byte stream.  The programmer logs
  whenever it likes, answers may be coalesced with logs into one read, and the
  stream changes between XML and raw data on a count both sides keep for
  themselves.  Correct means: nothing is sent before everything it depends on
  was carried out (a boot switch after a failed image bricks the device, a UFS
  pass that cannot be undone must follow a dry run that was accepted); raw mode
  is never misjudged; chunks fit what the programmer agreed to; the result that
  is reported can be believed; the session ends.
* **Raw data.**  Rounding to sectors, cutting at the partition's end, a last
  chunk that is short, a payload size named by the other side.  Correct means
  that the storage holds the file byte by byte and zeros behind it.
* **Sahara upload.**  No timeout, no retry, no sequence numbers, and a user who
  interrupts qdl, starts it again and unplugs the device.  Correct means that
  whatever number of processes took part, the programmer that is started is
  whole, that no Firehose document reaches a boot ROM, and that both sides wait
  for each other in no other situation than the unavoidable ones.
* **Loaders.**  What was parsed stays in globals across elements and files;
  some entries are skipped, some end the process.  Correct means that exactly
  the complete entries are loaded, in order, and that provisioning is let
  through exactly when there is one whole file with the lock that was asked for.
* **Boot supervisor.**  Power may go between any two commands and everything is
  decided on the existence of files.  Correct means: the key pair matches and
  is never exchanged after it was used; the setup key is there in setup and
  gone after it; only what a successful installer left is executed; once.
* **Updates and toolchains.**  People prepare, test, push and build in separate
  commands, from the same directories, and any of them may be interrupted.
  Correct means that devices are only ever told of files that are uploaded and
  were tested, that a download is used only when it is whole, and that no build
  runs with half a toolchain or an old one.
* **Signing.**  A layout that the program chooses, a hash table that a script
  fills at an offset of its own, pointers computed from constants, and segment
  files that carry the only numbering the two share.  Correct means that every
  segment is kept and has its hash, and that the pointers lead to the table and
  the signature.
* **ELF layout.**  Segments that share sections or lie within each other, an
  order in which to place them, unsigned arithmetic on positions.  Correct means
  that nothing overlaps and that load after save gives the same object.
* **ELF tables.**  Two classes and two byte orders through one code path, a hash
  table that somebody else made, buffers that grow, and counters of 16 bits.
  Correct means that what was added is read back, by index and by name.

## 2. How the project is split

Most important behaviour first:

| module | models | proofs |
|---|---|---|
| `FirehoseLink`, `Firehose` | the session and its line | `FirehoseProofs` |
| `FlashJob` | what a session promises; `FirehoseJob` has the refinement mapping | `FirehoseProofs` |
| `FlashImage` | raw data, byte by byte | `FlashImageProofs` |
| `Sahara` | the upload | `SaharaProofs` |
| `QdlLoad` | loaders and gate | `QdlLoadProofs` |
| `CommaBoot` | boot supervisor | `CommaBootProofs` |
| `Toolchains`, `UsrBase`, `OtaPublish` over `Bounded`, composed in `Release` | toolchain cache, download, preparation and pushes, and builds beside all of them | `ReleaseProofs` |
| `ElfTypes`, `ElfObject`, `ElfLayout`, `ElfWriters`, and on top of them `SignLk` | the ELF library's load, layout and save; the signer | `SignLkProofs` |
| `ElfTypes`, `ElfTables` | the tables in sections, and the dump | `ElfTablesProofs` |
| `ElfBuffer`, `ElfSections` | the buffer behind one section's data; a program that fills one, or works on tables | `ElfTablesProofs` |

Composition.  `Firehose` EXTENDS `FirehoseLink`, the module of the line, as
`firehose_run` is written on top of `firehose_read` and `firehose_write`.
`Sahara` ends where `Firehose` begins (`proc = "firehose"` and the first
document), `QdlLoad` ends with the lists `Firehose` takes as its `plan`, and
`FlashImage` unfolds the one action of `Firehose` that writes a chunk.  They are
joined at these interfaces and not run as one machine, as in the code: each
phase starts after the one before it has returned.  `Release` is different: its
parts are commands that people run at the same time, so it runs them as one
machine; what they share is the images built, the directories and the buckets.
`SignLk` runs `ElfLayout`'s `save()` as part of its own steps.

## 3. Modules and code

### FirehoseLink and Firehose

`FirehoseLink` has the two directions of the tty: `toDevice`, documents and
chunks; `toHost`, messages, each a log line or a response.  `firehose_read`
takes a batch of messages off the line, because one `read()` may return several;
the response that decides is the last one of the batch, and the loop goes on
until there is one.  It may also fail: `ReadFails` is the `read()` or `poll()`
that returns an error, where the loop is left with the value of `firehose_wait`
(`firehose.c:141`), `ReadGarbled` a document that cannot be parsed.  Both are
bounded by `MaxFaults`.  What an earlier session left unread is on the line at the
start (`Leftovers`); the draining loop has to take it off, or it would answer the
first command.

`Firehose` has one pair of actions for each document the host sends: `Request`,
the write, and `Answer`, the read and what is decided on it, so that the target
and the cable interleave with every step.  `pc` is the function the host is in.
`firehose_program` is four steps: the command (`firehose_program`), its answer
(`firehose_program_setup`), the chunks (`firehose_program_data`) and the answer
after the data (`firehose_program_finish`).  An empty image has no sectors: the
loop is skipped and the answer waited for (`firehose_program_empty`).  A
`fstat`, `malloc` or `read` of the image that fails ends the process with the
target in raw mode (`ImageFails`).  The UFS branch is the step `tag` with `item`
and `commit`.  The `Target...` actions are the programmer: it takes what is
first on the line, in raw mode counts sectors, and accepts or refuses as it
likes.  It is external; what it does is what the host's code relies on.  Of an
image of no sectors it is assumed that the command is accepted, or refused, and
nothing else said.  `Spin` has the loops that get nowhere: on a device that is
gone, over chunks of no sectors (`NoChunk`), and the wait for the second answer
to an empty image (`NoAnswer`).  The last two are `Stuck`: `Terminates` says
that a session comes to an end or to one of them, unless the cable is pulled or
a read fails, and that only the end of the process leads out of them.

A programme list entry is its sector size, file size, partition size, whether
it can be opened, and whether its label is one of the boot labels.  Document
texts, attributes and start sectors are left out: no decision depends on them.
Two kinds of entry are excluded because they end the process by a signal: a sector
size of 0 (`firehose.c:343` divides by it) and an empty label, which is kept as NULL
and compared (`program.c:193`).  A `write()` that takes a part of a
chunk ends the process with an error (`firehose.c:398`) and is left out.

### FlashJob and FirehoseJob

`FlashJob` is what whoever starts qdl relies on, in four ideas: a job is a set
of items with what each needs; an item is begun when all it needs is carried
out, and one at a time; a refusal is the last thing that happens; a success
means the whole job.  `FirehoseJob` maps a session to it.  An item is an image
that can be opened, a patch for the disk, or a UFS tag in one of the two passes;
it is under way from the time its document is on the line, and an image until
its last sector has been taken; an empty one is under way no longer when the
target has accepted its command, and is never carried out (`Lose`, as when the
cable is pulled).  The abstract module knows nothing of lines, documents, logs,
payload sizes and chunks: `FirehoseJob!IsFlashJob` says none of them can be
noticed.  The promise ends with the first read that fails, `trusted <-
~faulted`, because section 6 (1) shows that it does.

### FlashImage

The chunk loop of `firehose_program` with the bytes: `buf`, the file position,
the storage.  `FillBuffer` keeps in the buffer what a short read does not
overwrite and then clears the rest, as the code does.  The seek is unsigned
arithmetic: it wraps at `Word`, 2^32 in the program.

### Sahara

`find_qdl_tty` and `tty_open` (with the `tcflush` that may drop a packet), one
action for each packet `sahara_run` handles, its error paths, and the hand-over
in `main`.  A short read of the programmer file returns `-errno` with an errno
nobody has set: the process ends or goes on, and the model has both.  The calls
of `tty_open` may fail and end the process, before or after the `tcflush`, and
a `read()` of the line may return two packets or a part of one
(`LengthMismatch`, `ShortRead`).  The boot ROM is external: it says hello, asks
for chunks in any order, refuses a bad image, and never repeats itself.
`Killed` and the actions after it are a user who interrupts qdl and starts it
again; `Unplug` and `Replug` the device.  `flushed`, `unserved` and `abandoned`
are history: what has been lost of this device, and whether the process was
killed that had been told that the programmer runs.  They are what `Dead` is
made of, the cases in which nothing but replugging helps: `NobodyWaits` says
that the two sides wait for each other in exactly these, and `Completes` that
every process, the first or one that goes on after a kill, gets to Firehose
in all others.

### QdlLoad

The loop of `main` over the files, element by element: `program_load`,
`patch_load`, `ufs_load` with its globals, and the gate at its end.  An element
is its kind and what it lacks: a number, a string, a flag or nothing.  A lacking
string ends some loaders in a crash (`strdup(NULL)`), which is `crashed`.
`firehose_apply_ufs_common` is included for the one value it sends that was the
subject of the gate.

### CommaBoot

`pc` is the command of `comma.sh` that comes next; every command that changes a
file is an action, because the power may go before and after it.  `persist` and
`data` are the two file systems as programs see them; `persistLog` and
`dataLog` hold every state since the last `sync`.  A power loss picks one of
these (metadata is journalled in order) and may tear the content of any file
that was written since.  `sync` empties the choice.  `chain_fails` is a failing
command in the `&&` chain, `copy_fails` a failing `cp`, `asking_fails` an `am
start` that fails: the script then waits for a file nobody was asked for, which
`SetupEnds` names as the other way for a boot to end (`Unasked`).  Android may
come up again, and start the script once more, while the first one is anywhere,
up to the software it has handed over to (`ZygoteRestarts`, `again`); the second
script ends at the mark (`ran_before`).  The setup app, the
installer, `continue.sh` and the user are external: asked once, the app leaves
one file; an installer writes `continue.sh` or not and ends with a status that
fits or not.  What `comma.sh` does to CPU sets, routes, LEDs and `AthenadPid` is
left out: none of it is read here.

### Bounded, Toolchains, UsrBase, OtaPublish, Release

`Toolchains` is `extract_toolchains.sh`.  The test `-nt` compares two times; what
the code can see of times is whether a directory is older than its tarball and
whether it is older than the script, so these two bits are the model's times.  A
pull sets them; removal and extraction clear them.  That `tar` does not set the
directory's own time back is assumed of the archives.  `interrupted` leaves a
part of a directory, with the time of the last change in it -- or the old time
if `rm` had only come to what lies deeper.

`OtaPublish` has the two scripts that a release consists of, one action per
command that reads or writes a file shared with somebody else.  A hash is the
content it is of, so that a recovery image under a wrong name is a function that
is not the identity somewhere.  `azcopy` does not overwrite a file that is there,
since the scripts call it with `--overwrite=false`.

`UsrBase` is `download.py` for the OTA: the link that is followed, `curl` whose
status nobody looks at, the check of the hash, removal and making of the link,
either of which may fail unnoticed (`LinkFails`).  The link then leads nowhere
or to an older image, but always to a whole one: that is what `BaseIsWhole` has
to say of this case, and `unlinked` remembers that it occurred.

`Release` runs them beside the builds (`make_x_image`, `build_system`) and the
steps of the README's procedure, `rpc` being the last one taken.  Shipping is
`update_json`: from then on that pair of hashes is what updaters, and the next
build's download, ask for.  The first release exists at the start.

### ElfTypes, ElfObject, ElfLayout, ElfWriters

`ElfTypes` has the widths of the fields for both classes, the structures as
lists of fields, the packing macros and the byte order convertor.  The number of
values of a byte is the constant `ByteBase`: 256 in the code.  `Limit(w)` is the
number of values of a field of `w` bytes; the byte order is turned round in
halves, 8 bytes out of twice 4 and those out of twice 2.

`ElfObject` is an object in memory.  Bytes are not modelled one by one: a content
is a set of extents, each naming a piece of a thing, its position and length, and
`Read` and `Overwrite` cut and move extents.  That is enough to say that a
section holds its data, all of it, at its place, and nothing else.

`ElfLayout` is `save()`: one action looks at one segment and brings it to the
front if it is at offset 0, one orders a segment behind those that contain it, and
then one action lays out one section of one segment, as the code's two loops do,
one a loose section, one the section table; the last one writes.  Subtractions of
positions are unsigned in the code; a negative number stands for its residue.
`Saveable` is what `save()` takes for granted of the object.

`ElfWriters` has the objects that the library's examples and its tests' writers
make, as operators; `MCSignLk` feeds them to `save()`, and to `load()` again.

### SignLk

`main` of `signlk.cpp`: load, the address behind the highest segment, the two
segments in front, one action per segment copied, the segment of the headers,
`save()` as in `ElfLayout`; then `signlk.sh`: the segment files found in the
temporary directory, in the order of their names, make the table, which is
written over the image at the script's offset.  Without a segment file the script
fails (`no_segment_files`).  The directory may hold files of
an earlier run (`Leftovers`), and the signed image may be signed again.  The jobs
`copy`, `write` and `extend` are what the library's tests do.

### ElfTables

A section's data is the sequence of items appended to it, with their sizes; each
field holds the number as it is stored, narrowed to its width and, in a file of
the other byte order, with its bytes reversed.  The same accessors read it back.
What goes
over a list -- the symbols of a linked file, the copy of a dynamic section -- is a
recursive function on the length of the part that is done.  The hash
table is the linker's; its words are those in the file, and `Wild` is a look-up
that reads something that is no word of it.  `save_and_load` may come at any
time; `dump` is one action per kind of table, with one step per symbol, note and
dynamic entry, because their loops are what can go wrong.

### ElfBuffer and ElfSections

One section with `size`, a field of the header, `data_size`, an `Elf_Word`, and
the buffer, whose real length (`room`) no variable of the code holds.  `load`,
`set_data` with and without bytes and `append_data` come in any order and any
allocation may fail; sums that are assigned to an `Elf_Word` wrap.  `reach` is how far
the last copy went; once that is behind the buffer the model stops.  `past` is
history since the data were last set.  `ElfTables` has the contents of sections
only and takes it that each had room: that is so below 2^30 bytes, if memory
does not run out, since no accessor sets a size without bytes.  `ElfSections`
puts the two beside each other: a program works on the tables of a file or on a
section it fills by itself.

## 4. The runs

| run | configuration | shows | states |
|---|---|---|---|
| session | `MCFirehose.cfg` | `InOrder`, `RawModeSeesOnlyData`, `DataFits`, the refinement `IsFlashJob`, `Terminates` | 286,000 |
| dry_run | `MCFirehoseDryRun.cfg` | violation of `DryRunAccepted` | |
| sahara | `MCSahara.cfg` | `HalfDuplex`, `ImageIntact`, `XmlOnlyToProgrammer`, `NobodyWaits`, `Completes` | 12,000 |
| short_read | `MCSaharaShort.cfg` | violation of `ShortReadEnds` | |
| load | `MCQdlLoad.cfg` | `LoadedInOrder`, `GateExact` | 5,100 |
| lock | `MCQdlLoadLock.cfg` | violation of `LockedAsAsked` | |
| image | `MCFlashImage.cfg` | `ChunkFits`, `DiskFaithful`, `WrittenExactly` | 5,400 |
| boot | `MCCommaBoot.cfg` | `TypeOK`, `PairMatches`, `IdentityKept`, `SetupKeysGone`, `HandOver`, `OncePerBoot`, `UserKeysKept`, `SetupEnds` | 24,000 |
| setup_key | `MCCommaBootKey.cfg` | violation of `SetupHasKey` | |
| release | `MCRelease.cfg` | `ToolchainsCurrent`, `BaseIsWhole`, `ShippedIsTested` | 6,170,000 |
| sign | `MCSignLk.cfg` | `TypeOK`, `NoOverlap`, `SegmentsKept`, `HashPerSegment`, `PointersRight`, `CopyIsFaithful`, `ProgramKept` | 1,600 |
| tables | `MCElfTables.cfg` | `RelocationsReachSymbols`, `LookupByName`, `DynamicReadBack`, `NotesReadBack`, `DumpedAll`, `DumpEnds`, `RoomForAll` | 158,000 |

The type invariants of `Firehose`, `Sahara` and `FlashImage` are in no run because
they are proved (section 5); so is what `ElfTables` has for one, `TableInv` of
its proofs.  `TypeOK` of `SignLk` is in a run as well as proved: it says that every
object that reaches `save()` is one `save()` can be given, which is as much about
`load()` and the signer as it is a type.

Deadlock is checked in all of them.  Where a program has ended, waits, or has written
behind a buffer, the model has the loop the code is in, or a step that changes
nothing.

Several properties are equivalences: they name the cases in which something goes
wrong and TLC shows that it goes wrong in these and in no others.  `PointersRight`
and `HashPerSegment` are of this kind, and so are `CopyIsFaithful`, `ProgramKept`,
`DynamicReadBack`, `NotesReadBack` and `DumpEnds`.

### Bounds

* **Firehose.**  Four plans (two images with a disk patch, one of them cut by
  its partition; a missing image and two boot candidates; an empty image behind
  another one; provisioning of one unit), nothing, an answer, or a log line and
  two answers left over from before, payload sizes of no sector, one, two and
  three against a compiled-in size of two.  So configuration takes one round or
  two, succeeds or fails, and an image takes one chunk, several, or does not get
  anywhere.  One log line is enough to have a batch of two messages, and a read
  with no response in it. Two failing reads let one of them hide the other.
* **Sahara.**  Three chunks asked for in any order, a file that is whole, lacks
  the last, or is empty.  Two kills make three processes: the second starts in
  the middle of what the first one did and ends in the middle itself.
* **QdlLoad.**  Twenty-one files, one for each way the code can tell files
  apart, and every pair of them, with and without the option: state a first
  file leaves behind meets every second one.
* **FlashImage.**  All sizes up to seven bytes, sectors of one to three, all
  offsets and limits up to three, payloads from less than a sector to several
  with a rest.  `Word` is 8, so offsets wrap inside the range.
* **CommaBoot.**  Three boots: the first is cut off, the second lives with what
  is left and is cut off, and the third shows what that leads to.  One failing
  command, download or installer.
* **Release.**  `Bounds` is a set of budgets, one per kind of behaviour, since
  what disturbs the toolchains (pulls) and what disturbs publishing (builds,
  preparations) meet only in the number of faults.  With two pulls and two
  faults a removal and an extraction are both cut short and a tarball changes
  between them.  With two builds, two preparations and three pushes, a second
  release is prepared while the first is pushed, goes to staging and to
  production, and a fault hits any command of it.  Three toolchains, two of which
  are compared, have a first, a later and an uncompared one.  Release 0 was made
  before.
* **SignLk.**  Sizes of the real structures, for both classes.  The inputs are a
  bootloader as linked, with zeroes behind its data and an empty segment; one
  segment; signed images with the hash segment on a page and off it; a file
  without physical addresses, one without bytes; no ELF file.  Addresses, with
  the size of the segment and a page behind it, are below 2^32, the width signlk
  keeps them in.  The files that are copied have the segments that share
  sections -- thread-local data, dynamic section, read-only after relocation,
  program headers -- in the orders that matter to the ordering.
* **ElfTables.**  A byte has four values, so an `Elf_Half` counts to 16 and a
  table with 15 or 16 symbols is a small one.  Numbers are one that fits every
  field and one that needs more than 32 bits.  Two additions to files with one,
  three or fourteen linked symbols; two buckets, so that chains have two symbols.
  Names have three characters or six, so that notes are padded and not.
* **ElfBuffer.**  With a byte of four values an `Elf_Word` counts to 256; sizes are
  nothing, an eighth, a quarter, a half and nearly all of that, and one beyond it.

### Fairness

`Firehose!FairSpec`: the host process is scheduled, its loops go on unless a
read fails, and a programmer on the bus works through what it was sent.  Log
lines, unplugging and an end of the process by an error are never forced.
`Sahara!FairSpec`: the process and the boot ROM run; the user is not obliged to
do anything.  `CommaBoot!FairSpec`: the shell goes on, and somebody completes
the setup, since no device gets out of it otherwise; the app answers and the
installer ends.  `ElfTables!Spec`: a dump that was begun goes on, as it is one
thread that waits for nobody.  Weak fairness is enough in all of them; failures
and power losses are limited by the bounds and never required.  Nothing is said
about when people build, prepare or push.

## 5. What is proved

TLAPS checks these for every value of the constants; the only assumptions are
those of the modules, that sizes and bounds are natural numbers, plans are
lists, a sector is not empty, the wrong chunk is not one that is wanted, a
missing or partial file is not the name of one, the structures of ELF have
sizes. Those of `ElfTables` are what the C++ types say of arguments and files: a
number is 64 bits wide, a tag fits into an `Elf_Sword` without a sign and a
relocation's type into a byte (`NumbersAssumption`), a file has a symbol and a
hash table with a bucket (`FilesAssumption`), a name has a length and a hash and
is not the empty one of the null symbol (`StringsAssumption`); and a string
table does not reach 2^32 bytes nor a symbol's index the bits beside the type in
`r_info` (`BoundsAssumption`).  The last is a bound on the files, not on the
code: with 2^24 symbols in a 32-bit file the index is cut.

Those of `SignLk` are about files and names.  In an ELF file that signlk or the
copying test loads, sections and segments are the records the tables have, with
numbers for addresses and sizes, and the first section is the null section; the
programs of the tests make such objects and name a section for the names of
sections (`FilesAssumption`).  A segment file left by an earlier run has bytes
(`LeftoversAssumption`).  A segment file's number is one digit, so that the order of
the names is that of the numbers (`DigitsAssumption`; no proof uses it, but beyond
it the model's order is not that of the shell).  And what the script takes for
granted when it writes at offset 4096 plus the size of a section header: the
headers of the signed file end in front of 4096, with room for the two segments
that are added each time a file is signed, and a section header is as long as the
header of the table and shorter than that and the file's header together
(`HeadersAssumption`; 40, 40 and 52 bytes in a 32-bit file, 64, 40 and 64 in a 64-bit
one).

| theorem | says |
|---|---|
| `FirehoseProofs!TypeCorrect` | `[](TypeOK /\ InRange)`: types, and no list position that does not exist |
| `FirehoseProofs!RawModeAgrees` | `[]RawModeSeesOnlyData` |
| `FirehoseProofs!CommandsInOrder` | `[]InOrder` |
| `FirehoseProofs!DataAsAgreed` | `[]DataFits` |
| `FirehoseProofs!SessionIsFlashJob` | `IsFlashJob`: the session implements `FlashJob` |
| `SaharaProofs!TypeCorrect` | `[]TypeOK` |
| `SaharaProofs!OneInFlight` | `[]HalfDuplex` |
| `SaharaProofs!ImageArrives` | `[]ImageIntact` |
| `SaharaProofs!XmlForProgrammer` | `[]XmlOnlyToProgrammer` |
| `SaharaProofs!NoMutualWait` | `[]NobodyWaits` |
| `QdlLoadProofs!LoadedAsGiven` | `[]LoadedInOrder` |
| `QdlLoadProofs!GateHolds` | `[]GateExact` |
| `FlashImageProofs!TypeCorrect` | `[]TypeOK` |
| `FlashImageProofs!ChunksFit` | `[]ChunkFits` |
| `FlashImageProofs!ImageOnDisk` | `[]DiskFaithful` |
| `FlashImageProofs!WrittenAsAnnounced` | `[]WrittenExactly` |
| `CommaBootProofs!TypeCorrect` | `[]TypeOK` |
| `CommaBootProofs!KeyPairKept` | `[]PairMatches` |
| `CommaBootProofs!SetupKeysCleared` | `[]SetupKeysGone` |
| `CommaBootProofs!HandedOver` | `[]HandOver` |
| `CommaBootProofs!HandsOverOnce` | `[]OncePerBoot` |
| `CommaBootProofs!IdentityStays` | `[]IdentityKept` |
| `CommaBootProofs!UserKeysStay` | `UserKeysKept` |
| `ReleaseProofs!CacheIsCurrent` | `[]ToolchainsCurrent` |
| `ReleaseProofs!ShippedWasTested` | `[]ShippedIsTested` |
| `ReleaseProofs!BaseWasWhole` | `[]BaseIsWhole` |
| `SignLkProofs!SavedApart` | `[]NoOverlap` of `save()`, for every object it can be given |
| `SignLkProofs!TypeCorrect` | `[]TypeOK` |
| `SignLkProofs!SignedApart` | `[]NoOverlap` of signlk and the tests' programs |
| `SignLkProofs!SignedSegments` | `[]SegmentsKept` |
| `SignLkProofs!SignedHashes` | `[]HashPerSegment` |
| `SignLkProofs!SignedPointers` | `[]PointersRight` |
| `ElfTablesProofs!NoOverrun` | `[]RoomForAll` |
| `ElfTablesProofs!EveryRelocationReaches` | `[]RelocationsReachSymbols` |
| `ElfTablesProofs!EveryNameFound` | `[]LookupByName` |
| `ElfTablesProofs!EveryEntryReadBack` | `[]DynamicReadBack` |
| `ElfTablesProofs!EveryNoteFound` | `[]NotesReadBack` |
| `ElfTablesProofs!DumpShowsAll` | `[]DumpedAll` |

**Order of commands.**  `InOrder` is about what is in flight and is not
inductive: the host sends the next command because it read an ACK, so one has to
know that the ACK was for the command before.  `OrderInv` adds just that, for
sessions in which no read has failed: everything the host has passed is carried
out (`ConfirmedDone`); there is one response on the line at most (`OneResponse`)
from the time the line has been drained (`~Early`), and where there may be one
it is for the command the host waits for (`AckMeansDone`); a command in flight
is the last document and the one awaited (`CommandIsLast`); raw mode is for the
program the host is at (`RawModeOfItem`); and between two steps nothing is owed
(`NothingOwed`).  The step proof goes action by action, and `FirstKept` and
`ListEnds` connect list positions to the sets of commands.

**Raw mode.**  The target ends raw mode on a count and the host goes back to
XML on a count of its own.  `RawBalance` says that the queue between them adds up:
there is a function `remains` on its positions, the number of sectors the target
will still be missing when it has taken the first k documents; it starts with
what is missing now, a chunk takes its sectors off it, a command that is accepted
may start it again at the whole image, but only where nothing was missing; and at the
end of the queue it is what the host still has to send, or nothing where the
target refused the image (`Owed`).  Giving the
function by what holds of it, rather than computing it by recursion along the
queue, is what keeps it within the prover's reach: a document at either end
changes it by one entry.  No order of commands and no answer is used, so
the theorem holds with failed reads as well.

**Sizes.**  `DataFits` compares a chunk the host cut by its own idea of the payload
size with the target's.  `SizeInv` has the negotiation: while an answer to
configure is awaited, every response names what the target supports and, if that
is what was asked for, the target has already adopted it (`Negotiates`);
afterwards both sizes are equal and no configure is on its way (`Agreement`).
That needs `OrderInv`, since a response that belongs to an earlier command would
end the negotiation too soon.  `Fits` and `CommandEnds` are apart from it because
they outlive the host: what it left in the queue is taken after it has returned.

**A session is a job.**  `OrderInv` says when a command may be on its way.  For
the refinement one also needs the converse: that what is on its way is an item of
the job (`OnlySendable`), that it is sent from the step of the session it belongs
to (`Sender`), that the target is ahead of the host by the awaited item at most,
so that no item is begun twice (`DoneKnown`), and that a refusal has its NAK on
the line and a host that is about to read it, so that nothing is begun after one
(`RefusalSeen`).  `JobInv` is all that; `Alone` is what remains of it when the
host has given up and the target still works on its last command.  The steps are
then sorted by what they are for the job: a request for an item begins it
(`CommandBegins`), the target carries out, refuses, closes or does nothing
(`TargetMoves`), and of the steps of the host only those that end the session are
more than a stutter; `SuccessComplete` shows of the two that report success that
the job is done.

**Sahara.**  `SessionInv` says for each state of the boot ROM what may be in
flight: its packet, or the host's answer to it, or nothing if one of them was
lost (`Line`), together with who may have returned from `sahara_run` and in
which states something may have been lost (`HandOver`) and what was loaded
(`Image`).  Restarts need no case of their own: nothing in it refers to which
process sent a packet, and that is why they are harmless.

**Loaders.**  The lists outlive the file they were filled from, so the invariant
says what they hold in the middle of a command line: the complete programs and
patches among what has been scanned (`Lists`); of the one UFS file that may have
been opened, one descriptor and one closing tag at most, and no element
seen that lacks something (`UfsFile`); and a file that is behind has passed the
gate.  With two files of that type the lists of the first make the second one
fail wherever it is left, at its own element or at its gate.  That a
refusal is right, `status = "exited" => ~Acceptable`, is in the invariant
itself: each `exit` is taken where the element at hand, or the gate, shows what
is wrong with the command line as a whole.

**Raw data.**  `ImageInv` adds where the file is read: at the byte after the
last one written, or behind the end on both sides (`ReadInStep`).  Everything
else is arithmetic with quotients, isolated in `RoundDown`, `Products`,
`ChunkSizes`.

**Boot.**  What programs see says little about what a power loss leaves, so
`PairInLog` is about every state since the last sync: a public key has its
private key in all of them, and only temporary files may be torn.  The sync
before the first rename gives the second part, the order of the renames the
first.  `PairInChain` and `SetupLoop` say what a command knows of the ones before
it.  `IdentityInv` adds that, once the loop is reached, all these states have
the same public key: that is what the last sync is for.  `MarkInv` ties the
hand-over to the mark `/runonce`, which is on a file system in memory: made before
anything else, it is there wherever the script is restarted in the same boot.

**Release.**  For the toolchains the invariant speaks of the middle of a run:
once the script is past its test, what is still in the list to be removed may be
anything, and what is not is gone or current (`Held`, `Removed`, `Current`);
when the list of extractions is done everything is there (`Present`).  It needs
that the lists of the script name all toolchains, not that they name them once.
For publishing, `JsonsAgree` says that the two json files are the same pair
unless `update.json` alone was written, `Pushed` what a push that got to some
command has put into its bucket as long as nobody prepared since it began,
`Procedure` ties the releaser's steps to that, and `NamesRight` says of every
recovery image, in the directory or a bucket, that it has its content unless a
build came in between.  `BaseInv` is the few lines in which `download.py` knows
what it has checked.

**Layout.**  `save()` is a loop over a list that it makes itself, so the invariant
`LayInv` follows it section by section.  `Placed` is what `NoOverlap` says, but of
the sections that have a place so far, and with the current position in the place
of the end of the file: whatever was placed ends before it, so that a section
which goes to the position or behind it meets nothing (`PlacedOneMore`).  `back`
records when a section goes in front of it, which only an address can do, since a
padding is never negative (`Pads`).  That leaves the question whether every
section has been given a place at the end.  `Queued` says that no segment gets lost
while the list is ordered, neither by a swap (`SwapKeeps`) nor by going to the
back (`HeadMoves`); `Reached`, that what `save()` has passed has a place, and that
the loop over the sections without a segment takes those no segment had.  The
order itself, and hence whether a nested segment comes after the outer one, does
not matter for it.  `SavedApart` begins with any object that is `Saveable`: its
segments' sections exist, its first section is the null section, and sizes and
addresses are numbers.  `SignedApart` needs nothing of the kind: `TypeCorrect` says
that signlk and the tests never hand over anything else.

**Signing.**  `SegmentsKept`, `HashPerSegment` and `PointersRight` are about the end
of the program only, so `SignInv` says what has been made of the input before each
step.  `Reading`: the reader holds what the input loads as.  `Growing`: after n
segments the writer has the hash segment and one segment with one section for each
of the n that was not skipped, with its attributes and bytes, and nothing has a
place yet (`WriterGrows`, `CopyGrows`, `HeadersGrow`).  `Exports` and `Files`: the
segment files of those n are in the directory, and every file there has bytes.
`Signing` is `Growing` of all of them with the segment of the headers, and it is
what `save()` never changes.  `SavingInv` follows `save()`: no segment is at offset 0
and none's sections are part of another's, so that nothing is swapped or sent to
the back (`InOrder`); the segment that is laid out has one section, neither null
nor placed (`NeitherNullNorMade`), so that it begins at an offset congruent to its
address and its section there, or for the hash segment at the next multiple of
4096 (`StartOf`, `SectionAt`, `Laid`); and no division by zero comes up
(`AlignmentIsSet`).  `CopiedAmong` lists the numbers of the segments copied; being
ascending determines a list (`AscendingUnique`), which `HashPerSegment` rests on: the
shell sorts the names, and the sorted numbers are those of the segments if there
are as many.

Contents are sets of extents, and their algebra is small.  `Read` undoes `Overwrite`
at the same place (`ReadBack`) and does not see it elsewhere (`ReadApart`); so when
sections are apart, which is `NoOverlap`, a file that was written holds every
section's bytes at its offset (`FileWritten`), and what the script writes over it
takes none from a segment (`NotOverwritten`), because an old hash segment on a page
puts the new one at 4096 and the rest behind its 6568 bytes (`HashOnPage`).
`PointersRight` is arithmetic from there: the hash segment's offset is between the
end of the headers and 8191 and congruent to its address (`HashLies`).  A file that
was signed for the first time can be signed again (`SignedIsGood`), which closes the
loop.  `OthersInv` is what the jobs of the tests need: the object they save has a
section for names, and loads again as such.  `load()`, `save_sections` and the
choice of segments are folds in the code; here they are recursive functions, and
what they compute is proved with `UpTo` as below.

TLC agreed on `SignInv` and `OthersInv`, as invariants of the run sign, before they
were proved.

**Tables.**  `TableInv` compares each section with `added`, the history of what
the accessors were asked for: entry k of the section holds what request k was,
each number narrowed to its field and, where the file needs it, with its bytes
turned round (`Kept`, `IsEntry`, `RelTable`, `RelaTable`, `DynTable`,
`CopyTable`, `NoteTable`), its name lies in the string table at the offset it
has (`Holds`), the strings' offsets are different and there are no more of them
than additions (`StringTable`, `Strung`), which with `BoundsAssumption` keeps
them within an `Elf_Word`.  It is inductive because an addition leaves alone
what there was: the operator lemmas say for one append what is there now and
that the rest still is (`SymbolAdded`, `RelAdded`, `DynamicAdded`,
`OneMoreCopied`, `NoteAdded`), for other tables that share the strings
(`StringsGrow`, `RelocationsStay`).  Five of the theorems follow from it by
reading: `Conversion` says that converting twice is nothing, `DynamicRead` that
what a 32-bit file of the other byte order keeps of a short number is zero,
`NotesFound` that a reader who goes by the stated sizes meets the starts of the
notes until one of them is shorter than it states, and `NamesFound` follows a
chain of the linker's hash table, which visits the symbols of a bucket in
ascending order and so comes to the one that is looked for, or to the end.

The lists a step goes through as a whole -- a linked file's symbols, a copied
dynamic section, the walk over notes, the chain -- take induction.  The library's
induction rule takes an operator, which the provers cannot instantiate; `UpTo`
states it for a set of numbers instead, and follows from the well-foundedness of
`<` (`LeastNatural`: a set of naturals that is not empty has a least element).
`EntryHasSize`, `Linked`, `AllCopied`, `NotesFound` and `NamesFound` apply it to the
set of lengths up to which the claim holds.

`DumpInv` says at which entry the dump is, and that what it has shown is what was
added up to there (`HeadersShown`, `SymbolsShown`, `NotesShown`, `DynamicShown`).
The index of the symbols stays below the limit of an `Elf_Half`; only if there are
fewer symbols than that does it say that all before it have been shown, since
otherwise it starts again from zero, and the dump does not end.

TLC agreed on `TableInv` and `DumpInv`, as invariants of the run tables, before
they were proved.

**Buffers.**  `RoomInv` adds what `append_data` goes by: `data_size` is how long the
buffer is, unless a longer file was loaded than an `Elf_Word` can tell; then the next
append is beyond the bound.  Below the bound twice the sum does not wrap, since
`data_size` is at most what the data become.

**Only model-checked**: liveness (`Terminates`, `Completes`, `SetupEnds`,
`DumpEnds`), which the prover does not do; and of `SignLk`, `CopyIsFaithful` and
`ProgramKept`.  These two are about objects whose segments share sections in any
way, and their exceptions are those of the files there are -- what a linker makes,
what the library's tests write -- and not of all objects `save()` could be given: a
theorem would need a characterisation of the former, which the code does not
have.

## 6. Where the code does not do what it says

1. **A refused dry run can be followed by the real one** (run dry_run).
   `firehose_read` leaves its loop on a failing `read()` with the 0 of the
   `poll()` before it, which is the value of an ACK (`firehose.c:141`).  A tag
   that the target refused counts as accepted, and the pass that cannot be
   undone is sent, against `ufs.c:325`.  This is also why `InOrder` and
   `IsFlashJob` are about a session up to its first failed read: they do not hold
   behind it.
2. **A short read of the programmer can go unnoticed** (run short_read).
   `sahara.c:125` returns `-errno` where `read()` has set none.  If errno is 0
   nothing is sent, the message of `sahara.c:151` is not printed, and both sides
   wait for ever.
3. **`--finalize-provisioning` does not lock** (run lock).  `ufs.c:52` names the
   attribute and the option that lock the descriptor; `firehose.c:499` sends 0
   in any case.
4. **A torn setup key stays** (run setup_key).  `comma.sh:14` promises a key
   while in setup.  The copy is neither synced nor renamed into place, the test
   is on existence only, so after a power loss a torn file is kept in every
   later boot.

Others were met that contradict no statement of the repository.  Where a property
is an equivalence it has them in it:

* A relocation section that is linked to the symbol table and comes first is
  taken for the hash table, and in a file of the other byte order its words are
  not converted (`elfio_symbols.hpp:182`); `LookupByName` is about other files.
* A section that got a size without bytes, or whose buffer could not be doubled,
  is written behind its buffer by a later append, and so is one near 2^31 bytes
  (`elfio_section.hpp:157`, `:182`, the exceptions of `RoomForAll`).
* In a 32-bit file of the other byte order every dynamic entry is stored as the
  end mark (`elfio_dynamic.hpp:240`, `DynamicReadBack`).
* A note that names a size of description and has none hides those behind it
  (`elfio_note.hpp:116`, `NotesReadBack`).
* The dump of 65536 symbols never ends (`elfio_dump.hpp:607`, `DumpEnds`).
* A segment that ends in zeroes loses them when it is saved (`elfio.hpp:687`,
  `SegmentsKept`, `CopyIsFaithful`); one whose own section is laid out behind
  another segment's loses that section (`ProgramKept`).
* The pointers in the signed image are right only for a file that had a hash
  segment and exports two segments, with the old hash segment as far behind the
  start of a page as a section header is longer than the table's header: on the
  page itself in a 32-bit file (`signlk.cpp:143`, `:163`, `PointersRight`); a
  second run in the same temporary directory, and a second signature of an image
  that had none, put the wrong hashes into the table (`HashPerSegment`).
* A build between the hash and the copy of a recovery image publishes it under
  another's name, for good (`prepare_ota.sh:18`, `ShippedIsTested`); the
  toolchains that are not compared are never refreshed (`extract_toolchains.sh:34`),
  and one that was cut short is taken for whole (`ToolchainsCurrent`).

Without a property: `main` returns 0 whatever happened (`qdl.c:314`); `buf[n]`
with `n = 4096` is behind the buffer (`firehose.c:145`); the mode of the private
key is not set if the power goes between `comma.sh:71` and `:73`; a segment is
exported to a file whose number has one digit (`signlk.cpp:201`).

## 7. What is not modelled

* EON services (ssh, USB, Ethernet): they start a daemon or set addresses once
  and keep no state.  The `/usr` builder: its dependency closure works on a
  package index that is not in the repository.  The dump conversion and the
  devcfg viewer: scripts of one pass over data that is not in the repository
  either.
* Build, flash and CI scripts, but for what `Release` has of `make_x_image.sh`
  and `build_system.sh`: straight lines of calls to other tools.
* openssl, certificates and the bytes of a signature; streams that cannot be
  opened or written; the names the dump prints for numbers, and its layout.
* What the updater on the device does with an OTA: its script is a list of
  extractions without a decision.  The content of the OTA's zip is one value; the
  files it links to are outside the repository.
* Parsing of XML and of the command line, sysfs and termios; formatting.
* What is not in the repository (programmer, boot ROM, setup app, installer,
  file systems, cable) is modelled only as far as the code depends on it, and
  marked external in the map.  Assumed of the file systems: metadata reaches the
  disk in order, `rename` is atomic, and `sync` makes everything durable.
* The tici variant of `comma.sh` has the run-once guard and the installer loop
  of the EON one, without keys and without looking at the installer's status.
