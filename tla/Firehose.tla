------------------------------ MODULE Firehose ------------------------------
(***************************************************************************)
(* One Firehose session: firehose_run() of qdl on the host, with the       *)
(* program list, the patch list or the UFS provisioning it was given       *)
(* (program.c, patch.c, ufs.c), against the programmer on the target.      *)
(*                                                                         *)
(* The target is not part of the repository.  It is modelled from what the *)
(* host relies on: it answers every command with one response, enters raw  *)
(* mode on an accepted <program> and leaves it when the announced sectors  *)
(* have arrived, or earlier when its storage fails.                        *)
(***************************************************************************)
EXTENDS FirehoseLink

CONSTANTS
    Plans,          \* what the files on the command line may ask for
    Caps,           \* payload sizes a target may support, in bytes
    DefaultPayload, \* max_payload_size as it is compiled in
    MaxLogs         \* bound: log lines the target writes in a session

Program == [sector : Nat \ {0},  \* SECTOR_SIZE_IN_BYTES; 0 is a SIGFPE
            bytes : Nat,         \* size of the image file, which may be empty
            limit : Nat,         \* num_partition_sectors, 0 for none
            opens : BOOLEAN,     \* has a file name that can be opened
            boot : BOOLEAN,      \* labelled xbl or sbl1
            part : Nat]          \* physical_partition_number

Plan == [ufs : BOOLEAN,          \* was a UFS provisioning file loaded?
         lus : Nat,              \* its logical units
         programs : Seq(Program),
         patches : Seq(BOOLEAN)] \* is the patch for the DISK?

ASSUME PlansAssumption == Plans \subseteq Plan
ASSUME CapsAssumption == Caps \subseteq Nat
ASSUME PayloadAssumption == DefaultPayload \in Nat /\ MaxLogs \in Nat

VARIABLES
    plan,       \* the loaded lists
    cap,        \* the payload size the target supports
    pc,         \* the step of firehose_run the host is in
    waiting,    \* is it in the firehose_read of that step?
    item,       \* the list element or UFS tag it is at
    commit,     \* UFS: has the dry run been left behind?
    ask,        \* the size the second <configure> requests
    payload,    \* max_payload_size
    left,       \* sectors still to be written for the current program
    ret,        \* what firehose_run returned
    expect,     \* target: sectors still to come in raw mode, 0 in XML mode
    cur,        \* target: the program raw mode was entered for
    agreed,     \* target: the payload size of the last accepted <configure>
    logs,       \* target: log lines written
    done,       \* history: commands the target has carried out
    refused     \* history: commands the target has answered with a NAK

hostVars == <<pc, waiting, item, commit, ask, payload, left, ret>>
targetVars == <<expect, cur, agreed, logs, done, refused>>
vars == <<plan, cap, hostVars, targetVars, link>>

Steps == {"wait", "drain", "nop", "configure", "reconfigure", "tag",
          "program", "data", "finish", "patch", "bootable", "reset",
          "returned", "exited"}

-----------------------------------------------------------------------------
(* Sectors of an image: its size rounded up, cut at the partition's end.   *)
Sectors(p) ==
    LET n == (p.bytes + p.sector - 1) \div p.sector
    IN  IF p.limit # 0 /\ n > p.limit THEN p.limit ELSE n

Least(a, b) == IF a < b THEN a ELSE b

(* Sectors of the next write; 0 when the payload is below a sector.        *)
Chunk(p) == Least(payload \div p.sector, left)

Tags == plan.lus + 2                \* the common tag, the LUs, the epilogue
Here == plan.programs[item]         \* the program the host is at
Ended == pc \in {"returned", "exited"}

(* program_find_bootable_partition: exactly one entry has the label, and   *)
(* entries whose image is missing count.  An empty label is stored as NULL *)
(* and strcmp() would end the process: labels are not empty here.          *)
IsBootable(i) ==
    /\ i \in 1..Len(plan.programs)
    /\ plan.programs[i].boot
    /\ \A j \in 1..Len(plan.programs) : plan.programs[j].boot => j = i

Cmd(op, arg) == [op |-> op, arg |-> arg]

Init ==
    /\ LinkInit
    /\ plan \in Plans
    /\ cap \in Caps
    /\ pc = "wait" /\ waiting = FALSE
    /\ item = 1 /\ commit = FALSE
    /\ ask = 0 /\ payload = DefaultPayload /\ left = 0 /\ ret = 0
    /\ expect = 0 /\ cur = 0 /\ agreed = 0 /\ logs = 0
    /\ done = {} /\ refused = {}

-----------------------------------------------------------------------------
(* Host.  A step of the session writes one document and waits for its      *)
(* answer: Request is the first half, Answer the second.                   *)
Request(step, cmd) ==
    /\ pc = step /\ ~waiting
    /\ firehose_write(cmd)
    /\ waiting' = TRUE
    /\ UNCHANGED <<plan, cap, pc, item, commit, ask, payload, left, ret,
                   targetVars>>

Answer(step, parser, r) ==
    /\ pc = step /\ waiting
    /\ firehose_read(parser, r)
    /\ waiting' = FALSE
    /\ UNCHANGED <<plan, cap, targetVars>>

GoTo(step) == pc' = step /\ ret' = ret
Return(r) == pc' = "returned" /\ ret' = r

(* firehose_run waits up to 10 s for a sign of life; a poll() that fails   *)
(* ends the session, running out of time does not.                         *)
WaitForTarget ==
    /\ pc = "wait"
    /\ \/ GoTo("drain")
       \/ Return(-1)
    /\ UNCHANGED <<plan, cap, waiting, item, commit, ask, payload, left,
                   targetVars, link>>

(* The draining loop reads until nothing comes for 100 ms.                 *)
Drain ==
    /\ pc = "drain"
    /\ \/ DrainBatch /\ GoTo("drain")
       \/ plugged /\ toHost = <<>> /\ GoTo("nop") /\ UNCHANGED link
    /\ UNCHANGED <<plan, cap, waiting, item, commit, ask, payload, left,
                   targetVars>>

firehose_nop == Request("nop", Cmd("nop", 0))

firehose_nop_answer ==
    \E r \in {-1, 0, 1} :
        /\ Answer("nop", "nop", r)
        /\ IF r = 0 THEN GoTo("configure") ELSE Return(r)
        /\ UNCHANGED <<item, commit, ask, payload, left>>

AfterConfigure == IF plan.ufs THEN "tag" ELSE "program"

firehose_send_configure ==
    \/ Request("configure", Cmd("configure", payload))
    \/ Request("reconfigure", Cmd("configure", ask))

(* Mutant: a proposed size is taken without being asked for.               *)
firehose_configure_answer_once ==
    \E r \in {-1, 0, 1} \cup Caps :
        /\ Answer("configure", "configure", r)
        /\ IF r < 0 THEN Return(r) /\ payload' = payload
                    ELSE GoTo(AfterConfigure) /\ payload' = r
        /\ UNCHANGED <<item, commit, ask, left>>

(* firehose_configure: a size other than the one asked for is tried once.  *)
firehose_configure_answer ==
    \E r \in {-1, 0, 1} \cup Caps :
        /\ Answer("configure", "configure", r)
        /\ \/ r < 0 /\ Return(r) /\ ask' = ask
           \/ r >= 0 /\ r # payload /\ GoTo("reconfigure") /\ ask' = r
           \/ r >= 0 /\ r = payload /\ GoTo(AfterConfigure) /\ ask' = ask
        /\ UNCHANGED <<item, commit, payload, left>>

firehose_reconfigure_answer ==
    \E r \in {-1, 0, 1} \cup Caps :
        /\ Answer("reconfigure", "configure", r)
        /\ \/ r < 0 /\ Return(r) /\ payload' = payload
           \/ r >= 0 /\ GoTo(AfterConfigure) /\ payload' = r
        /\ UNCHANGED <<item, commit, ask, left>>

-----------------------------------------------------------------------------
(* ufs_provisioning_execute: every tag once with commit=0, then every tag  *)
(* again with commit=1.  The two passes differ on the wire in the epilogue *)
(* only; the op tells here which pass a document belongs to.               *)
firehose_send_single_tag ==
    Request("tag", Cmd(IF commit THEN "provision" ELSE "check", item))

(* Mutant: the result of the dry run is not looked at.                     *)
firehose_single_tag_answer_dry ==
    \E r \in {-1, 0, 1} :
        /\ Answer("tag", "nop", r)
        /\ \/ /\ r # 0 /\ commit
              /\ Return(-1)
              /\ UNCHANGED <<item, commit>>
           \/ /\ r = 0 \/ ~commit
              /\ item < Tags
              /\ GoTo("tag")
              /\ item' = item + 1
              /\ UNCHANGED commit
           \/ /\ item = Tags /\ ~commit
              /\ GoTo("tag")
              /\ item' = 1
              /\ commit' = TRUE
           \/ /\ r = 0 /\ item = Tags /\ commit
              /\ Return(0)
              /\ UNCHANGED <<item, commit>>
        /\ UNCHANGED <<ask, payload, left>>

firehose_single_tag_answer ==
    \E r \in {-1, 0, 1} :
        /\ Answer("tag", "nop", r)
        /\ \/ /\ r # 0
              /\ Return(-1)
              /\ UNCHANGED <<item, commit>>
           \/ /\ r = 0 /\ item < Tags
              /\ GoTo("tag")
              /\ item' = item + 1
              /\ UNCHANGED commit
           \/ /\ r = 0 /\ item = Tags /\ ~commit
              /\ GoTo("tag")
              /\ item' = 1
              /\ commit' = TRUE
           \/ /\ r = 0 /\ item = Tags /\ commit
              /\ Return(0)
              /\ UNCHANGED <<item, commit>>
        /\ UNCHANGED <<ask, payload, left>>

-----------------------------------------------------------------------------
(* program_execute: an entry without a file, or whose file cannot be       *)
(* opened, is passed over.                                                 *)
program_execute ==
    /\ pc = "program" /\ ~waiting
    /\ \/ /\ item <= Len(plan.programs) /\ ~Here.opens
          /\ item' = item + 1
          /\ GoTo("program")
       \/ /\ item > Len(plan.programs)
          /\ item' = 1
          /\ GoTo("patch")
    /\ UNCHANGED <<plan, cap, waiting, commit, ask, payload, left,
                   targetVars, link>>

(* firehose_program: the command, the raw data, the final answer.          *)
firehose_program ==
    /\ item <= Len(plan.programs) /\ Here.opens
    /\ Request("program", Cmd("program", item))

(* Mutant: the host forgets that the partition cuts the image.             *)
firehose_program_setup_uncut ==
    \E r \in {-1, 0, 1} :
        /\ Answer("program", "nop", r)
        /\ \/ r # 0 /\ Return(r) /\ left' = left
           \/ /\ r = 0 /\ GoTo("data")
              /\ left' = Sectors([Here EXCEPT !.limit = 0])
        /\ UNCHANGED <<item, commit, ask, payload>>

firehose_program_setup ==
    \E r \in {-1, 0, 1} :
        /\ Answer("program", "nop", r)
        /\ \/ r # 0 /\ Return(r) /\ left' = left
           \/ r = 0 /\ GoTo("data") /\ left' = Sectors(Here)
        /\ UNCHANGED <<item, commit, ask, payload>>

firehose_program_data ==
    /\ pc = "data"
    /\ Chunk(Here) > 0
    /\ firehose_write(Cmd("data", Chunk(Here)))
    /\ left' = left - Chunk(Here)
    /\ waiting' = (left' = 0)
    /\ GoTo(IF left' = 0 THEN "finish" ELSE "data")
    /\ UNCHANGED <<plan, cap, item, commit, ask, payload, targetVars>>

(* An empty image has no sectors: no data is sent, the answer waited for.  *)
firehose_program_empty ==
    /\ pc = "data" /\ left = 0
    /\ waiting' = TRUE
    /\ GoTo("finish")
    /\ UNCHANGED <<plan, cap, item, commit, ask, payload, left, targetVars,
                   link>>

(* Mutant: a program that failed does not end program_execute.             *)
firehose_program_finish_any ==
    /\ \E r \in {-1, 0, 1} : Answer("finish", "nop", r)
    /\ GoTo("program") /\ item' = item + 1
    /\ UNCHANGED <<commit, ask, payload, left>>

firehose_program_finish ==
    \E r \in {-1, 0, 1} :
        /\ Answer("finish", "nop", r)
        /\ \/ r # 0 /\ Return(r) /\ item' = item
           \/ r = 0 /\ GoTo("program") /\ item' = item + 1
        /\ UNCHANGED <<commit, ask, payload, left>>

-----------------------------------------------------------------------------
(* patch_execute: only the patches for the DISK are sent.                  *)
patch_execute ==
    /\ pc = "patch" /\ ~waiting
    /\ \/ /\ item <= Len(plan.patches) /\ ~plan.patches[item]
          /\ item' = item + 1
          /\ GoTo("patch")
       \/ /\ item > Len(plan.patches)
          /\ item' = 1
          /\ GoTo("bootable")
    /\ UNCHANGED <<plan, cap, waiting, commit, ask, payload, left,
                   targetVars, link>>

firehose_apply_patch ==
    /\ item <= Len(plan.patches) /\ plan.patches[item]
    /\ Request("patch", Cmd("patch", item))

firehose_apply_patch_answer ==
    \E r \in {-1, 0, 1} :
        /\ Answer("patch", "nop", r)
        /\ \/ r # 0 /\ Return(r) /\ item' = item
           \/ r = 0 /\ GoTo("patch") /\ item' = item + 1
        /\ UNCHANGED <<commit, ask, payload, left>>

-----------------------------------------------------------------------------
(* The boot partition is switched when there is exactly one candidate, and *)
(* the target is reset; neither answer changes anything.                   *)
no_bootable ==
    /\ pc = "bootable" /\ ~waiting
    /\ ~\E i \in 1..Len(plan.programs) : IsBootable(i)
    /\ GoTo("reset")
    /\ UNCHANGED <<plan, cap, waiting, item, commit, ask, payload, left,
                   targetVars, link>>

firehose_set_bootable ==
    \E i \in 1..Len(plan.programs) :
        /\ IsBootable(i)
        /\ Request("bootable",
                   Cmd("setbootablestoragedrive", plan.programs[i].part))

firehose_set_bootable_answer ==
    \E r \in {-1, 0, 1} :
        /\ Answer("bootable", "nop", r)
        /\ GoTo("reset")
        /\ UNCHANGED <<item, commit, ask, payload, left>>

firehose_reset == Request("reset", Cmd("power", 0))

firehose_reset_answer ==
    \E r \in {-1, 0, 1} :
        /\ Answer("reset", "nop", r)
        /\ Return(0)
        /\ UNCHANGED <<item, commit, ask, payload, left>>

-----------------------------------------------------------------------------
(* A write() to a device that is gone fails: raw data ends the process,    *)
(* the boot switch and the reset are passed over, all else is returned.    *)
Writes ==
    /\ ~waiting
    /\ \/ pc \in {"nop", "configure", "reconfigure", "tag", "reset"}
       \/ pc = "data" /\ Chunk(Here) > 0
       \/ pc = "program" /\ item <= Len(plan.programs) /\ Here.opens
       \/ pc = "patch" /\ item <= Len(plan.patches) /\ plan.patches[item]
       \/ pc = "bootable" /\ \E i \in 1..Len(plan.programs) : IsBootable(i)

WriteFails ==
    /\ ~plugged /\ Writes
    /\ CASE pc = "data"     -> GoTo("exited")
         [] pc = "bootable" -> GoTo("reset")
         [] pc = "reset"    -> Return(0)
         [] OTHER           -> Return(-1)
    /\ UNCHANGED <<plan, cap, waiting, item, commit, ask, payload, left,
                   targetVars, link>>

(* A buffer that ends inside a document ends the process.                  *)
ResponseTruncated ==
    /\ waiting \/ pc = "drain"
    /\ toHost # <<>>
    /\ GoTo("exited") /\ waiting' = FALSE
    /\ UNCHANGED <<plan, cap, item, commit, ask, payload, left, targetVars,
                   link>>

(* fstat(), malloc() or a read() of the image fails, before the command or *)
(* between two chunks, and the process ends with the target in raw mode.   *)
ImageFails ==
    /\ \/ pc = "program" /\ ~waiting
          /\ item <= Len(plan.programs) /\ Here.opens
       \/ pc = "data" /\ left > 0
    /\ GoTo("exited")
    /\ UNCHANGED <<plan, cap, waiting, item, commit, ask, payload, left,
                   targetVars, link>>

LogsOnly ==
    /\ waiting
    /\ ReadLogs
    /\ UNCHANGED <<plan, cap, hostVars, targetVars>>

(* Two places a session on a plugged line does not get away from: chunks   *)
(* of 0 sectors, when the payload is below a sector, and the wait for the  *)
(* second answer to an image of 0 sectors, which a target that counts them *)
(* never sends.                                                            *)
NoChunk == pc = "data" /\ left > 0 /\ Chunk(Here) = 0
NoAnswer == pc = "finish" /\ waiting /\ Sectors(Here) = 0

(* Loops without progress: read() returning 0 on a line that hung up, and  *)
(* chunks of 0 sectors.  And the two ways to stop.                         *)
Spin ==
    /\ \/ (waiting \/ pc = "drain") /\ ~plugged
       \/ NoChunk \/ NoAnswer
       \/ Ended
    /\ UNCHANGED vars

HostStep ==
    \/ WaitForTarget \/ Drain
    \/ firehose_nop \/ firehose_nop_answer
    \/ firehose_send_configure
    \/ firehose_configure_answer \/ firehose_reconfigure_answer
    \/ firehose_send_single_tag \/ firehose_single_tag_answer
    \/ program_execute
    \/ firehose_program \/ firehose_program_setup
    \/ firehose_program_data \/ firehose_program_empty
    \/ firehose_program_finish
    \/ patch_execute
    \/ firehose_apply_patch \/ firehose_apply_patch_answer
    \/ no_bootable
    \/ firehose_set_bootable \/ firehose_set_bootable_answer
    \/ firehose_reset \/ firehose_reset_answer
    \/ WriteFails \/ ResponseTruncated \/ ImageFails \/ LogsOnly

-----------------------------------------------------------------------------
(* Target.                                                                 *)
TargetTakes(op) ==
    /\ plugged
    /\ toDevice # <<>>
    /\ Head(toDevice).op = op
    /\ toDevice' = Tail(toDevice)
    /\ UNCHANGED <<plan, cap, hostVars, plugged, faults>>

Performed(op, arg) == done' = done \cup {<<op, arg>>} /\ UNCHANGED refused
Refused(op, arg) == refused' = refused \cup {<<op, arg>>} /\ UNCHANGED done

(* A size above what it supports is refused, with the size it supports;    *)
(* an accepted one comes back with the size it supports as well.           *)
TargetConfigure ==
    /\ expect = 0
    /\ TargetTakes("configure")
    /\ IF Head(toDevice).arg <= cap
       THEN /\ agreed' = Head(toDevice).arg
            /\ TargetSends(Response(TRUE, cap))
       ELSE /\ agreed' = agreed
            /\ TargetSends(Response(FALSE, cap))
    /\ UNCHANGED <<expect, cur, logs, done, refused>>

(* A program of no sectors is accepted with nothing more to come.          *)
TargetProgram ==
    /\ expect = 0
    /\ TargetTakes("program")
    /\ LET i == Head(toDevice).arg
       IN  \/ /\ expect' = Sectors(plan.programs[i])
              /\ cur' = i
              /\ TargetSends(Response(TRUE, NoSize))
              /\ UNCHANGED refused
           \/ /\ TargetSends(Response(FALSE, NoSize))
              /\ refused' = refused \cup {<<"program", i>>}
              /\ UNCHANGED <<expect, cur>>
    /\ UNCHANGED <<agreed, logs, done>>

(* Raw data is stored; with the last announced sector the program is done. *)
(* A storage error ends raw mode at once.                                  *)
TargetData ==
    /\ expect > 0
    /\ TargetTakes("data")
    /\ \/ /\ expect' = IF Head(toDevice).arg < expect
                       THEN expect - Head(toDevice).arg ELSE 0
          /\ IF expect' = 0
             THEN TargetSends(Response(TRUE, NoSize)) /\ Performed("program", cur)
             ELSE UNCHANGED <<toHost, done, refused>>
       \/ /\ expect' = 0
          /\ TargetSends(Response(FALSE, NoSize))
          /\ Refused("program", cur)
    /\ UNCHANGED <<cur, agreed, logs>>

(* Data that arrives in XML mode is dropped.                               *)
TargetJunk ==
    /\ expect = 0
    /\ TargetTakes("data")
    /\ UNCHANGED <<toHost, targetVars>>

SimpleOps == {"nop", "check", "provision", "patch",
              "setbootablestoragedrive", "power"}

TargetSimple ==
    /\ expect = 0
    /\ \E op \in SimpleOps :
          /\ TargetTakes(op)
          /\ \/ /\ TargetSends(Response(TRUE, NoSize))
                /\ Performed(op, Head(toDevice).arg)
             \/ /\ TargetSends(Response(FALSE, NoSize))
                /\ Refused(op, Head(toDevice).arg)
    /\ UNCHANGED <<expect, cur, agreed, logs>>

TargetLog ==
    /\ plugged /\ logs < MaxLogs
    /\ logs' = logs + 1
    /\ TargetSends(Log)
    /\ UNCHANGED <<plan, cap, hostVars, expect, cur, agreed, done, refused,
                   toDevice, plugged, faults>>

TargetAnswers ==
    TargetConfigure \/ TargetProgram \/ TargetData \/ TargetJunk
        \/ TargetSimple

CableOut ==
    /\ Unplug
    /\ UNCHANGED <<plan, cap, hostVars, targetVars>>

Next == HostStep \/ TargetAnswers \/ TargetLog \/ CableOut \/ Spin

Spec == Init /\ [][Next]_vars

(* The host process is scheduled, and a target on the bus works through    *)
(* what it was sent.  Nothing obliges a read to fail, or the process to    *)
(* give up.                                                                *)
FairSpec ==
    /\ Spec
    /\ WF_vars(HostStep /\ UNCHANGED faults /\ pc' # "exited")
    /\ WF_vars(TargetAnswers)

-----------------------------------------------------------------------------
Document == [op : SimpleOps \cup {"configure", "program", "data"}, arg : Nat]

Work == (SimpleOps \cup {"program"}) \X Nat

HostTypeOK ==
    /\ pc \in Steps /\ waiting \in BOOLEAN
    /\ item \in Nat \ {0} /\ commit \in BOOLEAN
    /\ ask \in Nat /\ payload \in Nat /\ left \in Nat /\ ret \in Int

TargetTypeOK ==
    /\ expect \in Nat /\ cur \in Nat /\ agreed \in Nat /\ logs \in 0..MaxLogs
    /\ done \in SUBSET Work /\ refused \in SUBSET Work

(* Every variable keeps its type: in particular the negotiated payload is  *)
(* a size, whatever the parsers returned.                                  *)
TypeOK ==
    /\ plan \in Plans /\ cap \in Caps
    /\ toDevice \in Seq(Document)
    /\ LinkTypeOK /\ HostTypeOK /\ TargetTypeOK

(* The list positions the host and the commands under way refer to exist.  *)
InRange ==
    /\ pc \in {"data", "finish"} \/ (pc = "program" /\ waiting)
         => item \in 1..Len(plan.programs) /\ Here.opens
    /\ pc = "patch" /\ waiting
         => item \in 1..Len(plan.patches) /\ plan.patches[item]
    /\ \A k \in 1..Len(toDevice) :
         toDevice[k].op = "program" => toDevice[k].arg \in 1..Len(plan.programs)

(* The commands the target must have carried out before it may be sent c.  *)
Programs(n) ==
    {<<"program", i>> : i \in {k \in 1..Len(plan.programs) :
                                  k <= n /\ plan.programs[k].opens}}
Patches(n) ==
    {<<"patch", i>> : i \in {k \in 1..Len(plan.patches) :
                                k <= n /\ plan.patches[k]}}
AllPrograms == Programs(Len(plan.programs))
AllPatches == Patches(Len(plan.patches))
Passed(op, n) == {<<op, i>> : i \in 1..n}

Required(c) ==
    CASE c.op = "program"   -> Programs(c.arg - 1)
      [] c.op = "patch"     -> AllPrograms \cup Patches(c.arg - 1)
      [] c.op \in {"setbootablestoragedrive", "power"}
                            -> AllPrograms \cup AllPatches
      [] c.op = "check"     -> Passed("check", c.arg - 1)
      [] c.op = "provision" -> Passed("check", Tags)
                                 \cup Passed("provision", c.arg - 1)
      [] OTHER              -> {}

(* While no read has failed, a command is on its way only when the target  *)
(* has carried out everything that comes before it: no image is flashed    *)
(* after one that failed, no patch before the last image, no boot switch   *)
(* or reset before the last patch, and no UFS descriptor is provisioned    *)
(* before the whole file passed the dry run.                               *)
InOrder ==
    ~faulted => \A k \in 1..Len(toDevice) : Required(toDevice[k]) \subseteq done

(* Host and target never disagree on raw mode: a target that waits for     *)
(* sectors finds data, never a command, and a host that finishes a program *)
(* has sent exactly the sectors it announced.  This holds with failed      *)
(* reads as well, for a program command is always followed by its data.    *)
RawModeSeesOnlyData ==
    expect > 0 /\ toDevice # <<>> =>
        /\ Head(toDevice).op = "data"
        /\ Head(toDevice).arg \in 1..expect

(* What is in flight for a target in raw mode fits the buffer size it      *)
(* agreed to, however the size was renegotiated.                           *)
DataFits ==
    ~faulted /\ expect > 0 =>
        \A k \in 1..Len(toDevice) :
            toDevice[k].arg * plan.programs[cur].sector <= agreed

(* ufs.c:325 says of the second pass: Real provisioning -- target didn't   *)
(* refuse a given XML.                                                     *)
DryRunAccepted ==
    (\E k \in 1..Len(toDevice) : toDevice[k].op = "provision") =>
        ~\E c \in refused : c[1] = "check"

Stuck == NoChunk \/ NoAnswer

(* A session ends, or the cable is pulled, or a read fails, or it is stuck *)
(* for good in one of the two places above: no other loop goes on for      *)
(* ever, no other wait is for an answer that nobody is going to send, and  *)
(* from these two there is no way on but the end of the process.           *)
Terminates ==
    /\ <>(Ended \/ ~plugged \/ faulted \/ Stuck)
    /\ [][Stuck /\ plugged' /\ ~faulted' => Stuck' \/ pc' = "exited"]_vars
=============================================================================
