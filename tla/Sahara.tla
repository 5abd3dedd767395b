------------------------------- MODULE Sahara -------------------------------
(***************************************************************************)
(* How qdl gets the Firehose programmer into the device: tty_open() and    *)
(* main() of qdl/qdl.c and sahara_run() of qdl/sahara.c on the host,       *)
(* against the boot ROM in emergency download mode.                        *)
(*                                                                         *)
(* The host only answers.  The boot ROM says HELLO, asks for chunks of the *)
(* image in the order it likes, reports the end of the image, is told DONE *)
(* and starts what it has loaded.  It is not part of the repository and is *)
(* modelled from the packets sahara_run handles; it never repeats itself.  *)
(***************************************************************************)
EXTENDS Integers, Sequences

CONSTANTS
    Wanted,     \* the chunks of the image the boot ROM asks for
    Files,      \* which of them a programmer file may hold
    Wrong,        \* a chunk that is not what was asked for
    MaxKills,   \* bound: times the user kills qdl
    MaxFaults   \* bound: poll() or read() calls that fail

ASSUME FilesAssumption ==
    Wrong \notin Wanted /\ \A f \in Files : f \subseteq Wanted
ASSUME BoundsAssumption == MaxKills \in Nat /\ MaxFaults \in Nat

VARIABLES
    file,       \* the chunks the programmer file holds
    proc,       \* the host process
    ret,        \* what sahara_run returned
    toHost,     \* packets for the host
    toDevice,   \* packets, image data and XML for the device
    plugged,    \* is the device on the bus?
    rom,        \* the state of the device
    want,       \* the chunk it has asked for
    loaded,     \* the chunks it has been given
    kills,      \* history: times qdl was killed
    faults,     \* history: reads that failed
    flushed,    \* history: tcflush() has dropped a packet of this device
    unserved,   \* history: it asked for a chunk and was sent nothing
    abandoned   \* history: its programmer runs and the process that was told
                \* so has been killed

userVars == <<file, kills>>
romVars == <<rom, want, loaded>>
lostVars == <<flushed, unserved, abandoned>>
vars == <<userVars, proc, ret, toHost, toDevice, plugged, romVars, faults,
          lostVars>>

Packet(cmd, arg) == [cmd |-> cmd, arg |-> arg]
None == "none"

faulted == faults > 0

Init ==
    /\ file \in Files
    /\ proc = "closed" /\ ret = 0
    /\ toHost = <<>> /\ toDevice = <<>> /\ plugged = TRUE
    /\ rom = "start" /\ want = None /\ loaded = {}
    /\ kills = 0 /\ faults = 0
    /\ flushed = FALSE /\ unserved = FALSE /\ abandoned = FALSE

-----------------------------------------------------------------------------
(* Host.  tty_open: the device is looked for until it is there; what has   *)
(* come in between open() and tcflush() is dropped.                        *)
find_qdl_tty ==
    /\ proc = "closed" /\ plugged
    /\ proc' = "open"
    /\ UNCHANGED <<userVars, ret, toHost, toDevice, plugged, romVars, faults,
                   lostVars>>

(* open(), tcgetattr() and tcsetattr() end the process when they fail.     *)
tty_open ==
    /\ proc = "open"
    /\ proc' \in {"sahara", "exited"}
    /\ \/ UNCHANGED <<toHost, flushed>>
       \/ /\ toHost # <<>>
          /\ toHost' = <<>>
          /\ flushed' = TRUE
    /\ UNCHANGED <<userVars, ret, toDevice, plugged, romVars, faults,
                   unserved, abandoned>>

(* Mutant: the packet is handled again before the next one is read.        *)
Reads_again(cmd) ==
    /\ proc = "sahara" /\ Len(toHost) = 1 /\ toHost[1].cmd = cmd
    /\ toHost' \in {toHost, <<>>}
    /\ UNCHANGED <<userVars, plugged, romVars, faults, flushed, abandoned>>

(* One turn of the loop of sahara_run that read the packet cmd alone.      *)
Reads(cmd) ==
    /\ proc = "sahara" /\ Len(toHost) = 1 /\ toHost[1].cmd = cmd
    /\ toHost' = <<>>
    /\ UNCHANGED <<userVars, plugged, romVars, faults, flushed, abandoned>>

sahara_hello ==
    /\ Reads("hello")
    /\ toDevice' = Append(toDevice, Packet("hello_resp", None))
    /\ UNCHANGED <<proc, ret, unserved>>

(* Mutant: a short read is sent on as if it were complete.                 *)
sahara_read_padded ==
    /\ Reads("read")
    /\ toDevice' = Append(toDevice,
            Packet("data", IF toHost[1].arg \in file THEN toHost[1].arg
                                                     ELSE Wrong))
    /\ UNCHANGED <<proc, ret, unserved>>

(* sahara_read and sahara_read64.  A read() of the file that comes back    *)
(* short is returned as -errno, whatever errno was left at: the process    *)
(* ends, or it goes on without having sent anything.                       *)
sahara_read ==
    /\ Reads("read")
    /\ \/ /\ toHost[1].arg \in file
          /\ toDevice' = Append(toDevice, Packet("data", toHost[1].arg))
          /\ UNCHANGED <<proc, unserved>>
       \/ /\ toHost[1].arg \notin file
          /\ proc' \in {"exited", "sahara"}
          /\ unserved' = TRUE
          /\ UNCHANGED toDevice
    /\ UNCHANGED ret

(* Mutant: the test of the status is the wrong way round.                  *)
sahara_eoi_inverted ==
    /\ Reads("eoi")
    /\ toDevice' = IF toHost[1].arg # "ok"
                   THEN Append(toDevice, Packet("done", None)) ELSE toDevice
    /\ UNCHANGED <<proc, ret, unserved>>

(* Mutant: the answer to DONE is not waited for.                           *)
sahara_eoi_last ==
    /\ Reads("eoi")
    /\ toDevice' = Append(toDevice, Packet("done", None))
    /\ proc' = "returned" /\ ret' = 0
    /\ UNCHANGED unserved

(* DONE is sent for a good image only; for another one the loop goes on.   *)
sahara_eoi ==
    /\ Reads("eoi")
    /\ toDevice' = IF toHost[1].arg = "ok"
                   THEN Append(toDevice, Packet("done", None)) ELSE toDevice
    /\ UNCHANGED <<proc, ret, unserved>>

(* The status of the packet is printed and not looked at.                  *)
sahara_done ==
    /\ Reads("done_resp")
    /\ proc' = "returned" /\ ret' = 0
    /\ UNCHANGED <<toDevice, unserved>>

(* Two packets in one buffer have not the length the first one states.     *)
LengthMismatch ==
    /\ proc = "sahara" /\ Len(toHost) > 1
    /\ toHost' = <<>>
    /\ proc' = "returned" /\ ret' = -22
    /\ UNCHANGED <<userVars, toDevice, plugged, romVars, faults, lostVars>>

(* Nor has a packet read() returns a part of; its rest is of no use.       *)
ShortRead ==
    /\ proc = "sahara" /\ toHost # <<>> /\ faults < MaxFaults
    /\ toHost' = Tail(toHost)
    /\ faults' = faults + 1
    /\ proc' = "returned" /\ ret' = -22
    /\ UNCHANGED <<userVars, toDevice, plugged, romVars, lostVars>>

(* A poll() or read() that fails leaves the loop for the return of 0.      *)
ReadFails ==
    /\ proc = "sahara" /\ faults < MaxFaults
    /\ faults' = faults + 1
    /\ proc' = "returned" /\ ret' = 0
    /\ UNCHANGED <<userVars, toHost, toDevice, plugged, romVars, lostVars>>

(* main: firehose_run follows unless sahara_run returned an error; its     *)
(* first document is all that matters here.                                *)
firehose_run ==
    /\ proc = "returned" /\ ret >= 0
    /\ proc' = "firehose"
    /\ toDevice' = IF plugged THEN Append(toDevice, Packet("xml", None))
                              ELSE toDevice
    /\ UNCHANGED <<userVars, ret, toHost, plugged, romVars, faults, lostVars>>

main_out ==
    /\ proc = "returned" /\ ret < 0
    /\ proc' = "exited"
    /\ UNCHANGED <<userVars, ret, toHost, toDevice, plugged, romVars, faults,
                   lostVars>>

(* The user interrupts qdl, to start it again.  The programmer announces   *)
(* itself once: a kill after that leaves it to nobody.                     *)
Killed ==
    /\ proc # "closed" /\ kills < MaxKills
    /\ kills' = kills + 1
    /\ proc' = "closed" /\ ret' = 0
    /\ abandoned' = (abandoned \/ (rom = "programmer" /\ toHost = <<>>))
    /\ UNCHANGED <<file, toHost, toDevice, plugged, romVars, faults, flushed,
                   unserved>>

HostStep ==
    \/ find_qdl_tty \/ tty_open
    \/ sahara_hello \/ sahara_read \/ sahara_eoi \/ sahara_done
    \/ LengthMismatch \/ firehose_run \/ main_out

-----------------------------------------------------------------------------
(* Boot ROM.                                                               *)
RomSends(from, to, packet) ==
    /\ plugged /\ rom = from /\ rom' = to
    /\ toHost' = Append(toHost, packet)
    /\ UNCHANGED <<userVars, proc, ret, toDevice, plugged, faults, lostVars>>

RomTakes(from, to, cmd) ==
    /\ plugged /\ rom = from /\ rom' = to
    /\ toDevice # <<>> /\ Head(toDevice).cmd = cmd
    /\ toDevice' = Tail(toDevice)
    /\ UNCHANGED <<userVars, proc, ret, toHost, plugged, faults, lostVars>>

RomHello ==
    /\ RomSends("start", "greeted", Packet("hello", None))
    /\ UNCHANGED <<want, loaded>>

RomHelloResp ==
    /\ RomTakes("greeted", "loading", "hello_resp")
    /\ UNCHANGED <<want, loaded>>

RomAsks ==
    \E c \in Wanted \ loaded :
        /\ RomSends("loading", "waiting", Packet("read", c))
        /\ want' = c
        /\ UNCHANGED loaded

(* Raw data has no header: the device takes what comes for the chunk it    *)
(* asked for.                                                              *)
RomData ==
    /\ \E cmd \in {"data", "xml"} : RomTakes("waiting", "loading", cmd)
    /\ loaded' = loaded \cup {want} \cup
          (IF Head(toDevice) = Packet("data", want) THEN {} ELSE {Wrong})
    /\ want' = None

(* The image is complete and good, or it is found bad on the way.          *)
RomEndOfImage ==
    /\ \/ /\ Wanted \subseteq loaded
          /\ RomSends("loading", "ended", Packet("eoi", "ok"))
       \/ RomSends("loading", "refused", Packet("eoi", "bad"))
    /\ UNCHANGED <<want, loaded>>

RomDone ==
    /\ RomTakes("ended", "starting", "done")
    /\ UNCHANGED <<want, loaded>>

RomStarts ==
    /\ RomSends("starting", "programmer", Packet("done_resp", None))
    /\ UNCHANGED <<want, loaded>>

RomStep ==
    RomHello \/ RomHelloResp \/ RomAsks \/ RomData \/ RomEndOfImage
        \/ RomDone \/ RomStarts

Unplug ==
    /\ plugged /\ plugged' = FALSE
    /\ toHost' = <<>> /\ toDevice' = <<>>
    /\ UNCHANGED <<userVars, proc, ret, romVars, faults, lostVars>>

(* A process that had the old device open does not see the new one.        *)
Replug ==
    /\ ~plugged /\ proc = "closed" /\ plugged' = TRUE
    /\ rom' = "start" /\ want' = None /\ loaded' = {}
    /\ flushed' = FALSE /\ unserved' = FALSE /\ abandoned' = FALSE
    /\ UNCHANGED <<userVars, proc, ret, toHost, toDevice, faults>>

(* read() returns 0 for a device that is gone and the loop polls again; or *)
(* there is nothing left to do.                                            *)
Idle ==
    /\ proc \in {"sahara", "firehose", "exited"}
    /\ UNCHANGED vars

Next ==
    HostStep \/ ShortRead \/ ReadFails \/ Killed \/ RomStep
        \/ Unplug \/ Replug \/ Idle

Spec == Init /\ [][Next]_vars

(* The process is scheduled and the boot ROM runs.                         *)
FairSpec == Spec /\ WF_vars(HostStep) /\ WF_vars(RomStep)

-----------------------------------------------------------------------------
HostPacket == [cmd : {"hello", "read", "eoi", "done_resp"},
               arg : Wanted \cup {None, "ok", "bad"}]

DevicePacket == [cmd : {"hello_resp", "data", "done", "xml"},
                 arg : Wanted \cup {None}]

RomStates == {"start", "greeted", "loading", "waiting", "ended", "refused",
              "starting", "programmer"}

TypeOK ==
    /\ file \in Files
    /\ proc \in {"closed", "open", "sahara", "returned", "firehose", "exited"}
    /\ ret \in {0, -22}
    /\ toHost \in Seq(HostPacket) /\ toDevice \in Seq(DevicePacket)
    /\ plugged \in BOOLEAN
    /\ rom \in RomStates
    /\ want \in Wanted \cup {None}
    /\ loaded \subseteq Wanted \cup {None, Wrong}
    /\ kills \in 0..MaxKills /\ faults \in 0..MaxFaults
    /\ flushed \in BOOLEAN /\ unserved \in BOOLEAN /\ abandoned \in BOOLEAN

(* The line is half-duplex: as long as no read has failed there is one     *)
(* packet in flight at most, in either direction, across any number of     *)
(* restarts of qdl.  So one read() never returns two packets, and the      *)
(* check of the length never ends a session.                               *)
HalfDuplex == ~faulted => Len(toHost) + Len(toDevice) <= 1

(* The device starts exactly the image it asked for, chunk by chunk,       *)
(* whichever process sent them.                                            *)
ImageIntact == ~faulted /\ rom = "programmer" => loaded = Wanted

(* The first Firehose document reaches a running programmer, never a boot  *)
(* ROM that would take it for image data.                                  *)
XmlOnlyToProgrammer ==
    ~faulted /\ (\E k \in 1..Len(toDevice) : toDevice[k].cmd = "xml")
        => rom = "programmer"

HostsTurn == rom \in {"greeted", "waiting", "ended", "refused", "programmer"}

(* What qdl cannot recover from without the device being plugged in again: *)
(* a packet lost to tcflush, a chunk the file does not hold, an image the  *)
(* device refused, and a kill after the programmer has announced itself.   *)
Dead == flushed \/ unserved \/ abandoned \/ rom = "refused"

(* With nothing under way, sahara_run waits in poll() for a device that    *)
(* waits for the host in exactly those cases.                              *)
NobodyWaits ==
    ~faulted /\ plugged /\ proc = "sahara" /\ toHost = <<>> /\ toDevice = <<>>
        => (HostsTurn <=> Dead)

(* A request the file cannot serve ends the process, as the message of     *)
(* sahara.c:151 has it: failed to read image chunk to sahara.              *)
ShortReadEnds == unserved /\ kills = 0 => proc = "exited"

(* Every qdl that is started gets as far as Firehose, also one that goes   *)
(* on where a killed one has stopped, unless it could not open the device, *)
(* a read fails, the device is pulled or it is in one of those cases.      *)
Completes ==
    plugged ~> proc \in {"firehose", "exited"} \/ ~plugged \/ Dead \/ faulted
=============================================================================
