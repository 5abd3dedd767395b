---------------------------- MODULE SaharaProofs ----------------------------
(***************************************************************************)
(* The Sahara session is half-duplex: proofs that until a read fails there *)
(* is one packet in flight at most, that the programmer is started from an *)
(* intact image, that no Firehose document reaches the boot ROM, and that  *)
(* the host and the device wait for each other in the known cases only.    *)
(*                                                                         *)
(* The inductive invariant says, for every state of the device, what may   *)
(* be in flight: its packet, the answer of the host to it, or nothing when *)
(* one of the two has been lost.                                           *)
(***************************************************************************)
EXTENDS Sahara, SequenceTheorems, TLAPS

Quiet == toHost = <<>> /\ toDevice = <<>>
Asks(p) == toHost = <<p>> /\ toDevice = <<>>
Says(p) == toHost = <<>> /\ toDevice = <<p>>
Lost == Quiet /\ (flushed \/ unserved)

Line ==
    /\ rom \in {"start", "loading", "starting"} => Quiet
    /\ rom = "greeted" =>
         Asks(Packet("hello", None)) \/ Says(Packet("hello_resp", None)) \/ Lost
    /\ rom = "waiting" =>
         Asks(Packet("read", want)) \/ Says(Packet("data", want)) \/ Lost
    /\ rom = "ended" =>
         Asks(Packet("eoi", "ok")) \/ Says(Packet("done", None)) \/ Lost
    /\ rom = "refused" => Asks(Packet("eoi", "bad")) \/ Quiet
    /\ rom = "programmer" =>
         Asks(Packet("done_resp", None)) \/ Says(Packet("xml", None)) \/ Quiet

(* Whoever has returned from sahara_run has started the programmer, and a  *)
(* programmer that was started by somebody else is of no use any more.     *)
HandOver ==
    /\ proc = "returned" => rom = "programmer" /\ Quiet
    /\ rom = "programmer" /\ toHost = <<>> =>
         proc \in {"returned", "firehose"} \/ flushed \/ abandoned
    /\ proc = "returned" => ~Dead
    /\ flushed \/ unserved => Quiet /\ HostsTurn
    /\ abandoned => toHost = <<>> /\ rom = "programmer"

Image ==
    /\ loaded \subseteq Wanted
    /\ rom = "waiting" => want \in Wanted
    /\ rom \in {"ended", "starting", "programmer"} => loaded = Wanted

Session ==
    /\ Image
    /\ proc = "returned" => ret = 0
    /\ plugged => Line /\ HandOver
    /\ ~plugged => Quiet

SessionInv == ~faulted => Session

-----------------------------------------------------------------------------
(* Type correctness: every variable keeps its type, whatever fails.        *)
THEOREM TypeCorrect == Spec => []TypeOK
<1>1. Init => TypeOK
  <2> SUFFICES ASSUME Init PROVE TypeOK
    OBVIOUS
  <2>1. /\ plugged \in BOOLEAN /\ flushed \in BOOLEAN /\ unserved \in BOOLEAN
        /\ abandoned \in BOOLEAN
    BY Zenon DEF Init
  <2> QED
    BY <2>1, BoundsAssumption DEF Init, TypeOK, None, RomStates
<1>2. TypeOK /\ [Next]_vars => TypeOK'
  <2> SUFFICES ASSUME TypeOK, [Next]_vars PROVE TypeOK'
    OBVIOUS
  <2> USE BoundsAssumption DEF TypeOK
  <2>1. CASE find_qdl_tty
    BY <2>1 DEF find_qdl_tty, userVars, romVars, lostVars
  <2>2. CASE tty_open
    <3>1. flushed' \in BOOLEAN
      BY <2>2, Zenon DEF tty_open
    <3>2. toHost' = toHost \/ toHost' = <<>>
      BY <2>2, Zenon DEF tty_open
    <3>3. /\ proc' \in {"sahara", "exited"}
          /\ UNCHANGED <<userVars, ret, toDevice, plugged, romVars, faults,
                         unserved, abandoned>>
      BY <2>2, Zenon DEF tty_open
    <3>4. toHost' \in Seq(HostPacket)
      <4>1. <<>> \in Seq(HostPacket) /\ toHost \in Seq(HostPacket)
        OBVIOUS
      <4> QED
        BY <3>2, <4>1, Zenon
    <3> QED
      BY <3>1, <3>3, <3>4 DEF userVars, romVars, lostVars
  <2>3. CASE sahara_hello
    BY <2>3 DEF sahara_hello, Reads, userVars, romVars, Packet, None,
                  HostPacket, DevicePacket
  <2>4. CASE sahara_read
    <3>1. unserved' \in BOOLEAN
      BY <2>4, Zenon DEF sahara_read
    <3>2. toHost[1] \in HostPacket
      <4>1. Len(toHost) = 1
        BY <2>4, Zenon DEF sahara_read, Reads
      <4>2. 1 \in 1..Len(toHost)
        BY <4>1, SMT
      <4>3. toHost \in Seq(HostPacket)
        OBVIOUS
      <4> QED
        BY <4>2, <4>3, ElementOfSeq, Zenon
    <3>3. ASSUME toHost[1].arg \in file
          PROVE  Packet("data", toHost[1].arg) \in DevicePacket
      BY <3>3, FilesAssumption DEF Packet, DevicePacket
    <3>4. toDevice' \in Seq(DevicePacket)
      BY <2>4, <3>3 DEF sahara_read
    <3> QED
      BY <3>1, <3>4, <2>4 DEF sahara_read, Reads, userVars, romVars
  <2>5. CASE sahara_eoi
    <3>1. Packet("done", None) \in DevicePacket
      BY DEF Packet, None, DevicePacket
    <3>2. toDevice' \in Seq(DevicePacket)
      BY <2>5, <3>1 DEF sahara_eoi
    <3> QED
      BY <3>2, <2>5 DEF sahara_eoi, Reads, userVars, romVars
  <2>6. CASE sahara_done
    BY <2>6 DEF sahara_done, Reads, userVars, romVars
  <2>7. CASE LengthMismatch
    BY <2>7 DEF LengthMismatch, userVars, romVars, lostVars
  <2>8. CASE firehose_run
    <3>1. Packet("xml", None) \in DevicePacket
      BY DEF Packet, None, DevicePacket
    <3>2. toDevice' \in Seq(DevicePacket)
      BY <2>8, <3>1 DEF firehose_run
    <3> QED
      BY <3>2, <2>8 DEF firehose_run, userVars, romVars, lostVars
  <2>9. CASE main_out
    BY <2>9 DEF main_out, userVars, romVars, lostVars
  <2>10. CASE ReadFails
    BY <2>10 DEF ReadFails, userVars, romVars, lostVars
  <2>11. CASE Killed
    <3>1. abandoned' \in BOOLEAN
      BY <2>11, Zenon DEF Killed
    <3> QED
      BY <3>1, <2>11 DEF Killed, userVars, romVars
  <2>23. CASE ShortRead
    <3>1. toHost' = Tail(toHost) /\ toHost # <<>>
      BY <2>23, Zenon DEF ShortRead
    <3>2. toHost' \in Seq(HostPacket)
      BY <3>1
    <3> QED
      BY <3>2, <2>23 DEF ShortRead, userVars, romVars, lostVars
  <2>12. CASE RomHello
    BY <2>12
       DEF RomHello, RomSends, RomTakes, userVars, lostVars, Packet, None,
           HostPacket, RomStates
  <2>13. CASE RomHelloResp
    BY <2>13
       DEF RomHelloResp, RomSends, RomTakes, userVars, lostVars, Packet, None,
           HostPacket, RomStates
  <2>14. CASE RomAsks
    BY <2>14 DEF RomAsks, RomSends, RomTakes, userVars, lostVars, Packet, None,
                 HostPacket, RomStates
  <2>15. CASE RomData
    BY <2>15 DEF RomData, RomSends, RomTakes, userVars, lostVars, Packet, None,
                 HostPacket, RomStates
  <2>16. CASE RomEndOfImage
    <3>1. \A a \in {"ok", "bad"} : Packet("eoi", a) \in HostPacket
      BY DEF Packet, HostPacket
    <3>2. /\ \E a \in {"ok", "bad"} : toHost' = Append(toHost, Packet("eoi", a))
          /\ rom' \in {"ended", "refused"}
      BY <2>16 DEF RomEndOfImage, RomSends
    <3>3. toHost' \in Seq(HostPacket) /\ rom' \in RomStates
      BY <3>1, <3>2 DEF RomStates
    <3> QED
      BY <3>3, <2>16 DEF RomEndOfImage, RomSends, userVars, lostVars
  <2>17. CASE RomDone
    BY <2>17
       DEF RomDone, RomSends, RomTakes, userVars, lostVars, Packet, None,
           HostPacket, RomStates
  <2>18. CASE RomStarts
    BY <2>18
       DEF RomStarts, RomSends, RomTakes, userVars, lostVars, Packet, None,
           HostPacket, RomStates
  <2>19. CASE Unplug
    <3>1. plugged' \in BOOLEAN
      BY <2>19, Zenon DEF Unplug
    <3>2. /\ flushed' \in BOOLEAN /\ unserved' \in BOOLEAN
          /\ abandoned' \in BOOLEAN
      BY <2>19, Zenon DEF Unplug, lostVars
    <3> QED
      BY <3>1, <3>2, <2>19 DEF Unplug, userVars, romVars, lostVars
  <2>20. CASE Replug
    BY <2>20 DEF Replug, userVars, lostVars, None, RomStates
  <2>21. CASE Idle
    BY <2>21 DEF Idle, vars, userVars, romVars, lostVars
  <2>22. CASE UNCHANGED vars
    BY <2>22 DEF vars, userVars, romVars, lostVars
  <2> QED
    BY <2>1, <2>2, <2>3, <2>4, <2>5, <2>6, <2>7, <2>8, <2>9, <2>10, <2>11,
       <2>12, <2>13, <2>14, <2>15, <2>16, <2>17, <2>18, <2>19, <2>20, <2>21,
       <2>22, <2>23
       DEF Next, HostStep, RomStep
<1> QED
  BY <1>1, <1>2, PTL DEF Spec

-----------------------------------------------------------------------------
(* A queue of one packet, built and taken apart.                           *)
LEMMA OnePacket ==
    ASSUME NEW p
    PROVE  /\ Append(<<>>, p) = <<p>> /\ Len(<<p>>) = 1 /\ <<p>>[1] = p
           /\ Head(<<p>>) = p /\ Tail(<<p>>) = <<>> /\ <<p>> # <<>>
           /\ Len(<<>>) = 0
  OBVIOUS

(* Packets differ in their command.                                        *)
LEMMA Packets ==
    ASSUME NEW c, NEW d, NEW a, NEW b
    PROVE  /\ Packet(c, a).cmd = c /\ Packet(c, a).arg = a
           /\ Packet(c, a) = Packet(d, b) <=> c = d /\ a = b
  BY DEF Packet

(* In a session the queues hold one packet at most.                        *)
LEMMA SessionShort ==
    ASSUME Session, TypeOK
    PROVE  Len(toHost) + Len(toDevice) <= 1 /\ Len(toHost) <= 1
<1>1. Quiet \/ \E p : Asks(p) \/ Says(p)
  BY Zenon DEF Session, Line, Lost, TypeOK, RomStates
<1>2. CASE Quiet
  BY <1>2 DEF Quiet
<1>3. ASSUME NEW p, Asks(p) \/ Says(p)
      PROVE  Len(toHost) + Len(toDevice) <= 1 /\ Len(toHost) <= 1
  <2>1. Len(<<p>>) = 1 /\ Len(<<>>) = 0
    BY OnePacket
  <2>2. \/ Len(toHost) = 1 /\ Len(toDevice) = 0
        \/ Len(toHost) = 0 /\ Len(toDevice) = 1
    BY <1>3, <2>1, Zenon DEF Asks, Says
  <2>3. CASE Len(toHost) = 1 /\ Len(toDevice) = 0
    BY <2>3
  <2>4. CASE Len(toHost) = 0 /\ Len(toDevice) = 1
    BY <2>4
  <2> QED
    BY <2>2, <2>3, <2>4
<1> QED
  BY <1>1, <1>2, <1>3

(* The packet the host reads tells it the state of the device.             *)
LEMMA ReadFinds ==
    ASSUME Session, TypeOK, NEW cmd, Reads(cmd)
    PROVE  /\ plugged /\ toDevice = <<>> /\ toHost # <<>> /\ toHost' = <<>>
           /\ cmd = "hello" => rom = "greeted"
           /\ cmd = "read" => rom = "waiting" /\ toHost[1].arg = want
           /\ cmd = "eoi" => \/ rom = "ended" /\ toHost[1].arg = "ok"
                             \/ rom = "refused" /\ toHost[1].arg = "bad"
           /\ cmd = "done_resp" => rom = "programmer"
<1>1. toHost # <<>> /\ toHost[1].cmd = cmd /\ toHost' = <<>>
  BY OnePacket DEF Reads
<1>2. plugged /\ Line
  BY <1>1 DEF Session, Quiet
<1>3. \E p : Asks(p) /\ p = toHost[1]
  BY <1>1, <1>2, OnePacket DEF Line, Quiet, Asks, Says, Lost, TypeOK, RomStates
<1> QED
  BY <1>1, <1>2, <1>3, OnePacket, Packets
     DEF Line, Quiet, Asks, Says, Lost, TypeOK, RomStates

(* The session invariant holds initially and is kept by every step.        *)
LEMMA SessionKept ==
    Spec => []SessionInv
<1>1. Init => SessionInv
  BY
     DEF Init, SessionInv, Session, Image, Quiet, Line, HandOver, Dead,
         HostsTurn
<1>2. TypeOK /\ SessionInv /\ [Next]_vars => SessionInv'
  <2> SUFFICES ASSUME TypeOK, SessionInv, [Next]_vars, ~faulted' PROVE Session'
    BY DEF SessionInv
  <2>a. faults' \in {faults, faults + 1}
    BY
       DEF Next, HostStep, RomStep, find_qdl_tty, tty_open, sahara_hello,
           sahara_read, sahara_eoi, sahara_done, Reads, LengthMismatch,
           ShortRead, firehose_run, main_out, ReadFails, Killed, RomHello,
           RomHelloResp, RomAsks, RomData, RomEndOfImage, RomDone, RomStarts,
           RomSends, RomTakes, Unplug, Replug, Idle, vars
  <2>0. Session /\ faults = 0 /\ faults' = 0 /\ kills \in Nat
    BY <2>a DEF SessionInv, faulted, TypeOK
  <2> USE <2>0, OnePacket, Packets
  <2>1. CASE find_qdl_tty
    BY <2>1
       DEF find_qdl_tty, Session, Image, Line, HandOver, Dead, HostsTurn,
           Quiet, Asks, Says, Lost, userVars, romVars, lostVars
  <2>2. CASE tty_open
    <3>0. /\ proc = "open" /\ proc' \in {"sahara", "exited"}
          /\ UNCHANGED <<file, kills, ret, toDevice, plugged, rom, want, loaded,
                         faults, unserved, abandoned>>
      BY <2>2, Zenon DEF tty_open, userVars, romVars
    <3>1. CASE UNCHANGED <<toHost, flushed>>
      BY <3>0, <3>1
         DEF Session, Image, Line, HandOver, Dead, HostsTurn, Quiet, Asks,
             Says, Lost
    <3>2. CASE toHost # <<>> /\ toHost' = <<>> /\ flushed' = TRUE
      <4>1. plugged /\ Line /\ HandOver
        BY <3>2, Zenon DEF Session, Quiet
      <4>2. toDevice = <<>> /\ ~flushed /\ ~unserved /\ ~abandoned
        BY <3>2, <4>1, Zenon
           DEF Line, HandOver, Quiet, Asks, Says, Lost, TypeOK, RomStates
      <4>3. HostsTurn
        BY <3>2, <4>1, Zenon
           DEF Line, HostsTurn, Quiet, Asks, Says, Lost, TypeOK, RomStates
      <4> QED
        BY <3>0, <3>2, <4>1, <4>2, <4>3
           DEF Session, Image, Line, HandOver, Dead, HostsTurn, Quiet, Asks,
               Says, Lost
    <3> QED
      BY <2>2, <3>1, <3>2, Zenon DEF tty_open
  <2>3. CASE sahara_hello
    <3>1. plugged /\ rom = "greeted" /\ toHost' = <<>> /\ toDevice = <<>>
      BY <2>3, ReadFinds, Zenon DEF sahara_hello
    <3>2. toDevice' = <<Packet("hello_resp", None)>>
      BY <2>3, <3>1 DEF sahara_hello
    <3> QED
      BY <2>3, <3>1, <3>2
         DEF sahara_hello, Reads, userVars, romVars, Session, Image, Line,
             HandOver, Dead, HostsTurn, Quiet, Says, Lost
  <2>4. CASE sahara_read
    <3>1. /\ plugged /\ rom = "waiting" /\ toHost[1].arg = want
          /\ toHost' = <<>> /\ toDevice = <<>>
      BY <2>4, ReadFinds, Zenon DEF sahara_read
    <3>2. CASE unserved'
      <4>0. toHost # <<>>
        BY <2>4, ReadFinds, Zenon DEF sahara_read
      <4>1. ~unserved /\ ~flushed /\ ~abandoned
        BY <3>1, <4>0, Zenon DEF Session, HandOver, Quiet
      <4>2. /\ toDevice' = <<>> /\ proc' \in {"exited", "sahara"}
            /\ UNCHANGED <<file, kills, ret, plugged, rom, want, loaded, faults,
                           flushed, abandoned>>
        BY <2>4, <3>1, <3>2, <4>1
           DEF sahara_read, Reads, userVars, romVars
      <4> QED
        BY <3>1, <3>2, <4>1, <4>2
           DEF Session, Image, Line, HandOver, Dead, HostsTurn, Quiet, Says,
               Lost
    <3>3. CASE ~unserved'
      <4>1. toDevice' = <<Packet("data", want)>>
        BY <2>4, <3>1, <3>3 DEF sahara_read
      <4> QED
        BY <2>4, <3>1, <4>1
           DEF sahara_read, Reads, userVars, romVars, Session, Image, Line,
               HandOver, Dead, HostsTurn, Quiet, Says, Lost
    <3> QED
      BY <3>2, <3>3
  <2>5. CASE sahara_eoi
    <3>1. /\ plugged /\ toHost' = <<>> /\ toDevice = <<>>
          /\ \/ rom = "ended" /\ toHost[1].arg = "ok"
             \/ rom = "refused" /\ toHost[1].arg = "bad"
      BY <2>5, ReadFinds, Zenon DEF sahara_eoi
    <3>2. \/ rom = "ended" /\ toDevice' = <<Packet("done", None)>>
          \/ rom = "refused" /\ toDevice' = <<>>
      BY <2>5, <3>1 DEF sahara_eoi
    <3>3. /\ proc = "sahara"
          /\ UNCHANGED <<file, kills, proc, ret, plugged, rom, want, loaded,
                         faults, flushed, unserved, abandoned>>
      BY <2>5 DEF sahara_eoi, Reads, userVars, romVars
    <3>4. toHost # <<>>
      BY <2>5, ReadFinds, Zenon DEF sahara_eoi
    <3>5. ~unserved /\ ~flushed /\ ~abandoned
      BY <3>1, <3>4, Zenon DEF Session, HandOver, Quiet
    <3> QED
      BY <3>1, <3>2, <3>3, <3>5
         DEF Session, Image, Line, HandOver, Dead, HostsTurn, Quiet, Says, Lost
  <2>6. CASE sahara_done
    <3>1. plugged /\ rom = "programmer" /\ toHost' = <<>> /\ toDevice = <<>>
      BY <2>6, ReadFinds, Zenon DEF sahara_done
    <3> QED
      BY <2>6, <3>1
         DEF sahara_done, Reads, userVars, romVars, Session, Image, Line,
             HandOver, Dead, HostsTurn, Quiet, Says, Lost
  <2>7. CASE LengthMismatch
    BY <2>7, SessionShort DEF LengthMismatch
  <2>8. CASE firehose_run
    BY <2>8
       DEF firehose_run, Session, Image, Line, HandOver, Dead, HostsTurn,
           Quiet, Asks, Says, Lost, userVars, romVars, lostVars
  <2>9. CASE main_out
    BY <2>9
       DEF main_out, TypeOK, userVars, romVars, lostVars, Session, Image, Line,
           HandOver, Dead, HostsTurn, Quiet, Asks, Says, Lost
  <2>10. CASE ReadFails
    BY <2>10 DEF ReadFails
  <2>11. CASE Killed
    BY <2>11
       DEF Killed, Session, Image, Line, HandOver, Dead, HostsTurn, Quiet,
           Asks, Says, Lost, userVars, romVars, lostVars
  <2>23. CASE ShortRead
    BY <2>23 DEF ShortRead
  <2>12. CASE RomHello
    BY <2>12
       DEF RomHello, Session, Image, Line, HandOver, Dead, HostsTurn, Quiet,
           Asks, Says, Lost, RomSends, RomTakes, userVars, lostVars
  <2>13. CASE RomHelloResp
    <3>1. /\ plugged /\ rom = "greeted" /\ rom' = "loading" /\ toDevice # <<>>
          /\ Head(toDevice).cmd = "hello_resp" /\ toDevice' = Tail(toDevice)
          /\ UNCHANGED <<file, kills, proc, ret, toHost, plugged, faults,
                         flushed, unserved, abandoned, want,
                         loaded>>
      BY <2>13 DEF RomHelloResp, RomTakes, userVars, lostVars
    <3>2. Says(Packet("hello_resp", None))
      BY <3>1, Zenon DEF Session, Line, Asks, Lost, Quiet
    <3>3. toDevice' = <<>> /\ toHost' = <<>>
      BY <3>1, <3>2 DEF Says
    <3> QED
      BY <3>1, <3>3 DEF Session, Image, Line, HandOver, Dead, HostsTurn, Quiet
  <2>14. CASE RomAsks
    BY <2>14
       DEF RomAsks, Session, Image, Line, HandOver, Dead, HostsTurn, Quiet,
           Asks, Says, Lost, RomSends, RomTakes, userVars, lostVars
  <2>15. CASE RomData
    <3>1. plugged /\ rom = "waiting" /\ toDevice # <<>> /\ want \in Wanted
      BY <2>15 DEF RomData, RomTakes, Session, Image
    <3>2. Says(Packet("data", want))
      BY <3>1, Zenon DEF Session, Line, Asks, Lost, Quiet
    <3>3. toDevice' = <<>> /\ toHost' = <<>> /\ loaded' = loaded \cup {want}
      BY <2>15, <3>2 DEF RomData, RomTakes, Says
    <3>4. rom' = "loading"
      BY <2>15 DEF RomData, RomTakes
    <3> QED
      BY <2>15, <3>1, <3>3, <3>4
         DEF RomData, RomTakes, userVars, lostVars, Session, Image, Line,
             HandOver, Dead, HostsTurn, Quiet
  <2>16. CASE RomEndOfImage
    <3>1. plugged /\ rom = "loading" /\ Quiet /\ toDevice' = <<>>
      BY <2>16 DEF RomEndOfImage, RomSends, Session, Line, Quiet
    <3>2. \/ /\ rom' = "ended" /\ loaded = Wanted
             /\ toHost' = <<Packet("eoi", "ok")>>
          \/ rom' = "refused" /\ toHost' = <<Packet("eoi", "bad")>>
      BY <2>16, <3>1 DEF RomEndOfImage, RomSends, Session, Image, Quiet
    <3>3. UNCHANGED <<file, kills, proc, ret, plugged, want, loaded, faults,
                      flushed, unserved, abandoned>>
      BY <2>16 DEF RomEndOfImage, RomSends, userVars, lostVars
    <3>4. ~unserved /\ ~flushed /\ ~abandoned /\ proc # "returned"
      BY <3>1, Zenon DEF Session, HandOver, HostsTurn
    <3> QED
      BY <3>1, <3>2, <3>3, <3>4
         DEF Session, Image, Line, HandOver, Dead, HostsTurn, Quiet, Asks
  <2>17. CASE RomDone
    <3>1. /\ plugged /\ rom = "ended" /\ rom' = "starting" /\ toDevice # <<>>
          /\ Head(toDevice).cmd = "done" /\ toDevice' = Tail(toDevice)
          /\ UNCHANGED <<file, kills, proc, ret, toHost, plugged, faults,
                         flushed, unserved, abandoned, want,
                         loaded>>
      BY <2>17 DEF RomDone, RomTakes, userVars, lostVars
    <3>2. Says(Packet("done", None))
      BY <3>1, Zenon DEF Session, Line, Asks, Lost, Quiet
    <3>3. toDevice' = <<>> /\ toHost' = <<>>
      BY <3>1, <3>2 DEF Says
    <3> QED
      BY <3>1, <3>3 DEF Session, Image, Line, HandOver, Dead, HostsTurn, Quiet
  <2>18. CASE RomStarts
    BY <2>18
       DEF RomStarts, Session, Image, Line, HandOver, Dead, HostsTurn, Quiet,
           Asks, Says, Lost, RomSends, RomTakes, userVars, lostVars
  <2>19. CASE Unplug
    BY <2>19
       DEF Unplug, Session, Image, Line, HandOver, Dead, HostsTurn, Quiet,
           Asks, Says, Lost, userVars, romVars, lostVars
  <2>20. CASE Replug
    BY <2>20
       DEF Replug, Session, Image, Line, HandOver, Dead, HostsTurn, Quiet,
           Asks, Says, Lost, userVars, romVars, lostVars
  <2>21. CASE Idle
    BY <2>21
       DEF Idle, Session, Image, Line, HandOver, Dead, HostsTurn, Quiet, Asks,
           Says, Lost, vars, userVars, romVars, lostVars
  <2>22. CASE UNCHANGED vars
    BY <2>22
       DEF vars, userVars, romVars, lostVars, Session, Image, Line, HandOver,
           Dead, HostsTurn, Quiet, Asks, Says, Lost
  <2> QED
    BY <2>1, <2>2, <2>3, <2>4, <2>5, <2>6, <2>7, <2>8, <2>9, <2>10, <2>11,
       <2>12, <2>13, <2>14, <2>15, <2>16, <2>17, <2>18, <2>19, <2>20, <2>21,
       <2>22, <2>23
       DEF Next, HostStep, RomStep
<1> QED
  BY <1>1, <1>2, TypeCorrect, PTL DEF Spec

(* What the invariant says of the properties, all of them about a session  *)
(* up to its first failed read.                                            *)
LEMMA SessionSafe ==
    Spec => [](HalfDuplex /\ ImageIntact /\ XmlOnlyToProgrammer /\ NobodyWaits)
<1>1. TypeOK /\ SessionInv =>
        HalfDuplex /\ ImageIntact /\ XmlOnlyToProgrammer /\ NobodyWaits
  <2> SUFFICES ASSUME TypeOK, SessionInv, ~faulted
               PROVE  HalfDuplex /\ ImageIntact /\ XmlOnlyToProgrammer
                        /\ NobodyWaits
    BY DEF HalfDuplex, ImageIntact, XmlOnlyToProgrammer, NobodyWaits
  <2>0. Session
    BY DEF SessionInv
  <2>1. HalfDuplex
    BY <2>0, SessionShort DEF HalfDuplex
  <2>2. ImageIntact
    BY <2>0 DEF ImageIntact, Session, Image
  <2>3. XmlOnlyToProgrammer
    <3> SUFFICES ASSUME NEW k \in 1..Len(toDevice), toDevice[k].cmd = "xml"
                 PROVE  rom = "programmer"
      BY DEF XmlOnlyToProgrammer
    <3>1. toDevice # <<>> /\ k = 1
      BY <2>0, SessionShort, EmptySeq DEF TypeOK
    <3>2. plugged /\ Line
      BY <2>0, <3>1 DEF Session, Quiet
    <3>3. PICK p : Says(p)
      BY <3>1, <3>2, Zenon DEF Line, Quiet, Asks, Lost, TypeOK, RomStates
    <3>4. p.cmd = "xml"
      BY <3>1, <3>3, OnePacket DEF Says
    <3> QED
      BY <3>2, <3>3, <3>4, OnePacket, Packets
         DEF Line, Quiet, Asks, Says, Lost, TypeOK, RomStates
  <2>4. NobodyWaits
    BY <2>0, OnePacket
       DEF NobodyWaits, HostsTurn, Dead, Session, Line, HandOver, Quiet, Asks,
           Says, Lost
  <2> QED
    BY <2>1, <2>2, <2>3, <2>4
<1> QED
  BY <1>1, TypeCorrect, SessionKept, PTL

(* There is one packet in flight at most, on either side of the line.      *)
THEOREM OneInFlight == Spec => []HalfDuplex
  BY SessionSafe, PTL

(* A programmer that was started is the image the host was given, however  *)
(* often the process was killed, restarted or the device replugged.        *)
THEOREM ImageArrives == Spec => []ImageIntact
  BY SessionSafe, PTL

(* Firehose documents go to a running programmer, never to the boot ROM.   *)
THEOREM XmlForProgrammer == Spec => []XmlOnlyToProgrammer
  BY SessionSafe, PTL

(* Host and boot ROM wait for each other in the known cases only.          *)
THEOREM NoMutualWait == Spec => []NobodyWaits
  BY SessionSafe, PTL
=============================================================================
