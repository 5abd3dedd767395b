--------------------------- MODULE FirehoseProofs ---------------------------
(***************************************************************************)
(* What the session of Firehose.tla guarantees for every plan, every set   *)
(* of payload sizes and any number of log lines and failed reads: types,   *)
(* list positions that exist, two sides that agree on when raw mode begins *)
(* and ends, the order of the commands and, at the end of the module, that *)
(* the session implements FlashJob.                                        *)
(***************************************************************************)
EXTENDS FirehoseJob, SequenceTheorems, TLAPS

-----------------------------------------------------------------------------
(* Types.                                                                  *)

(* The number of sectors of an image and of a chunk are natural numbers.   *)
LEMMA SectorCounts ==
    ASSUME NEW p \in Program, payload \in Nat, left \in Nat
    PROVE  /\ Sectors(p) \in Nat
           /\ Chunk(p) \in Nat
           /\ Chunk(p) <= left
<1>1. /\ p.sector \in Nat \ {0}
      /\ p.bytes \in Nat
      /\ p.limit \in Nat
  BY DEF Program
<1>2. \A a \in Nat, b \in Nat \ {0} : a \div b \in Nat
  BY SMT
<1>3. (p.bytes + p.sector - 1) \div p.sector \in Nat
  <2>1. p.bytes + p.sector - 1 \in Nat
    BY <1>1
  <2>2. QED
    BY <1>1, <1>2, <2>1
<1>4. payload \div p.sector \in Nat
  BY <1>1, <1>2
<1>5. QED
  BY <1>1, <1>3, <1>4 DEF Sectors, Chunk, Least

(* A suffix of a queue is a queue of the same things.                      *)
LEMMA SuffixType ==
    ASSUME NEW S, NEW q \in Seq(S), NEW k \in 1..Len(q)
    PROVE  SubSeq(q, k + 1, Len(q)) \in Seq(S)
  BY SMT

(* Every way a read can end keeps the link well typed.                     *)
LEMMA ReadType ==
    ASSUME LinkTypeOK,
           \/ \E parser, r : firehose_read(parser, r)
           \/ ReadLogs
           \/ DrainBatch
    PROVE  LinkTypeOK' /\ toDevice' = toDevice
<1> USE DEF LinkTypeOK
<1>1. CASE \E k \in 1..Len(toHost) :
              /\ toHost' = SubSeq(toHost, k + 1, Len(toHost))
              /\ UNCHANGED <<toDevice, plugged>>
              /\ faults' = faults \/ Fault
  <2>1. toHost' \in Seq(Message)
    BY <1>1, SuffixType
  <2>2. faults' \in 0..MaxFaults
    BY <1>1, FaultsAssumption DEF Fault
  <2>3. QED
    BY <1>1, <2>1, <2>2
<1>2. CASE \E r : ReadFails(r)
  BY <1>2, FaultsAssumption DEF ReadFails, Fault
<1>3. QED
  BY <1>1, <1>2
     DEF firehose_read, ReadBatch, ReadGarbled, ReadLogs, DrainBatch

(* The plan is a plan, and its sizes are numbers.                          *)
LEMMA PlanType ==
    ASSUME plan \in Plans
    PROVE  /\ plan.ufs \in BOOLEAN
           /\ plan.lus \in Nat
           /\ plan.programs \in Seq(Program)
           /\ plan.patches \in Seq(BOOLEAN)
           /\ Tags \in Nat
  BY PlansAssumption DEF Plan, Tags

(* What firehose_write is given is a document.                             *)
LEMMA DocumentType ==
    ASSUME NEW op \in SimpleOps \cup {"configure", "program", "data"},
           NEW n \in Nat
    PROVE  Cmd(op, n) \in Document
  BY DEF Cmd, Document

(* Both halves of a step of the session keep the types; of the first half  *)
(* the document is all that has to be looked at, of the second the values  *)
(* the host gives its own variables.                                       *)
LEMMA RequestType ==
    ASSUME NEW step, NEW cmd \in Document, TypeOK, Request(step, cmd)
    PROVE  TypeOK'
<1>1. LinkTypeOK' /\ toDevice' \in Seq(Document)
  BY DEF Request, firehose_write, TypeOK, LinkTypeOK
<1>2. HostTypeOK' /\ TargetTypeOK'
  BY DEF Request, TypeOK, HostTypeOK, TargetTypeOK, targetVars
<1>3. QED
  BY <1>1, <1>2 DEF Request, TypeOK

(* What a step that reads an answer does besides its own decision.         *)
LEMMA AnswerFacts ==
    ASSUME NEW step, NEW parser, NEW r, Answer(step, parser, r)
    PROVE  /\ pc = step
           /\ waiting' = FALSE
           /\ waiting' \in BOOLEAN
           /\ firehose_read(parser, r)
           /\ UNCHANGED <<plan, cap, targetVars>>
  BY DEF Answer

(* A step that reads an answer keeps the types if its decision does.       *)
LEMMA AnswerType ==
    ASSUME NEW step, NEW parser, NEW r, TypeOK, Answer(step, parser, r),
           HostTypeOK'
    PROVE  TypeOK'
<1>1. LinkTypeOK' /\ toDevice' = toDevice
  BY ReadType DEF TypeOK, Answer
<1>2. TargetTypeOK'
  BY DEF Answer, TypeOK, TargetTypeOK, targetVars
<1>3. QED
  BY <1>1, <1>2 DEF TypeOK, Answer

(* So does a step of the host that touches neither link nor target.        *)
LEMMA QuietType ==
    ASSUME TypeOK, UNCHANGED <<plan, cap, targetVars, link>>, HostTypeOK'
    PROVE  TypeOK'
  BY DEF TypeOK, LinkTypeOK, TargetTypeOK, targetVars, link

-----------------------------------------------------------------------------
(* Every step of the host keeps the types.                                 *)
LEMMA HostTypes == TypeOK /\ InRange /\ HostStep => TypeOK'
<1> SUFFICES ASSUME TypeOK, InRange, HostStep PROVE TypeOK'
  OBVIOUS
<1> USE DEF GoTo, Return, Steps
<1>0. HostTypeOK /\ plan \in Plans /\ LinkTypeOK
  BY DEF TypeOK
<1>1. CASE WaitForTarget
  <2>1. HostTypeOK'
    BY <1>0, <1>1 DEF WaitForTarget, HostTypeOK
  <2>2. QED
    BY <1>1, <2>1, QuietType DEF WaitForTarget
<1>2. CASE Drain
  <2>1. HostTypeOK'
    BY <1>0, <1>2 DEF Drain, HostTypeOK
  <2>2. LinkTypeOK' /\ toDevice' = toDevice
    BY <1>0, <1>2, ReadType DEF Drain, LinkTypeOK, link
  <2>3. QED
    BY <1>2, <2>1, <2>2 DEF Drain, TypeOK, TargetTypeOK, targetVars
<1>3. CASE firehose_nop \/ firehose_reset
  BY <1>3, RequestType, DocumentType DEF firehose_nop, firehose_reset,
                                         SimpleOps
<1>4. CASE firehose_send_configure
  BY <1>0, <1>4, RequestType, DocumentType DEF firehose_send_configure,
                                               HostTypeOK
<1>5. CASE firehose_send_single_tag
  BY <1>0, <1>5, RequestType, DocumentType
     DEF firehose_send_single_tag, SimpleOps, HostTypeOK
<1>6. CASE firehose_program
  BY <1>0, <1>6, RequestType, DocumentType DEF firehose_program, HostTypeOK
<1>7. CASE firehose_apply_patch
  BY <1>0, <1>7, RequestType, DocumentType
     DEF firehose_apply_patch, SimpleOps, HostTypeOK
<1>8. CASE firehose_set_bootable
  <2>1. PICK i \in 1..Len(plan.programs) :
          Request("bootable",
                  Cmd("setbootablestoragedrive", plan.programs[i].part))
    BY <1>8 DEF firehose_set_bootable
  <2>2. plan.programs[i] \in Program
    BY <1>0, PlanType
  <2>3. plan.programs[i].part \in Nat
    BY <2>2 DEF Program
  <2>4. QED
    BY <2>1, <2>3, RequestType, DocumentType DEF SimpleOps
<1>9. CASE firehose_nop_answer
  <2>1. PICK r \in {-1, 0, 1} :
          /\ Answer("nop", "nop", r)
          /\ IF r = 0 THEN GoTo("configure") ELSE Return(r)
          /\ UNCHANGED <<item, commit, ask, payload, left>>
    BY <1>9 DEF firehose_nop_answer
  <2>2. HostTypeOK'
    <3>1. waiting' \in BOOLEAN
      BY <2>1, AnswerFacts
    <3>2. QED
      BY <1>0, <2>1, <3>1 DEF HostTypeOK
  <2>3. QED
    BY <2>1, <2>2, AnswerType
<1>10. CASE firehose_configure_answer
  <2>1. PICK r \in {-1, 0, 1} \cup Caps :
          /\ Answer("configure", "configure", r)
          /\ \/ r < 0 /\ Return(r) /\ ask' = ask
             \/ r >= 0 /\ r # payload /\ GoTo("reconfigure") /\ ask' = r
             \/ r >= 0 /\ r = payload /\ GoTo(AfterConfigure) /\ ask' = ask
          /\ UNCHANGED <<item, commit, payload, left>>
    BY <1>10 DEF firehose_configure_answer
  <2>2. r \in Int
    BY CapsAssumption
  <2>3. HostTypeOK'
    <3>1. waiting' \in BOOLEAN
      BY <2>1, AnswerFacts
    <3>2. QED
      BY <1>0, <2>1, <2>2, <3>1 DEF HostTypeOK, AfterConfigure
  <2>4. QED
    BY <2>1, <2>3, AnswerType
<1>11. CASE firehose_reconfigure_answer
  <2>1. PICK r \in {-1, 0, 1} \cup Caps :
          /\ Answer("reconfigure", "configure", r)
          /\ \/ r < 0 /\ Return(r) /\ payload' = payload
             \/ r >= 0 /\ GoTo(AfterConfigure) /\ payload' = r
          /\ UNCHANGED <<item, commit, ask, left>>
    BY <1>11 DEF firehose_reconfigure_answer
  <2>2. r \in Int
    BY CapsAssumption
  <2>3. HostTypeOK'
    <3>1. waiting' \in BOOLEAN
      BY <2>1, AnswerFacts
    <3>2. QED
      BY <1>0, <2>1, <2>2, <3>1 DEF HostTypeOK, AfterConfigure
  <2>4. QED
    BY <2>1, <2>3, AnswerType
<1>12. CASE firehose_single_tag_answer
  <2>1. HostTypeOK'
    <3>1. waiting' \in BOOLEAN
      BY <1>12, AnswerFacts DEF firehose_single_tag_answer
    <3>2. commit' \in BOOLEAN
      BY <1>0, <1>12, Zenon DEF firehose_single_tag_answer, HostTypeOK
    <3>3. pc' \in Steps /\ ret' \in Int
      BY <1>0, <1>12 DEF firehose_single_tag_answer, HostTypeOK
    <3>4. item' \in Nat \ {0} /\ UNCHANGED <<ask, payload, left>>
      BY <1>0, <1>12 DEF firehose_single_tag_answer, HostTypeOK
    <3>5. QED
      BY <1>0, <3>1, <3>2, <3>3, <3>4 DEF HostTypeOK
  <2>2. QED
    BY <1>12, <2>1, AnswerType DEF firehose_single_tag_answer
<1>13. CASE program_execute \/ patch_execute
  <2>1. HostTypeOK'
    BY <1>0, <1>13 DEF program_execute, patch_execute, HostTypeOK
  <2>2. QED
    BY <1>13, <2>1, QuietType DEF program_execute, patch_execute
<1>14. CASE firehose_program_setup
  <2>1. PICK r \in {-1, 0, 1} :
          /\ Answer("program", "nop", r)
          /\ \/ r # 0 /\ Return(r) /\ left' = left
             \/ r = 0 /\ GoTo("data") /\ left' = Sectors(Here)
          /\ UNCHANGED <<item, commit, ask, payload>>
    BY <1>14 DEF firehose_program_setup
  <2>2. Here \in Program
    BY <1>0, <2>1, PlanType DEF InRange, Here, Answer
  <2>3. HostTypeOK'
    <3>1. waiting' \in BOOLEAN
      BY <2>1, AnswerFacts
    <3>2. QED
      BY <1>0, <2>1, <2>2, <3>1, SectorCounts DEF HostTypeOK
  <2>4. QED
    BY <2>1, <2>3, AnswerType
<1>15. CASE firehose_program_data
  <2>1. Here \in Program
    BY <1>0, <1>15, PlanType DEF InRange, Here, firehose_program_data
  <2>2. Chunk(Here) \in Nat /\ Chunk(Here) <= left
    BY <1>0, <2>1, SectorCounts DEF HostTypeOK
  <2>3. HostTypeOK'
    BY <1>0, <1>15, <2>2 DEF firehose_program_data, HostTypeOK
  <2>4. LinkTypeOK' /\ toDevice' \in Seq(Document)
    <3>1. Cmd("data", Chunk(Here)) \in Document
      BY <2>2, DocumentType
    <3>2. firehose_write(Cmd("data", Chunk(Here)))
      BY <1>15 DEF firehose_program_data
    <3>3. QED
      BY <3>1, <3>2 DEF firehose_write, TypeOK, LinkTypeOK
  <2>5. QED
    BY <1>15, <2>3, <2>4
       DEF firehose_program_data, TypeOK, TargetTypeOK, targetVars
<1>16. CASE firehose_program_finish \/ firehose_apply_patch_answer
  <2>1. HostTypeOK'
    <3>1. waiting' \in BOOLEAN
      BY <1>16, AnswerFacts
         DEF firehose_program_finish, firehose_apply_patch_answer
    <3>2. QED
      BY <1>0, <1>16, <3>1
         DEF firehose_program_finish, firehose_apply_patch_answer, HostTypeOK
  <2>2. QED
    BY <1>16, <2>1, AnswerType
       DEF firehose_program_finish, firehose_apply_patch_answer
<1>17. CASE firehose_set_bootable_answer \/ firehose_reset_answer
  <2>1. HostTypeOK'
    <3>1. waiting' \in BOOLEAN
      BY <1>17, AnswerFacts
         DEF firehose_set_bootable_answer, firehose_reset_answer
    <3>2. QED
      BY <1>0, <1>17, <3>1
         DEF firehose_set_bootable_answer, firehose_reset_answer, HostTypeOK
  <2>2. QED
    BY <1>17, <2>1, AnswerType
       DEF firehose_set_bootable_answer, firehose_reset_answer
<1>18. CASE \/ no_bootable \/ WriteFails \/ ResponseTruncated \/ ImageFails
            \/ firehose_program_empty
  <2>1. HostTypeOK'
    <3>1. waiting' \in BOOLEAN
      <4>1. waiting' = waiting \/ waiting' = FALSE \/ waiting' = TRUE
        BY <1>18, Zenon DEF no_bootable, WriteFails, ResponseTruncated,
                            ImageFails, firehose_program_empty
      <4>2. QED
        BY <1>0, <4>1, Zenon DEF HostTypeOK
    <3>2. QED
      BY <1>0, <1>18, <3>1
         DEF no_bootable, WriteFails, ResponseTruncated, ImageFails,
             firehose_program_empty, HostTypeOK
  <2>2. QED
    BY <1>18, <2>1, QuietType
       DEF no_bootable, WriteFails, ResponseTruncated, ImageFails,
           firehose_program_empty
<1>19. CASE LogsOnly
  <2>1. LinkTypeOK' /\ toDevice' = toDevice
    BY <1>0, <1>19, ReadType DEF LogsOnly
  <2>2. QED
    BY <1>19, <2>1 DEF LogsOnly, TypeOK, HostTypeOK, TargetTypeOK, hostVars,
                       targetVars
<1>20. QED
  BY <1>1, <1>2, <1>3, <1>4, <1>5, <1>6, <1>7, <1>8, <1>9, <1>10, <1>11,
     <1>12, <1>13, <1>14, <1>15, <1>16, <1>17, <1>18, <1>19 DEF HostStep

-----------------------------------------------------------------------------
(* Every step of the target keeps the types.                               *)
LEMMA TakeType ==
    ASSUME NEW op, TypeOK, TargetTakes(op)
    PROVE  /\ Head(toDevice) \in Document
           /\ Head(toDevice) = toDevice[1]
           /\ toDevice # <<>> /\ 1 \in 1..Len(toDevice)
           /\ toDevice' \in Seq(Document)
           /\ Len(toDevice') = Len(toDevice) - 1
           /\ \A k \in 1..Len(toDevice') : toDevice'[k] = toDevice[k + 1]
           /\ UNCHANGED <<plan, cap, hostVars, plugged, faults>>
  BY DEF TargetTakes, TypeOK

(* What the target sends is a message, so the line keeps its type.         *)
LEMMA ResponseType ==
    ASSUME LinkTypeOK, NEW ack \in BOOLEAN, NEW size \in Nat \cup {NoSize},
           TargetSends(Response(ack, size)) \/ TargetSends(Log),
           UNCHANGED <<plugged, faults>>
    PROVE  LinkTypeOK'
<1>1. Log \in Message /\ Response(ack, size) \in Message
  BY DEF Log, Response, Message
<1>2. toHost' \in Seq(Message)
  BY <1>1 DEF LinkTypeOK, TargetSends
<1>3. QED
  BY <1>2 DEF LinkTypeOK

(* The steps of the target keep the types.                                 *)
LEMMA TargetTypes ==
    TypeOK /\ InRange /\ (TargetAnswers \/ TargetLog) => TypeOK'
<1> SUFFICES ASSUME TypeOK, InRange, TargetAnswers \/ TargetLog PROVE TypeOK'
  OBVIOUS
<1>0. LinkTypeOK /\ HostTypeOK /\ TargetTypeOK /\ plan \in Plans /\ cap \in Nat
  BY CapsAssumption DEF TypeOK
<1>a. ASSUME NEW op, TargetTakes(op), LinkTypeOK', TargetTypeOK' PROVE TypeOK'
  BY <1>a, TakeType DEF TypeOK, HostTypeOK, hostVars
<1>1. CASE TargetConfigure
  <2>1. Head(toDevice).arg \in Nat
    BY <1>1, TakeType DEF TargetConfigure, Document
  <2>2. TargetTypeOK'
    BY <1>0, <1>1, <2>1 DEF TargetConfigure, TargetTypeOK
  <2>3. \E ack \in BOOLEAN : TargetSends(Response(ack, cap))
    BY <1>1 DEF TargetConfigure
  <2>4. LinkTypeOK'
    BY <1>0, <1>1, <2>3, ResponseType DEF TargetConfigure, TargetTakes
  <2>5. QED
    BY <1>1, <1>a, <2>2, <2>4 DEF TargetConfigure
<1>2. CASE TargetProgram
  <2>0. Head(toDevice).arg \in Nat
    BY <1>2, TakeType DEF TargetProgram, Document
  <2>1. Head(toDevice).arg \in 1..Len(plan.programs)
    BY <1>2, TakeType DEF TargetProgram, TargetTakes, InRange
  <2>2. plan.programs[Head(toDevice).arg] \in Program
    BY <1>0, <2>1, PlanType
  <2>3. Sectors(plan.programs[Head(toDevice).arg]) \in Nat
    BY <1>0, <2>2, SectorCounts DEF HostTypeOK
  <2>4. <<"program", Head(toDevice).arg>> \in Work
    BY <2>0 DEF Work
  <2>5. TargetTypeOK'
    BY <1>0, <1>2, <2>0, <2>3, <2>4 DEF TargetProgram, TargetTypeOK
  <2>6. \E ack \in BOOLEAN : TargetSends(Response(ack, NoSize))
    BY <1>2 DEF TargetProgram
  <2>7. LinkTypeOK'
    BY <1>0, <1>2, <2>6, ResponseType DEF TargetProgram, TargetTakes
  <2>8. QED
    BY <1>2, <1>a, <2>5, <2>7 DEF TargetProgram
<1>3. CASE TargetData
  <2>1. Head(toDevice).arg \in Nat
    BY <1>3, TakeType DEF TargetData, Document
  <2>2. expect' \in Nat
    <3>1. expect' = 0 \/ /\ Head(toDevice).arg < expect
                         /\ expect' = expect - Head(toDevice).arg
      BY <1>3 DEF TargetData
    <3>2. QED
      BY <1>0, <2>1, <3>1 DEF TargetTypeOK
  <2>3. <<"program", cur>> \in Work
    BY <1>0 DEF TargetTypeOK, Work
  <2>4. TargetTypeOK'
    BY <1>0, <1>3, <2>2, <2>3 DEF TargetData, TargetTypeOK, Performed, Refused
  <2>5. \/ toHost' = toHost
        \/ \E ack \in BOOLEAN : TargetSends(Response(ack, NoSize))
    BY <1>3 DEF TargetData
  <2>6. LinkTypeOK'
    BY <1>0, <1>3, <2>5, ResponseType DEF TargetData, TargetTakes, LinkTypeOK
  <2>7. QED
    BY <1>3, <1>a, <2>4, <2>6 DEF TargetData
<1>4. CASE TargetJunk
  <2>1. LinkTypeOK' /\ TargetTypeOK'
    BY <1>0, <1>4 DEF TargetJunk, TargetTakes, LinkTypeOK, TargetTypeOK,
                      targetVars
  <2>2. QED
    BY <1>4, <1>a, <2>1 DEF TargetJunk
<1>5. CASE TargetSimple
  <2>1. PICK op \in SimpleOps :
          /\ TargetTakes(op)
          /\ \/ /\ TargetSends(Response(TRUE, NoSize))
                /\ Performed(op, Head(toDevice).arg)
             \/ /\ TargetSends(Response(FALSE, NoSize))
                /\ Refused(op, Head(toDevice).arg)
    BY <1>5 DEF TargetSimple
  <2>2. <<op, Head(toDevice).arg>> \in Work
    BY <2>1, TakeType DEF Document, Work
  <2>3. TargetTypeOK'
    BY <1>0, <1>5, <2>1, <2>2 DEF TargetSimple, TargetTypeOK, Performed,
                                  Refused
  <2>4. \E ack \in BOOLEAN : TargetSends(Response(ack, NoSize))
    BY <2>1
  <2>5. LinkTypeOK'
    BY <1>0, <2>1, <2>4, ResponseType DEF TargetTakes
  <2>6. QED
    BY <1>a, <2>1, <2>3, <2>5
<1>6. CASE TargetLog
  <2>1. LinkTypeOK'
    BY <1>0, <1>6, ResponseType DEF TargetLog
  <2>2. TargetTypeOK'
    BY <1>0, <1>6, PayloadAssumption DEF TargetLog, TargetTypeOK
  <2>3. QED
    BY <1>6, <2>1, <2>2 DEF TargetLog, TypeOK, HostTypeOK, hostVars
<1>7. QED
  BY <1>1, <1>2, <1>3, <1>4, <1>5, <1>6 DEF TargetAnswers

-----------------------------------------------------------------------------
(* Positions.                                                              *)

CommandsInRange ==
    \A k \in 1..Len(toDevice) :
        toDevice[k].op = "program" => toDevice[k].arg \in 1..Len(plan.programs)

(* A document written, none written, or one taken: the programs under way  *)
(* are still programs of the plan.                                         *)
LEMMA QueueRange ==
    ASSUME toDevice \in Seq(Document), CommandsInRange, plan' = plan,
           \/ \E doc \in Document :
                 /\ doc.op = "program" => doc.arg \in 1..Len(plan.programs)
                 /\ toDevice' = Append(toDevice, doc)
           \/ toDevice' = toDevice
           \/ toDevice # <<>> /\ toDevice' = Tail(toDevice)
           \/ toDevice' = <<>>
    PROVE  CommandsInRange'
<1> USE DEF CommandsInRange
<1>1. CASE \E doc \in Document :
              /\ doc.op = "program" => doc.arg \in 1..Len(plan.programs)
              /\ toDevice' = Append(toDevice, doc)
  BY <1>1
<1>2. CASE toDevice # <<>> /\ toDevice' = Tail(toDevice)
  BY <1>2
<1>3. CASE toDevice' = toDevice \/ toDevice' = <<>>
  BY <1>3
<1>4. QED
  BY <1>1, <1>2, <1>3

(* A document that names an existing list position may be sent.            *)
LEMMA RequestRange ==
    ASSUME TypeOK, InRange, NEW step, NEW cmd \in Document, Request(step, cmd),
           cmd.op = "program" => cmd.arg \in 1..Len(plan.programs),
           step \notin {"data", "finish"},
           step = "program" => item \in 1..Len(plan.programs) /\ Here.opens,
           step = "patch" => item \in 1..Len(plan.patches) /\ plan.patches[item]
    PROVE  InRange'
<1>1. CommandsInRange'
  BY QueueRange DEF TypeOK, InRange, CommandsInRange, Request, firehose_write
<1>2. QED
  BY <1>1 DEF InRange, CommandsInRange, Request, Here

(* The steps of the host send and go on with existing list positions.      *)
LEMMA HostRange == TypeOK /\ InRange /\ HostStep => InRange'
<1> SUFFICES ASSUME TypeOK, InRange, HostStep PROVE InRange'
  OBVIOUS
<1> USE DEF GoTo, Return
<1>0. /\ toDevice \in Seq(Document) /\ HostTypeOK
      /\ CommandsInRange /\ plan \in Plans
  BY DEF TypeOK, InRange, CommandsInRange
(* A step that writes nothing and starts no program or patch.              *)
<1>a. ASSUME toDevice' = toDevice, UNCHANGED <<plan, item>>,
             \/ pc' \notin {"program", "data", "finish", "patch"}
             \/ pc' \in {"program", "patch"} /\ ~waiting'
             \/ pc' = pc /\ waiting' = waiting
      PROVE  InRange'
  <2>1. CommandsInRange'
    BY <1>0, <1>a, QueueRange
  <2>2. QED
    BY <1>a, <2>1 DEF InRange, CommandsInRange, Here
<1>b. ASSUME toDevice' = toDevice, plan' = plan,
             pc' \in {"program", "patch", "bootable"}, ~waiting'
      PROVE  InRange'
  <2>1. CommandsInRange'
    BY <1>0, <1>b, QueueRange
  <2>2. QED
    BY <1>b, <2>1 DEF InRange, CommandsInRange
<1>c. ASSUME NEW step, NEW parser, NEW r, Answer(step, parser, r)
      PROVE  toDevice' = toDevice /\ plan' = plan /\ ~waiting'
  BY <1>c, AnswerFacts, ReadType DEF TypeOK
<1>1. CASE \/ WaitForTarget \/ no_bootable \/ WriteFails \/ ResponseTruncated
           \/ ImageFails
  BY <1>1, <1>a
     DEF WaitForTarget, no_bootable, WriteFails, ResponseTruncated, ImageFails,
         link
<1>2. CASE Drain \/ LogsOnly
  BY <1>2, <1>a, ReadType DEF Drain, LogsOnly, TypeOK, link, hostVars
<1>3. CASE firehose_nop \/ firehose_reset
  BY <1>3, RequestRange, DocumentType
     DEF firehose_nop, firehose_reset, SimpleOps, Cmd
<1>4. CASE firehose_send_configure
  <2>1. \A size \in Nat : /\ Cmd("configure", size) \in Document
                          /\ Cmd("configure", size).op # "program"
    BY DocumentType DEF Cmd
  <2>2. PICK step \in {"configure", "reconfigure"}, size \in Nat :
          Request(step, Cmd("configure", size))
    BY <1>0, <1>4 DEF firehose_send_configure, HostTypeOK
  <2>3. step \notin {"data", "finish", "program", "patch"}
    BY <2>2
  <2>4. QED
    BY <2>1, <2>2, <2>3, RequestRange
<1>5. CASE firehose_send_single_tag
  BY <1>0, <1>5, RequestRange, DocumentType
     DEF firehose_send_single_tag, SimpleOps, HostTypeOK, Cmd
<1>6. CASE firehose_program
  BY <1>0, <1>6, RequestRange, DocumentType
     DEF firehose_program, HostTypeOK, Cmd
<1>7. CASE firehose_apply_patch
  BY <1>0, <1>7, RequestRange, DocumentType
     DEF firehose_apply_patch, SimpleOps, HostTypeOK, Cmd
<1>8. CASE firehose_set_bootable
  <2>1. PICK i \in 1..Len(plan.programs) :
          Request("bootable",
                  Cmd("setbootablestoragedrive", plan.programs[i].part))
    BY <1>8 DEF firehose_set_bootable
  <2>2. plan.programs[i] \in Program
    BY <1>0, PlanType
  <2>3. plan.programs[i].part \in Nat
    BY <2>2 DEF Program
  <2>4. QED
    BY <2>1, <2>3, RequestRange, DocumentType DEF SimpleOps, Cmd
<1>9. CASE \/ firehose_nop_answer \/ firehose_configure_answer
           \/ firehose_reconfigure_answer \/ firehose_set_bootable_answer
           \/ firehose_reset_answer
  BY <1>9, <1>a, <1>c
     DEF firehose_nop_answer, firehose_configure_answer,
         firehose_reconfigure_answer, firehose_set_bootable_answer,
         firehose_reset_answer, AfterConfigure
<1>10. CASE firehose_single_tag_answer
  <2>1. /\ pc' \in {"tag", "returned"}
        /\ toDevice' = toDevice /\ plan' = plan
    BY <1>10, <1>c DEF firehose_single_tag_answer
  <2>2. CommandsInRange'
    BY <1>0, <2>1, QueueRange
  <2>3. QED
    BY <2>1, <2>2 DEF InRange, CommandsInRange
<1>11. CASE program_execute \/ patch_execute
  BY <1>11, <1>b DEF program_execute, patch_execute, link
<1>12. CASE firehose_program_setup
  <2>1. PICK r \in {-1, 0, 1} :
          /\ Answer("program", "nop", r)
          /\ \/ r # 0 /\ Return(r) /\ left' = left
             \/ r = 0 /\ GoTo("data") /\ left' = Sectors(Here)
          /\ UNCHANGED <<item, commit, ask, payload>>
    BY <1>12 DEF firehose_program_setup
  <2>2. item \in 1..Len(plan.programs) /\ Here.opens
    BY <2>1 DEF Answer, InRange
  <2>3. toDevice' = toDevice /\ plan' = plan /\ item' = item
    BY <2>1, <1>c
  <2>4. CommandsInRange'
    BY <1>0, <2>3, QueueRange
  <2>5. QED
    BY <2>1, <2>2, <2>3, <2>4 DEF InRange, CommandsInRange, Here
<1>13. CASE firehose_program_data
  <2>1. Here \in Program
    BY <1>0, <1>13, PlanType DEF InRange, Here, firehose_program_data
  <2>2. Cmd("data", Chunk(Here)) \in Document
    BY <1>0, <2>1, SectorCounts, DocumentType DEF HostTypeOK
  <2>3. CommandsInRange'
    BY <1>0, <1>13, <2>2, QueueRange
       DEF firehose_program_data, firehose_write, Cmd
  <2>4. /\ pc' \in {"data", "finish"} /\ UNCHANGED <<plan, item>>
        /\ item \in 1..Len(plan.programs) /\ Here.opens
    BY <1>13 DEF firehose_program_data, InRange
  <2>5. QED
    BY <2>3, <2>4 DEF InRange, CommandsInRange, Here
<1>14. CASE firehose_program_finish \/ firehose_apply_patch_answer
  <2>1. toDevice' = toDevice /\ plan' = plan /\ ~waiting'
    BY <1>14, <1>c DEF firehose_program_finish, firehose_apply_patch_answer
  <2>2. pc' \in {"program", "patch"} \/ (pc' = "returned" /\ item' = item)
    BY <1>14 DEF firehose_program_finish, firehose_apply_patch_answer
  <2>3. QED
    BY <1>a, <1>b, <2>1, <2>2
<1>15. CASE firehose_program_empty
  <2>1. toDevice' = toDevice /\ UNCHANGED <<plan, item>>
    BY <1>15 DEF firehose_program_empty, link
  <2>2. pc = "data" /\ pc' = "finish"
    BY <1>15 DEF firehose_program_empty
  <2>3. CommandsInRange'
    BY <1>0, <2>1, QueueRange
  <2>4. QED
    BY <2>1, <2>2, <2>3 DEF InRange, CommandsInRange, Here
<1>16. QED
  BY <1>1, <1>2, <1>3, <1>4, <1>5, <1>6, <1>7, <1>8, <1>9, <1>10, <1>11,
     <1>12, <1>13, <1>14, <1>15 DEF HostStep

(* The type invariant of the session, together with the positions it       *)
(* needs: the host never refers to a list element that does not exist, so  *)
(* every size it computes and every value a parser hands it is a number.   *)
THEOREM TypeCorrect == Spec => [](TypeOK /\ InRange)
<1>1. Init => TypeOK /\ InRange
  <2> SUFFICES ASSUME Init PROVE TypeOK /\ InRange
    OBVIOUS
  <2>1. LinkTypeOK /\ toDevice \in Seq(Document)
    BY FaultsAssumption, LeftoversAssumption DEF Init, LinkInit, LinkTypeOK
  <2>2. HostTypeOK /\ TargetTypeOK
    <3>1. waiting \in BOOLEAN /\ commit \in BOOLEAN
      BY DEF Init
    <3>2. QED
      BY <3>1, PayloadAssumption DEF Init, HostTypeOK, TargetTypeOK, Steps
  <2>3. InRange
    BY DEF Init, LinkInit, InRange
  <2>4. QED
    BY <2>1, <2>2, <2>3 DEF Init, TypeOK
<1>2. TypeOK /\ InRange /\ [Next]_vars => (TypeOK /\ InRange)'
  <2> SUFFICES ASSUME TypeOK, InRange, [Next]_vars PROVE (TypeOK /\ InRange)'
    OBVIOUS
  <2>0. toDevice \in Seq(Document) /\ CommandsInRange
    BY DEF TypeOK, InRange, CommandsInRange
  <2>1. CASE HostStep
    BY <2>1, HostTypes, HostRange
  <2>2. CASE TargetAnswers \/ TargetLog
    <3>1. /\ UNCHANGED <<plan, cap, hostVars>>
          /\ \/ toDevice' = toDevice
             \/ toDevice # <<>> /\ toDevice' = Tail(toDevice)
      BY <2>2 DEF TargetAnswers, TargetConfigure, TargetProgram, TargetData,
                  TargetJunk, TargetSimple, TargetLog, TargetTakes
    <3>2. CommandsInRange'
      BY <2>0, <3>1, QueueRange
    <3>3. InRange'
      BY <3>1, <3>2 DEF InRange, CommandsInRange, Here, hostVars
    <3>4. QED
      BY <2>2, <3>3, TargetTypes
  <2>3. CASE CableOut
    <3>1. LinkTypeOK' /\ toDevice' \in Seq(Document)
      <4>1. plugged' \in BOOLEAN
        BY <2>3 DEF CableOut, Unplug
      <4>2. QED
        BY <2>3, <4>1 DEF CableOut, Unplug, TypeOK, LinkTypeOK
    <3>2. HostTypeOK' /\ TargetTypeOK' /\ UNCHANGED <<plan, cap, hostVars>>
      BY <2>3 DEF CableOut, TypeOK, HostTypeOK, TargetTypeOK, hostVars,
                  targetVars
    <3>3. CommandsInRange'
      BY <2>0, <2>3, QueueRange DEF CableOut, Unplug
    <3>4. QED
      BY <3>1, <3>2, <3>3 DEF TypeOK, InRange, CommandsInRange, Here, hostVars
  <2>4. CASE Spin \/ UNCHANGED vars
    <3>1. UNCHANGED vars
      BY <2>4 DEF Spin
    <3>2. TypeOK'
      BY <3>1 DEF vars, link, hostVars, targetVars, TypeOK, LinkTypeOK,
                  HostTypeOK, TargetTypeOK
    <3>3. InRange'
      BY <3>1 DEF vars, link, hostVars, InRange, Here
    <3>4. QED
      BY <3>2, <3>3
  <2>5. QED
    BY <2>1, <2>2, <2>3, <2>4 DEF Next
<1>3. QED
  BY <1>1, <1>2, PTL DEF Spec

-----------------------------------------------------------------------------
(* Raw mode.  RawModeSeesOnlyData looks at the head of the queue only.     *)
(* The invariant follows the target through the whole queue as if it       *)
(* stored everything: remains[k] sectors are missing when it has taken k   *)
(* documents.  A command finds none missing, and what is missing at the    *)
(* end the host still has to send.  The second possibility is a target     *)
(* that refused the program or failed at it: then nothing is missing, and  *)
(* the rest of the data is dropped up to the next command.                 *)
Remains(before, doc, after) ==
    /\ doc.op # "data" => before = 0
    /\ doc.op = "program" => after = Sectors(plan.programs[doc.arg])
    /\ doc.op \notin {"program", "data"} => after = 0
    /\ doc.op = "data" =>
          \/ before = 0 /\ after = 0
          \/ doc.arg \in 1..before /\ after = before - doc.arg

Balances(remains) ==
    /\ remains \in [0..Len(toDevice) -> Nat]
    /\ remains[0] = expect
    /\ \A k \in 1..Len(toDevice) :
          Remains(remains[k - 1], toDevice[k], remains[k])

Owed ==
    CASE pc = "data" -> {0, left}
      [] pc = "program" /\ waiting -> {0, Sectors(Here)}
      [] OTHER -> {0}

RawBalance ==
    /\ ~plugged => toDevice = <<>>
    /\ plugged => \E remains :
          Balances(remains) /\ (Ended \/ remains[Len(toDevice)] \in Owed)

(* A document is written: one more entry.                                  *)
LEMMA BalanceWritten ==
    ASSUME toDevice \in Seq(Document), NEW remains, Balances(remains),
           NEW doc \in Document, toDevice' = Append(toDevice, doc),
           UNCHANGED <<plan, expect>>,
           NEW n \in Nat, Remains(remains[Len(toDevice)], doc, n)
    PROVE  \E new : Balances(new)' /\ new[Len(toDevice')] = n
<1>0. PICK new : new = [k \in 0..(Len(toDevice) + 1) |->
                           IF k = Len(toDevice) + 1 THEN n ELSE remains[k]]
  OBVIOUS
<1>1. Len(toDevice') = Len(toDevice) + 1 /\ Len(toDevice) \in Nat
  OBVIOUS
<1>2. new \in [0..Len(toDevice') -> Nat]
  BY <1>0, <1>1 DEF Balances
<1>3. new[0] = expect' /\ new[Len(toDevice')] = n
  BY <1>0, <1>1 DEF Balances
<1>4. ASSUME NEW k \in 1..Len(toDevice')
      PROVE  Remains(new[k - 1], toDevice'[k], new[k])
  <2>1. CASE k \in 1..Len(toDevice)
    <3>1. /\ toDevice'[k] = toDevice[k]
          /\ new[k - 1] = remains[k - 1] /\ new[k] = remains[k]
      BY <2>1, <1>0, <1>1
    <3>2. Remains(remains[k - 1], toDevice[k], remains[k])
      BY <2>1 DEF Balances
    <3> QED
      BY <3>1, <3>2
  <2>2. CASE k = Len(toDevice) + 1
    <3>1. /\ toDevice'[k] = doc /\ new[k] = n
          /\ new[k - 1] = remains[Len(toDevice)]
      BY <2>2, <1>0, <1>1
    <3> QED
      BY <3>1
  <2> QED
    BY <2>1, <2>2, <1>1
<1>5. Balances(new)'
  BY <1>2, <1>3, <1>4 DEF Balances, Remains, Sectors
<1> QED
  BY <1>3, <1>5

(* One is taken as expected: one entry less.                               *)
LEMMA BalanceTaken ==
    ASSUME toDevice \in Seq(Document), toDevice # <<>>,
           NEW remains, Balances(remains),
           toDevice' = Tail(toDevice), plan' = plan, expect' = remains[1]
    PROVE  \E new : /\ Balances(new)'
                    /\ new[Len(toDevice')] = remains[Len(toDevice)]
<1>0. PICK new : new = [k \in 0..(Len(toDevice) - 1) |-> remains[k + 1]]
  OBVIOUS
<1>1. /\ Len(toDevice') = Len(toDevice) - 1 /\ Len(toDevice) \in Nat \ {0}
      /\ \A k \in 1..Len(toDevice') : toDevice'[k] = toDevice[k + 1]
  OBVIOUS
<1>2. new \in [0..Len(toDevice') -> Nat]
  BY <1>0, <1>1 DEF Balances
<1>3. new[0] = expect' /\ new[Len(toDevice')] = remains[Len(toDevice)]
  BY <1>0, <1>1
<1>4. ASSUME NEW k \in 1..Len(toDevice')
      PROVE  Remains(new[k - 1], toDevice'[k], new[k])
  <2>1. k + 1 \in 1..Len(toDevice) /\ (k + 1) - 1 = k
    BY <1>1
  <2>2. Remains(remains[(k + 1) - 1], toDevice[k + 1], remains[k + 1])
    BY <2>1 DEF Balances
  <2>3. new[k - 1] = remains[k] /\ new[k] = remains[k + 1]
    BY <1>0, <1>1
  <2> QED
    BY <1>1, <2>1, <2>2, <2>3
<1>5. Balances(new)'
  BY <1>2, <1>3, <1>4 DEF Balances, Remains, Sectors
<1> QED
  BY <1>3, <1>5

(* One is taken and leaves nothing missing: the data that follows it up to *)
(* the next command is dropped.                                            *)
LEMMA BalanceDropped ==
    ASSUME toDevice \in Seq(Document), toDevice # <<>>,
           NEW remains, Balances(remains),
           toDevice' = Tail(toDevice), plan' = plan, expect' = 0
    PROVE  \E new : /\ Balances(new)'
                    /\ new[Len(toDevice')] \in {0, remains[Len(toDevice)]}
<1> DEFINE dropped(k) == \A i \in 1..k : toDevice[i + 1].op = "data"
<1>0. PICK new : new = [k \in 0..(Len(toDevice) - 1) |->
                           IF dropped(k) THEN 0 ELSE remains[k + 1]]
  OBVIOUS
<1>1. /\ Len(toDevice') = Len(toDevice) - 1 /\ Len(toDevice) \in Nat \ {0}
      /\ \A k \in 1..Len(toDevice') : toDevice'[k] = toDevice[k + 1]
  OBVIOUS
<1>2. new \in [0..Len(toDevice') -> Nat]
  BY <1>0, <1>1 DEF Balances
<1>3. new[0] = 0 /\ new[Len(toDevice')] \in {0, remains[Len(toDevice)]}
  <2>1. dropped(0)
    OBVIOUS
  <2> QED
    BY <1>0, <1>1, <2>1
<1>4. ASSUME NEW k \in 1..Len(toDevice')
      PROVE  Remains(new[k - 1], toDevice'[k], new[k])
  <2>1. k + 1 \in 1..Len(toDevice) /\ (k + 1) - 1 = k /\ k - 1 \in Nat
    BY <1>1
  <2>2. Remains(remains[k], toDevice[k + 1], remains[k + 1])
    BY <2>1 DEF Balances
  <2>3. dropped(k) <=> dropped(k - 1) /\ toDevice[k + 1].op = "data"
    BY <2>1
  <2> HIDE DEF dropped
  <2>4. /\ new[k - 1] = IF dropped(k - 1) THEN 0 ELSE remains[k]
        /\ new[k] = IF dropped(k) THEN 0 ELSE remains[k + 1]
    <3>1. k - 1 \in 0..(Len(toDevice) - 1) /\ k \in 0..(Len(toDevice) - 1)
            /\ (k - 1) + 1 = k
      BY <1>1
    <3> QED
      BY <1>0, <3>1
  <2>5. Remains(new[k - 1], toDevice[k + 1], new[k])
    BY <2>2, <2>3, <2>4 DEF Remains
  <2> QED
    BY <1>1, <2>5
<1>5. Balances(new)'
  BY <1>2, <1>3, <1>4 DEF Balances, Remains, Sectors
<1> QED
  BY <1>3, <1>5

(* A step that leaves the documents, the plan and the wait of the target   *)
(* alone leaves every account of them.                                     *)
LEMMA BalanceStays ==
    ASSUME UNCHANGED <<toDevice, expect, plan>>, NEW new, Balances(new)
    PROVE  Balances(new)'
<1>1. \A before, doc, after : Remains(before, doc, after) =>
                                Remains(before, doc, after)'
  BY DEF Remains, Sectors
<1>2. /\ new \in [0..Len(toDevice') -> Nat] /\ new[0] = expect'
      /\ \A k \in 1..Len(toDevice') : Remains(new[k - 1], toDevice[k], new[k])
  BY DEF Balances
<1> QED
  BY <1>1, <1>2 DEF Balances

(* The steps of the host.  One that writes nothing owes what was owed.     *)
LEMMA RawQuiet ==
    ASSUME RawBalance, UNCHANGED <<toDevice, plugged, plan, expect>>,
           Ended' \/ (~Ended /\ Owed \subseteq Owed')
    PROVE  RawBalance'
<1>1. \A remains : Balances(remains) => Balances(remains)'
  BY BalanceStays
<1> QED
  BY <1>1 DEF RawBalance

LEMMA OwedNothing ==
    ASSUME pc # "data", ~(pc = "program" /\ waiting)
    PROVE  Owed = {0} /\ Owed \subseteq Owed'
  BY DEF Owed

LEMMA RawRequest ==
    ASSUME TypeOK, RawBalance, NEW step, NEW cmd \in Document,
           Request(step, cmd), cmd.op # "data",
           step \notin {"data", "returned", "exited"},
           cmd.op = "program" =>
              /\ step = "program" /\ cmd.arg = item
              /\ item \in 1..Len(plan.programs)
    PROVE  RawBalance'
<1>1. /\ pc = step /\ ~waiting /\ waiting' /\ plugged /\ plugged'
      /\ toDevice' = Append(toDevice, cmd) /\ toDevice \in Seq(Document)
      /\ UNCHANGED <<plan, expect, pc, item, left>>
  BY DEF Request, firehose_write, TypeOK, targetVars
<1>2. PICK remains : Balances(remains) /\ remains[Len(toDevice)] = 0
  BY <1>1, OwedNothing DEF RawBalance, Ended
<1>3. CASE cmd.op = "program"
  <2>1. Here \in Program
    BY <1>3, PlanType DEF TypeOK, Here
  <2>2. Sectors(Here) \in Nat
    BY <2>1, SectorCounts DEF TypeOK, HostTypeOK
  <2>3. Remains(remains[Len(toDevice)], cmd, Sectors(Here))
    BY <1>2, <1>3 DEF Remains, Here
  <2>4. \E new : Balances(new)' /\ new[Len(toDevice')] = Sectors(Here)
    BY <1>1, <1>2, <2>2, <2>3, BalanceWritten
  <2>5. Sectors(Here) \in Owed'
    BY <1>1, <1>3 DEF Owed, Here, Sectors
  <2> QED
    BY <1>1, <2>4, <2>5 DEF RawBalance
<1>4. CASE cmd.op # "program"
  <2>1. Remains(remains[Len(toDevice)], cmd, 0)
    BY <1>2, <1>4 DEF Remains
  <2>2. \E new : Balances(new)' /\ new[Len(toDevice')] = 0
    BY <1>1, <1>2, <2>1, BalanceWritten
  <2>3. 0 \in Owed'
    BY DEF Owed
  <2> QED
    BY <1>1, <2>2, <2>3 DEF RawBalance
<1> QED
  BY <1>3, <1>4

LEMMA RawChunk ==
    ASSUME TypeOK, InRange, RawBalance, firehose_program_data
    PROVE  RawBalance'
<1>1. /\ pc = "data" /\ plugged /\ plugged' /\ toDevice \in Seq(Document)
      /\ toDevice' = Append(toDevice, Cmd("data", Chunk(Here)))
      /\ UNCHANGED <<plan, expect>>
      /\ Chunk(Here) > 0 /\ left' = left - Chunk(Here)
      /\ pc' = IF left' = 0 THEN "finish" ELSE "data"
  BY DEF firehose_program_data, firehose_write, TypeOK, targetVars, GoTo
<1>2. Here \in Program /\ left \in Nat
  BY <1>1, PlanType DEF TypeOK, HostTypeOK, InRange, Here
<1>3. Chunk(Here) \in Nat /\ Chunk(Here) <= left
  BY <1>2, SectorCounts DEF TypeOK, HostTypeOK
<1>4. left' \in Nat /\ Chunk(Here) \in 1..left
  BY <1>1, <1>2, <1>3
<1>5. PICK remains :
         Balances(remains) /\ remains[Len(toDevice)] \in {0, left}
  BY <1>1 DEF RawBalance, Ended, Owed
<1>6. PICK n \in {0, left'} :
         Remains(remains[Len(toDevice)], Cmd("data", Chunk(Here)), n)
  BY <1>1, <1>4, <1>5 DEF Remains, Cmd
<1>7. Cmd("data", Chunk(Here)) \in Document
  BY <1>3, DocumentType
<1>8. \E new : Balances(new)' /\ new[Len(toDevice')] = n
  BY <1>1, <1>4, <1>5, <1>6, <1>7, BalanceWritten
<1>9. n \in Owed'
  BY <1>1, <1>6 DEF Owed
<1> QED
  BY <1>1, <1>8, <1>9 DEF RawBalance

LEMMA RawHost == TypeOK /\ InRange /\ RawBalance /\ HostStep => RawBalance'
<1> SUFFICES ASSUME TypeOK, InRange, RawBalance, HostStep PROVE RawBalance'
  OBVIOUS
<1> USE DEF GoTo, Return
<1>0. HostTypeOK /\ plan \in Plans
  BY DEF TypeOK
<1>a. ASSUME NEW step, NEW parser, NEW r, Answer(step, parser, r)
      PROVE  pc = step /\ UNCHANGED <<toDevice, plugged, plan, expect>>
  <2>1. toDevice' = toDevice /\ plugged' = plugged
    BY <1>a DEF Answer, firehose_read, ReadBatch, ReadFails, ReadGarbled
  <2> QED
    BY <1>a, <2>1 DEF Answer, targetVars
<1>b. ASSUME UNCHANGED <<toDevice, plugged, plan, expect>>, ~Ended,
             pc # "data", ~(pc = "program" /\ waiting)
      PROVE  RawBalance'
  BY <1>b, OwedNothing, RawQuiet
<1>1. CASE \/ WaitForTarget \/ Drain \/ no_bootable
           \/ program_execute \/ patch_execute
  BY <1>1, <1>b
     DEF WaitForTarget, Drain, DrainBatch, no_bootable, program_execute,
         patch_execute, link, targetVars, Ended
<1>2. CASE \/ firehose_nop_answer \/ firehose_configure_answer
           \/ firehose_reconfigure_answer \/ firehose_single_tag_answer
           \/ firehose_program_finish \/ firehose_apply_patch_answer
           \/ firehose_set_bootable_answer \/ firehose_reset_answer
  <2>1. PICK step \in {"nop", "configure", "reconfigure", "tag", "finish",
                       "patch", "bootable", "reset"} :
          \E parser, r : Answer(step, parser, r)
    BY <1>2 DEF firehose_nop_answer, firehose_configure_answer,
                firehose_reconfigure_answer, firehose_single_tag_answer,
                firehose_program_finish, firehose_apply_patch_answer,
                firehose_set_bootable_answer, firehose_reset_answer
  <2> QED
    BY <2>1, <1>a, <1>b DEF Ended
<1>3. CASE firehose_nop \/ firehose_reset
  BY <1>3, RawRequest, DocumentType
     DEF firehose_nop, firehose_reset, SimpleOps, Cmd
<1>4. CASE firehose_send_configure
  BY <1>0, <1>4, RawRequest, DocumentType
     DEF firehose_send_configure, HostTypeOK, Cmd
<1>5. CASE firehose_send_single_tag
  BY <1>0, <1>5, RawRequest, DocumentType
     DEF firehose_send_single_tag, SimpleOps, HostTypeOK, Cmd
<1>6. CASE firehose_program
  <2>1. /\ Request("program", Cmd("program", item))
        /\ item <= Len(plan.programs) /\ item \in Nat \ {0}
    BY <1>0, <1>6 DEF firehose_program, HostTypeOK
  <2>2. item \in 1..Len(plan.programs)
    BY <1>0, <2>1, PlanType
  <2>3. Cmd("program", item) \in Document
    BY <2>1, DocumentType
  <2> QED
    BY <2>1, <2>2, <2>3, RawRequest DEF Cmd
<1>7. CASE firehose_apply_patch
  BY <1>0, <1>7, RawRequest, DocumentType
     DEF firehose_apply_patch, SimpleOps, HostTypeOK, Cmd
<1>8. CASE firehose_set_bootable
  <2>1. PICK i \in 1..Len(plan.programs) :
          Request("bootable",
                  Cmd("setbootablestoragedrive", plan.programs[i].part))
    BY <1>8 DEF firehose_set_bootable
  <2>2. plan.programs[i] \in Program
    BY <1>0, PlanType
  <2>3. plan.programs[i].part \in Nat
    BY <2>2 DEF Program
  <2> QED
    BY <2>1, <2>3, RawRequest, DocumentType DEF SimpleOps, Cmd
<1>9. CASE firehose_program_setup
  <2>1. PICK r \in {-1, 0, 1} :
          /\ Answer("program", "nop", r)
          /\ \/ r # 0 /\ Return(r) /\ left' = left
             \/ r = 0 /\ GoTo("data") /\ left' = Sectors(Here)
          /\ UNCHANGED <<item, commit, ask, payload>>
    BY <1>9 DEF firehose_program_setup
  <2>2. /\ pc = "program" /\ waiting
        /\ UNCHANGED <<toDevice, plugged, plan, expect>>
    BY <2>1, <1>a DEF Answer
  <2>3. Ended' \/ Owed' = Owed
    BY <2>1, <2>2 DEF Owed, Ended, Here
  <2> QED
    BY <2>2, <2>3, RawQuiet DEF Ended
<1>10. CASE firehose_program_data
  BY <1>10, RawChunk
<1>11. CASE ResponseTruncated \/ ImageFails
  BY <1>11, RawQuiet DEF ResponseTruncated, ImageFails, link, targetVars, Ended
<1>12. CASE LogsOnly
  <2>1. UNCHANGED <<toDevice, plugged, plan, expect, hostVars>>
    BY <1>12 DEF LogsOnly, ReadLogs, targetVars
  <2>2. Owed' = Owed /\ Ended' = Ended
    BY <2>1 DEF Owed, Ended, Here, Sectors, hostVars
  <2> QED
    BY <2>1, <2>2, RawQuiet
<1>13. CASE WriteFails
  BY <1>13 DEF WriteFails, link, RawBalance
<1>14. CASE firehose_program_empty
  <2>1. /\ pc = "data" /\ left = 0
        /\ UNCHANGED <<toDevice, plugged, plan, expect>>
    BY <1>14 DEF firehose_program_empty, link, targetVars
  <2>2. Owed = {0} /\ 0 \in Owed'
    BY <2>1 DEF Owed
  <2> QED
    BY <2>1, <2>2, RawQuiet DEF Ended
<1> QED
  BY <1>1, <1>2, <1>3, <1>4, <1>5, <1>6, <1>7, <1>8, <1>9, <1>10, <1>11,
     <1>12, <1>13, <1>14 DEF HostStep

(* The steps of the target.                                                *)
LEMMA RawTarget ==
    TypeOK /\ RawBalance /\ (TargetAnswers \/ TargetLog) => RawBalance'
<1> SUFFICES ASSUME TypeOK, RawBalance, TargetAnswers \/ TargetLog
             PROVE  RawBalance'
  OBVIOUS
<1>0. toDevice \in Seq(Document) /\ expect \in Nat
  BY DEF TypeOK, TargetTypeOK
<1>1. plugged /\ plugged' /\ UNCHANGED <<plan, hostVars>>
  <2>1. plugged
    BY DEF TargetAnswers, TargetConfigure, TargetProgram, TargetData,
           TargetJunk, TargetSimple, TargetLog, TargetTakes
  <2>2. UNCHANGED <<plugged, plan, hostVars>>
    BY DEF TargetAnswers, TargetConfigure, TargetProgram, TargetData,
           TargetJunk, TargetSimple, TargetLog, TargetTakes
  <2> QED
    BY <2>1, <2>2, Zenon
<1>2. Owed' = Owed /\ Ended' = Ended /\ 0 \in Owed
  BY <1>1 DEF Owed, Ended, Here, Sectors, hostVars
<1>3. PICK remains :
         Balances(remains) /\ (Ended \/ remains[Len(toDevice)] \in Owed)
  BY <1>1 DEF RawBalance
(* Two ways of taking a document.                                          *)
<1>4. ASSUME toDevice # <<>>, toDevice' = Tail(toDevice), expect' = 0
      PROVE  RawBalance'
  BY <1>0, <1>1, <1>2, <1>3, <1>4, BalanceDropped DEF RawBalance
<1>5. ASSUME toDevice # <<>>, toDevice' = Tail(toDevice),
             expect' = remains[1]
      PROVE  RawBalance'
  BY <1>0, <1>1, <1>2, <1>3, <1>5, BalanceTaken DEF RawBalance
<1>6. ASSUME toDevice # <<>>
      PROVE  /\ Head(toDevice) = toDevice[1]
             /\ Remains(expect, toDevice[1], remains[1])
  <2>1. Head(toDevice) = toDevice[1] /\ 1 \in 1..Len(toDevice) /\ 1 - 1 = 0
    BY <1>0, <1>6
  <2> QED
    BY <1>3, <2>1 DEF Balances
<1>7. CASE TargetConfigure \/ TargetJunk \/ TargetSimple
  BY <1>4, <1>7 DEF TargetConfigure, TargetJunk, TargetSimple, TargetTakes,
                    targetVars
<1>8. CASE TargetProgram
  <2>1. /\ toDevice # <<>> /\ toDevice' = Tail(toDevice)
        /\ Head(toDevice).op = "program" /\ expect = 0
        /\ \/ expect' = Sectors(plan.programs[Head(toDevice).arg])
           \/ expect' = expect
    BY <1>8 DEF TargetProgram, TargetTakes
  <2> QED
    BY <2>1, <1>4, <1>5, <1>6 DEF Remains
<1>9. CASE TargetData
  <2>1. /\ toDevice # <<>> /\ toDevice' = Tail(toDevice)
        /\ Head(toDevice).op = "data" /\ expect > 0
        /\ \/ /\ Head(toDevice).arg < expect
              /\ expect' = expect - Head(toDevice).arg
           \/ expect' = 0
    BY <1>9 DEF TargetData, TargetTakes
  <2>2. remains[1] = expect - Head(toDevice).arg
    BY <2>1, <1>6, <1>0 DEF Remains
  <2> QED
    BY <2>1, <2>2, <1>4, <1>5
<1>10. CASE TargetLog
  <2>1. UNCHANGED <<toDevice, expect, plugged, plan>>
    BY <1>10, <1>1 DEF TargetLog
  <2>2. \A new : Balances(new) => Balances(new)'
    BY <2>1, BalanceStays
  <2> QED
    BY <2>1, <2>2, <1>2 DEF RawBalance
<1> QED
  BY <1>7, <1>8, <1>9, <1>10 DEF TargetAnswers

LEMMA RawInvariant == Spec => []RawBalance
<1>1. Init => RawBalance
  <2> SUFFICES ASSUME Init PROVE RawBalance
    OBVIOUS
  <2>1. toDevice = <<>> /\ plugged /\ expect = 0
    BY DEF Init, LinkInit
  <2>2. Balances([k \in 0..0 |-> 0])
    BY <2>1 DEF Balances
  <2>3. [k \in 0..0 |-> 0][Len(toDevice)] \in Owed
    BY <2>1 DEF Owed
  <2> QED
    BY <2>1, <2>2, <2>3 DEF RawBalance
<1>2. TypeOK /\ InRange /\ RawBalance /\ [Next]_vars => RawBalance'
  <2> SUFFICES ASSUME TypeOK, InRange, RawBalance, [Next]_vars
               PROVE  RawBalance'
    OBVIOUS
  <2>1. CASE HostStep
    BY <2>1, RawHost
  <2>2. CASE TargetAnswers \/ TargetLog
    BY <2>2, RawTarget
  <2>3. CASE CableOut
    BY <2>3 DEF CableOut, Unplug, RawBalance
  <2>4. CASE Spin \/ UNCHANGED vars
    <3>1. UNCHANGED <<toDevice, plugged, plan, expect, hostVars>>
      BY <2>4 DEF Spin, vars, link, targetVars
    <3>2. Owed' = Owed /\ Ended' = Ended
      BY <3>1 DEF Owed, Ended, Here, Sectors, hostVars
    <3>3. \A new : Balances(new) => Balances(new)'
      BY <3>1, BalanceStays
    <3> QED
      BY <3>1, <3>2, <3>3 DEF RawBalance
  <2> QED
    BY <2>1, <2>2, <2>3, <2>4 DEF Next
<1> QED
  BY <1>1, <1>2, TypeCorrect, PTL DEF Spec

(* Host and target never disagree on raw mode, whatever the reads of the   *)
(* host returned and whatever the target refused or failed at: a target    *)
(* that waits for sectors finds raw data, never a command, and no more of  *)
(* it than it waits for.                                                   *)
THEOREM RawModeAgrees == Spec => []RawModeSeesOnlyData
<1>1. TypeOK /\ RawBalance => RawModeSeesOnlyData
  <2> SUFFICES ASSUME TypeOK, RawBalance, expect > 0, toDevice # <<>>
               PROVE  /\ Head(toDevice).op = "data"
                      /\ Head(toDevice).arg \in 1..expect
    BY DEF RawModeSeesOnlyData
  <2>1. PICK remains : Balances(remains)
    BY DEF RawBalance
  <2>2. Head(toDevice) = toDevice[1] /\ 1 \in 1..Len(toDevice) /\ 1 - 1 = 0
    BY DEF TypeOK
  <2>3. Remains(expect, Head(toDevice), remains[1]) /\ expect \in Nat
    BY <2>1, <2>2 DEF Balances, TypeOK, TargetTypeOK
  <2> QED
    BY <2>3 DEF Remains
<1> QED
  BY <1>1, TypeCorrect, RawInvariant, PTL

-----------------------------------------------------------------------------
(* The order of the commands and the size of the data: InOrder and         *)
(* DataFits.  While no read has failed, a command is on its way only after *)
(* the target has carried out everything that comes before it, and the     *)
(* data that is on its way is cut to the size that host and target have    *)
(* agreed on.                                                              *)
(*                                                                         *)
(* InOrder says nothing of what the host believes, so it is not inductive. *)
(* Strict adds the link between belief and fact: what the host takes as    *)
(* confirmed is done, because the line never holds more than one response, *)
(* the response is to the command the host waits for, and an ACK in the    *)
(* queue means that very command has been carried out.                     *)

(* What the host takes as done from where it is in the session.            *)
Confirmed ==
    CASE pc \in {"program", "data", "finish"} -> Programs(item - 1)
      [] pc = "patch" -> AllPrograms \cup Patches(item - 1)
      [] pc \in {"bootable", "reset"} -> AllPrograms \cup AllPatches
      [] pc = "tag" /\ ~commit -> Passed("check", item - 1)
      [] pc = "tag" /\ commit  -> Passed("check", Tags)
                                    \cup Passed("provision", item - 1)
      [] OTHER -> {}

(* The command whose outcome the host is about to learn.                   *)
Awaited ==
    CASE pc \in {"program", "data", "finish"} -> <<"program", item>>
      [] pc = "patch" -> <<"patch", item>>
      [] pc = "tag" /\ ~commit -> <<"check", item>>
      [] pc = "tag" /\ commit  -> <<"provision", item>>
      [] OTHER -> <<"nop", 0>>

IsCommand(k) == toDevice[k].op # "data"
IsAck(i) == IsResponse(toHost, i) /\ toHost[i].ack

ConfirmedDone == Confirmed \subseteq done

(* Before the first command the line may hold what an earlier session left *)
(* unread; the draining loop takes it away.                                *)
Early == pc \in {"wait", "drain"} /\ ~waiting

OneResponse ==
    \A i, j \in 1..Len(toHost) :
        IsResponse(toHost, i) /\ IsResponse(toHost, j) => i = j

(* A command in flight is the one the host waits for; before it there is   *)
(* nothing but data of a program that was given up.                        *)
CommandIsLast ==
    \A k \in 1..Len(toDevice) : IsCommand(k) =>
        /\ k = Len(toDevice)
        /\ waiting /\ pc \notin {"wait", "drain", "data", "finish"}
        /\ expect = 0
        /\ NoResponse(toHost)
        /\ pc \in {"tag", "program", "patch"}
             => <<toDevice[k].op, toDevice[k].arg>> = Awaited
        /\ toDevice[k].op = "program" => pc = "program"

(* Raw mode is entered for the program the host is at.                     *)
RawModeOfItem ==
    expect > 0 =>
        /\ cur = item
        /\ \/ pc = "program" /\ waiting /\ toDevice = <<>>
           \/ pc \in {"data", "finish"} /\ NoResponse(toHost)

AckMeansDone ==
    pc \in {"tag", "data", "finish", "patch"} =>
        \A i \in 1..Len(toHost) : IsAck(i) => Awaited \in done

(* Between two steps of the session there is no response.                  *)
NothingOwed ==
    /\ pc = "finish" => waiting
    /\ ~waiting /\ pc \notin {"wait", "drain", "data"} => NoResponse(toHost)

Strict ==
    /\ ConfirmedDone
    /\ ~Early => OneResponse
    /\ CommandIsLast
    /\ RawModeOfItem
    /\ AckMeansDone
    /\ NothingOwed

(* The lists are entered at their first element.                           *)
AtFirst ==
    pc \in {"wait", "drain", "nop", "configure", "reconfigure"} =>
        item = 1 /\ ~commit

OrderInv == InOrder /\ (~faulted /\ ~Ended => Strict)

-----------------------------------------------------------------------------
(* A failure of the host's reading is never forgotten.                     *)
LEMMA FaultsGrow ==
    ASSUME TypeOK, [Next]_vars
    PROVE  ~faulted' => ~faulted /\ faults' = faults
<1>1. faults \in Nat
  BY FaultsAssumption DEF TypeOK, LinkTypeOK
<1>2. faults' \in {faults, faults + 1}
  BY DEF Next, HostStep, WaitForTarget, Drain, DrainBatch, firehose_nop,
         firehose_reset, firehose_send_configure, firehose_send_single_tag,
         firehose_program, firehose_apply_patch, firehose_set_bootable,
         firehose_nop_answer, firehose_configure_answer,
         firehose_reconfigure_answer, firehose_single_tag_answer,
         firehose_program_setup, firehose_program_finish,
         firehose_apply_patch_answer, firehose_set_bootable_answer,
         firehose_reset_answer, program_execute, patch_execute, no_bootable,
         firehose_program_data, firehose_program_empty, WriteFails,
         ResponseTruncated, ImageFails, LogsOnly,
         ReadLogs, Request, firehose_write, Answer, firehose_read, ReadBatch,
         ReadFails, ReadGarbled, Fault, TargetAnswers, TargetConfigure,
         TargetProgram, TargetData, TargetJunk, TargetSimple, TargetTakes,
         TargetLog, CableOut, Unplug, Spin, vars, link
<1>3. QED
  BY <1>1, <1>2 DEF faulted

(* InOrder survives every step that sends nothing, and one that sends a    *)
(* document whose requirements are met.                                    *)
LEMMA OrderKept ==
    ASSUME toDevice \in Seq(Document), InOrder, plan' = plan,
           done \subseteq done', ~faulted' => ~faulted,
           \/ \E doc \in Document :
                 /\ toDevice' = Append(toDevice, doc)
                 /\ ~faulted' => Required(doc) \subseteq done
           \/ toDevice' = toDevice
           \/ toDevice # <<>> /\ toDevice' = Tail(toDevice)
           \/ toDevice' = <<>>
    PROVE  InOrder'
<1> SUFFICES ASSUME ~faulted', NEW k \in 1..Len(toDevice')
             PROVE  Required(toDevice[k])' \subseteq done'
  BY DEF InOrder
<1>1. \A i \in 1..Len(toDevice) : Required(toDevice[i]) \subseteq done
  BY DEF InOrder
<1>2. \/ \E i \in 1..Len(toDevice) : toDevice'[k] = toDevice[i]
      \/ Required(toDevice'[k]) \subseteq done
  <2>1. CASE \E doc \in Document :
                /\ toDevice' = Append(toDevice, doc)
                /\ ~faulted' => Required(doc) \subseteq done
    <3>1. PICK doc \in Document :
                /\ toDevice' = Append(toDevice, doc)
                /\ Required(doc) \subseteq done
      BY <2>1
    <3>2. toDevice'[k] = IF k = Len(toDevice) + 1 THEN doc ELSE toDevice[k]
      BY <3>1
    <3>3. k \in 1..(Len(toDevice) + 1)
      BY <3>1
    <3>4. QED
      BY <3>1, <3>2, <3>3
  <2>2. CASE toDevice # <<>> /\ toDevice' = Tail(toDevice)
    <3>1. k + 1 \in 1..Len(toDevice) /\ toDevice'[k] = toDevice[k + 1]
      BY <2>2
    <3>2. QED
      BY <3>1
  <2>3. CASE toDevice' = toDevice \/ toDevice' = <<>>
    BY <2>3
  <2>4. QED
    BY <2>1, <2>2, <2>3
<1>3. Required(toDevice'[k]) \subseteq done
  BY <1>1, <1>2
<1>4. Required(toDevice[k])' = Required(toDevice'[k])
  BY DEF Required, Programs, Patches, AllPrograms, AllPatches, Passed, Tags
<1>5. QED
  BY <1>3, <1>4

-----------------------------------------------------------------------------
(* Reading.                                                                *)

(* After a read the responses that are left are the last ones, in order.   *)
LEMMA SuffixElements ==
    ASSUME toHost \in Seq(Message), NEW k \in 1..Len(toHost),
           toHost' = SubSeq(toHost, k + 1, Len(toHost))
    PROVE  /\ Len(toHost') = Len(toHost) - k
           /\ \A i \in 1..Len(toHost') : /\ i + k \in 1..Len(toHost)
                                         /\ toHost'[i] = toHost[i + k]
  BY DEF Message

(* A read that returns takes the only response there is, and 0 from the    *)
(* parser of the simple commands means that it was an ACK.                 *)
LEMMA ReadTakesResponse ==
    ASSUME TypeOK, OneResponse, NEW parser, NEW r, ReadBatch(parser, r)
    PROVE  /\ NoResponse(toHost)'
           /\ \E i \in 1..Len(toHost) :
                 IsResponse(toHost, i) /\ r = Parsed(parser, toHost[i])
           /\ UNCHANGED <<toDevice, plugged, faults>>
<1>1. PICK k \in 1..Len(toHost), j \in 1..Len(toHost) :
         /\ j <= k
         /\ IsResponse(toHost, j)
         /\ r = Parsed(parser, toHost[j])
         /\ toHost' = SubSeq(toHost, k + 1, Len(toHost))
  BY DEF ReadBatch, TypeOK, LinkTypeOK
<1>2. toHost \in Seq(Message)
  BY DEF TypeOK, LinkTypeOK
<1>3. ASSUME NEW i \in 1..Len(toHost') PROVE toHost'[i].kind # "response"
  <2>1. i + k \in 1..Len(toHost) /\ toHost'[i] = toHost[i + k] /\ i + k # j
    BY <1>1, <1>2, SuffixElements
  <2>2. QED
    BY <1>1, <2>1 DEF OneResponse, IsResponse
<1>4. QED
  BY <1>1, <1>3 DEF ReadBatch, NoResponse, IsResponse

(* What the host knows when the answer to a step has come.                 *)
LEMMA AnswerFound ==
    ASSUME TypeOK, Strict, NEW step, NEW parser, NEW r,
           Answer(step, parser, r), ~faulted'
    PROVE  /\ NoResponse(toHost)'
           /\ \A k \in 1..Len(toDevice) : ~IsCommand(k)
           /\ expect > 0 => pc = "program" /\ cur = item
           /\ parser = "nop" /\ r = 0 => \E i \in 1..Len(toHost) : IsAck(i)
           /\ pc = step /\ ~waiting'
           /\ UNCHANGED <<toDevice, plan, expect, cur, done>>
<1>1. ReadBatch(parser, r)
  <2>1. faults \in Nat
    BY FaultsAssumption DEF TypeOK, LinkTypeOK
  <2>2. QED
    BY <2>1 DEF Answer, firehose_read, ReadFails, ReadGarbled, Fault, faulted
<1>2. PICK i \in 1..Len(toHost) :
         IsResponse(toHost, i) /\ r = Parsed(parser, toHost[i])
  BY <1>1, ReadTakesResponse DEF Strict, Early, Answer
<1>3. parser = "nop" /\ r = 0 => IsAck(i)
  BY <1>2 DEF Parsed, IsAck
<1>4. \A k \in 1..Len(toDevice) : ~IsCommand(k)
  BY <1>2 DEF Strict, CommandIsLast, NoResponse
<1>5. expect > 0 => pc = "program" /\ cur = item
  BY <1>2 DEF Strict, RawModeOfItem, NoResponse
<1>6. QED
  BY <1>1, <1>3, <1>4, <1>5, ReadTakesResponse
     DEF Strict, Early, Answer, targetVars

(* After an answer the line is empty again, so all that has to be shown of *)
(* the next state is that the host confirms nothing that is not done.      *)
LEMMA AnswerKeepsStrict ==
    ASSUME TypeOK, Strict, NEW step, NEW parser, NEW r,
           Answer(step, parser, r), ~faulted',
           ConfirmedDone', pc' # "finish",
           expect > 0 => pc' = "data" /\ item' = item
    PROVE  Strict'
<1>1. /\ NoResponse(toHost)'
      /\ \A k \in 1..Len(toDevice) : ~IsCommand(k)
      /\ expect > 0 => pc = "program" /\ cur = item
      /\ UNCHANGED <<toDevice, expect, cur>>
  BY AnswerFound
<1>2. OneResponse' /\ AckMeansDone' /\ NothingOwed'
  BY <1>1 DEF OneResponse, AckMeansDone, NothingOwed, NoResponse, IsAck
<1>3. CommandIsLast'
  BY <1>1 DEF CommandIsLast, IsCommand
<1>4. RawModeOfItem'
  BY <1>1 DEF RawModeOfItem
<1>5. QED
  BY <1>2, <1>3, <1>4 DEF Strict

-----------------------------------------------------------------------------
(* Sending.  A step may send what its predecessors, as the host knows      *)
(* them, are enough for.                                                   *)
LEMMA RequestKeepsOrder ==
    ASSUME TypeOK, OrderInv, ~Ended, ~faulted' => ~faulted,
           NEW step \in {"nop", "configure", "reconfigure", "tag", "program",
                         "patch", "bootable", "reset"},
           NEW cmd \in Document, cmd.op # "data",
           Request(step, cmd),
           Required(cmd) \subseteq Confirmed,
           step \in {"tag", "program", "patch"} => <<cmd.op, cmd.arg>> = Awaited,
           cmd.op = "program" => step = "program"
    PROVE  OrderInv'
<1> USE DEF OrderInv
<1>0. /\ toDevice' = Append(toDevice, cmd) /\ toDevice \in Seq(Document)
      /\ pc = step /\ ~waiting /\ waiting'
      /\ UNCHANGED <<plan, pc, item, commit, toHost, expect, cur, done>>
  BY DEF Request, firehose_write, TypeOK, targetVars
<1>1. ~faulted => Required(cmd) \subseteq done
  BY DEF Strict, ConfirmedDone
<1>2. InOrder'
  BY <1>0, <1>1, OrderKept
<1>3. ASSUME ~faulted PROVE Strict'
  <2>1. Strict
    BY <1>3
  <2>2. NoResponse(toHost) /\ ~(expect > 0)
    BY <1>0, <2>1 DEF Strict, NothingOwed, RawModeOfItem
  <2>3. expect \in Nat
    BY DEF TypeOK, TargetTypeOK
  <2>4. \A k \in 1..Len(toDevice) : ~IsCommand(k)
    BY <1>0, <2>1 DEF Strict, CommandIsLast
  <2>5. Awaited' = Awaited /\ Confirmed' = Confirmed
    BY <1>0 DEF Awaited, Confirmed, Programs, Patches, AllPrograms, AllPatches,
                Passed, Tags
  <2>6. OneResponse' /\ AckMeansDone' /\ NothingOwed' /\ NoResponse(toHost)'
    BY <1>0, <2>2 DEF OneResponse, AckMeansDone, NothingOwed, NoResponse,
                      IsAck,
                      IsResponse
  <2>7. RawModeOfItem'
    BY <1>0, <2>2 DEF RawModeOfItem
  <2>8. ConfirmedDone'
    BY <1>0, <2>1, <2>5 DEF Strict, ConfirmedDone
  <2>9. CommandIsLast'
    <3>1. ASSUME NEW k \in 1..Len(toDevice'), toDevice'[k].op # "data"
          PROVE  k = Len(toDevice') /\ toDevice'[k] = cmd
      BY <1>0, <2>4, <3>1 DEF IsCommand
    <3>2. expect' = 0
      BY <1>0, <2>2, <2>3
    <3>3. QED
      BY <1>0, <2>5, <2>6, <3>1, <3>2 DEF CommandIsLast, IsCommand
  <2>10. QED
    BY <2>6, <2>7, <2>8, <2>9 DEF Strict
<1>4. QED
  BY <1>2, <1>3

(* The steps between two commands: no document moves.                      *)
LEMMA QuietKeepsOrder ==
    ASSUME TypeOK, OrderInv, ~Ended, ~faulted' => ~faulted,
           UNCHANGED <<plan, targetVars, link, waiting>>,
           ~Ended' =>
              /\ \/ pc \in {"wait", "drain"} /\ pc' = "drain"
                 \/ pc = "drain" /\ pc' = "nop" /\ toHost = <<>>
                 \/ ~waiting /\ pc \in {"program", "patch", "bootable"}
                            /\ pc' \in {"program", "patch", "bootable", "reset"}
              /\ ~faulted => Confirmed' \subseteq done
    PROVE  OrderInv'
<1> USE DEF OrderInv
<1>0. toDevice \in Seq(Document)
  BY DEF TypeOK
<1>1. InOrder'
  BY <1>0, OrderKept DEF targetVars, link
<1>2. ASSUME ~faulted, ~Ended' PROVE Strict'
  <2>1. Strict /\ ConfirmedDone'
    BY <1>2 DEF ConfirmedDone, targetVars
  <2>2. /\ \A k \in 1..Len(toDevice) : ~IsCommand(k)
        /\ ~(expect > 0)
        /\ pc \notin {"wait", "drain"} => NoResponse(toHost)
    BY <1>2, <2>1 DEF Strict, CommandIsLast, RawModeOfItem, NothingOwed
  <2>3. CommandIsLast' /\ RawModeOfItem'
    BY <2>2 DEF CommandIsLast, IsCommand, RawModeOfItem, targetVars, link
  <2>4. (~Early => OneResponse)' /\ NothingOwed'
    BY <1>2, <2>1, <2>2
       DEF Strict, Early, OneResponse, NothingOwed, NoResponse, IsResponse,
           link
  <2>5. AckMeansDone'
    BY <1>2, <2>2 DEF AckMeansDone, IsAck, NoResponse, IsResponse, link
  <2>6. QED
    BY <2>1, <2>3, <2>4, <2>5 DEF Strict
<1>3. QED
  BY <1>1, <1>2

-----------------------------------------------------------------------------
(* One element more of a list is one command more; past its end the list   *)
(* is complete.                                                            *)
LEMMA ListSteps ==
    ASSUME NEW i \in Nat \ {0}
    PROVE  /\ Programs(i) \subseteq Programs(i - 1) \cup {<<"program", i>>}
           /\ i \in 1..Len(plan.programs) /\ ~plan.programs[i].opens
                => Programs(i) = Programs(i - 1)
           /\ Patches(i) \subseteq Patches(i - 1) \cup {<<"patch", i>>}
           /\ i \in 1..Len(plan.patches) /\ ~plan.patches[i]
                => Patches(i) = Patches(i - 1)
           /\ Programs(0) = {} /\ Patches(0) = {}
  BY DEF Programs, Patches

(* Behind the end of a list, everything in it has been passed.             *)
LEMMA ListEnds ==
    ASSUME NEW i \in Nat \ {0}, plan \in Plans
    PROVE  /\ i > Len(plan.programs) => AllPrograms \subseteq Programs(i - 1)
           /\ i > Len(plan.patches) => AllPatches \subseteq Patches(i - 1)
  BY PlanType DEF Programs, Patches, AllPrograms, AllPatches

(* The next position of a list adds one command to what was passed.        *)
LEMMA PassSteps ==
    ASSUME NEW i \in Nat \ {0}, NEW op
    PROVE  /\ Passed(op, i) \subseteq Passed(op, i - 1) \cup {<<op, i>>}
           /\ Passed(op, 0) = {}
  BY DEF Passed

(* The sets of commands depend on the plan only.                           *)
LEMMA WorkSame ==
    ASSUME plan' = plan
    PROVE  /\ AllPrograms' = AllPrograms /\ AllPatches' = AllPatches
           /\ Tags' = Tags
           /\ \A i : Programs(i)' = Programs(i) /\ Patches(i)' = Patches(i)
  BY DEF Programs, Patches, AllPrograms, AllPatches, Tags

(* Before the first tag, program or patch the list position is the first,  *)
(* and the pass is the dry one (firehose_run).                             *)
LEMMA FirstKept == AtFirst /\ [Next]_vars => AtFirst'
<1> SUFFICES ASSUME AtFirst, [Next]_vars PROVE AtFirst'
  OBVIOUS
<1> USE DEF AtFirst
<1>1. CASE UNCHANGED <<pc, item, commit>>
  BY <1>1
<1>2. CASE /\ item' = item /\ commit' = commit
           /\ \/ pc' \notin {"wait", "drain", "nop", "configure", "reconfigure"}
              \/ pc \in {"wait", "drain", "nop", "configure"}
  BY <1>2
<1>3. CASE pc' \notin {"wait", "drain", "nop", "configure", "reconfigure"}
  BY <1>3
<1>4. QED
  BY <1>1, <1>2, <1>3
     DEF Next, HostStep, WaitForTarget, Drain, firehose_nop,
         firehose_reset, firehose_send_configure, firehose_send_single_tag,
         firehose_program, firehose_apply_patch, firehose_set_bootable,
         firehose_nop_answer, firehose_configure_answer,
         firehose_reconfigure_answer, firehose_single_tag_answer,
         firehose_program_setup, firehose_program_finish,
         firehose_apply_patch_answer, firehose_set_bootable_answer,
         firehose_reset_answer, program_execute, patch_execute, no_bootable,
         firehose_program_data, firehose_program_empty, WriteFails,
         ResponseTruncated, ImageFails, LogsOnly,
         Request, Answer, TargetAnswers, TargetConfigure, TargetProgram,
         TargetData, TargetJunk, TargetSimple, TargetTakes, TargetLog,
         CableOut,
         Spin, GoTo, Return, AfterConfigure, vars, hostVars

-----------------------------------------------------------------------------
(* Host.                                                                   *)
LEMMA HostOrder ==
    TypeOK /\ InRange /\ AtFirst /\ OrderInv /\ HostStep => OrderInv'
<1> SUFFICES ASSUME TypeOK, InRange, AtFirst, OrderInv, HostStep
             PROVE  OrderInv'
  OBVIOUS
<1> USE DEF GoTo, Return, Ended
<1>0. /\ toDevice \in Seq(Document) /\ plan \in Plans /\ HostTypeOK
      /\ item \in Nat \ {0} /\ InOrder
  BY DEF TypeOK, HostTypeOK, OrderInv
<1>f. ~faulted' => ~faulted /\ faults' = faults
  BY FaultsGrow DEF Next
(* A step that ends the session only has to keep InOrder.                  *)
<1>e. ASSUME toDevice' = toDevice, UNCHANGED <<plan, done>>, Ended'
      PROVE  OrderInv'
  BY <1>0, <1>e, <1>f, OrderKept DEF OrderInv
<1>a. ASSUME NEW step, NEW parser, NEW r, Answer(step, parser, r),
             step \notin {"returned", "exited"},
             ~faulted' /\ ~Ended' =>
                /\ Strict => ConfirmedDone'
                /\ pc' # "finish"
                /\ step = "program" => pc' = "data" /\ item' = item
      PROVE  OrderInv'
  <2>1. toDevice' = toDevice /\ UNCHANGED <<plan, done>>
    BY <1>a, AnswerFacts, ReadType DEF TypeOK, targetVars
  <2>2. InOrder'
    BY <1>0, <1>f, <2>1, OrderKept
  <2>3. ~Ended
    BY <1>a, AnswerFacts
  <2>4. ASSUME Strict, ~faulted', ~Ended' PROVE Strict'
    BY <1>a, <2>4, AnswerFound, AnswerKeepsStrict
  <2>5. QED
    BY <1>f, <2>2, <2>3, <2>4 DEF OrderInv
<1>1. CASE WaitForTarget
  BY <1>1, <1>f, QuietKeepsOrder DEF WaitForTarget, Confirmed
<1>2. CASE Drain
  <2>1. toDevice' = toDevice /\ UNCHANGED <<plan, targetVars, waiting, item>>
    BY <1>2, ReadType DEF Drain, TypeOK, link
  <2>2. CASE UNCHANGED link
    BY <1>2, <1>f, <2>2, QuietKeepsOrder DEF Drain, Confirmed
  <2>3. CASE DrainBatch
    <3>1. InOrder'
      BY <1>0, <1>f, <2>1, OrderKept DEF targetVars
    <3>2. ASSUME ~faulted, Strict PROVE Strict'
      <4>1. PICK k \in 1..Len(toHost) : toHost' = SubSeq(toHost, k + 1, Len(toHost))
        BY <2>3 DEF DrainBatch
      <4>2. /\ Len(toHost') = Len(toHost) - k
            /\ \A i \in 1..Len(toHost') : /\ i + k \in 1..Len(toHost)
                                          /\ toHost'[i] = toHost[i + k]
        BY <4>1, SuffixElements DEF TypeOK, LinkTypeOK
      <4>3. (~Early => OneResponse)'
        <5>1. \A i, j \in 1..Len(toHost') : i + k = j + k => i = j
          BY <4>1
        <5>2. OneResponse => OneResponse'
          BY <4>2, <5>1 DEF OneResponse, IsResponse
        <5>3. Early' = Early
          BY <1>2, <2>1, <2>3 DEF Drain, Early
        <5>4. QED
          BY <3>2, <5>2, <5>3 DEF Strict
      <4>4. NothingOwed'
        BY <1>2, <2>1, <2>3, <3>2, <4>2
           DEF Drain, Strict, NothingOwed, NoResponse, IsResponse
      <4>5. ConfirmedDone' /\ AckMeansDone' /\ CommandIsLast' /\ RawModeOfItem'
        BY <1>2, <2>1, <2>3, <3>2
           DEF Drain, Strict, ConfirmedDone, Confirmed, AckMeansDone,
               CommandIsLast, IsCommand, RawModeOfItem, targetVars
      <4>6. QED
        BY <4>3, <4>4, <4>5 DEF Strict
    <3>3. QED
      BY <1>2, <1>f, <3>1, <3>2 DEF OrderInv, Drain
  <2>4. QED
    BY <1>2, <2>2, <2>3 DEF Drain
<1>3. CASE firehose_nop
  <2>1. Cmd("nop", 0) \in Document /\ Required(Cmd("nop", 0)) = {}
    BY DocumentType DEF SimpleOps, Cmd, Required
  <2>2. QED
    BY <1>3, <1>f, <2>1, RequestKeepsOrder DEF firehose_nop, Request, Cmd
<1>4. CASE firehose_send_configure
  <2>1. PICK step \in {"configure", "reconfigure"}, n \in Nat :
          Request(step, Cmd("configure", n))
    BY <1>0, <1>4 DEF firehose_send_configure, HostTypeOK
  <2>2. Cmd("configure", n) \in Document /\ Required(Cmd("configure", n)) = {}
    BY DocumentType DEF Cmd, Required
  <2>3. QED
    BY <1>f, <2>1, <2>2, RequestKeepsOrder DEF Request, Cmd
<1>5. CASE firehose_send_single_tag
  <2>1. PICK op \in {"check", "provision"} :
          /\ Request("tag", Cmd(op, item))
          /\ op = IF commit THEN "provision" ELSE "check"
    BY <1>5 DEF firehose_send_single_tag
  <2>2. Cmd(op, item) \in Document
    BY <1>0, DocumentType DEF SimpleOps
  <2>3. pc = "tag" /\ ~Ended
    BY <2>1 DEF Request
  <2>4. Required(Cmd(op, item)) = Confirmed /\ Awaited = <<op, item>>
    BY <2>1, <2>3 DEF Required, Confirmed, Awaited, Cmd
  <2>5. QED
    BY <1>f, <2>1, <2>2, <2>3, <2>4, RequestKeepsOrder DEF Cmd
<1>6. CASE firehose_program
  <2>1. Cmd("program", item) \in Document
    BY <1>0, DocumentType
  <2>2. pc = "program" /\ ~Ended /\ Request("program", Cmd("program", item))
    BY <1>6 DEF firehose_program, Request
  <2>3. Required(Cmd("program", item)) = Confirmed
        /\ Awaited = <<"program", item>>
    BY <2>2 DEF Required, Confirmed, Awaited, Cmd
  <2>4. QED
    BY <1>f, <2>1, <2>2, <2>3, RequestKeepsOrder DEF Cmd
<1>7. CASE firehose_apply_patch
  <2>1. Cmd("patch", item) \in Document
    BY <1>0, DocumentType DEF SimpleOps
  <2>2. pc = "patch" /\ ~Ended /\ Request("patch", Cmd("patch", item))
    BY <1>7 DEF firehose_apply_patch, Request
  <2>3. Required(Cmd("patch", item)) = Confirmed /\ Awaited = <<"patch", item>>
    BY <2>2 DEF Required, Confirmed, Awaited, Cmd
  <2>4. QED
    BY <1>f, <2>1, <2>2, <2>3, RequestKeepsOrder DEF Cmd
<1>8. CASE firehose_set_bootable \/ firehose_reset
  <2>1. PICK step \in {"bootable", "reset"}, n \in Nat,
             op \in {"setbootablestoragedrive", "power"} :
          Request(step, Cmd(op, n))
    <3>1. ASSUME NEW i \in 1..Len(plan.programs)
          PROVE  plan.programs[i].part \in Nat
      <4>1. plan.programs[i] \in Program
        BY <1>0, PlanType
      <4>2. QED
        BY <4>1 DEF Program
    <3>2. QED
      BY <1>8, <3>1 DEF firehose_set_bootable, firehose_reset
  <2>2. Cmd(op, n) \in Document
    BY DocumentType DEF SimpleOps
  <2>3. pc = step /\ ~Ended
    BY <2>1 DEF Request
  <2>4. Required(Cmd(op, n)) = Confirmed
    BY <2>1, <2>3 DEF Required, Confirmed, Cmd
  <2>5. QED
    BY <1>f, <2>1, <2>2, <2>3, <2>4, RequestKeepsOrder DEF Cmd
<1>9. CASE firehose_nop_answer
  BY <1>9, <1>a DEF firehose_nop_answer, ConfirmedDone, Confirmed
<1>10. CASE firehose_configure_answer \/ firehose_reconfigure_answer
  <2>1. PICK step \in {"configure", "reconfigure"}, r \in {-1, 0, 1} \cup Caps :
          Answer(step, "configure", r)
    BY <1>10 DEF firehose_configure_answer, firehose_reconfigure_answer
  <2>2. /\ pc' \in {"reconfigure", "tag", "program", "returned"}
        /\ item' = item /\ commit' = commit
    BY <1>10 DEF firehose_configure_answer, firehose_reconfigure_answer,
                 AfterConfigure
  <2>3. item' = 1 /\ ~commit'
    <3>1. pc \in {"configure", "reconfigure"}
      BY <2>1, AnswerFacts
    <3>2. QED
      BY <2>2, <3>1, Zenon DEF AtFirst
  <2>4. Confirmed' = {}
    BY <2>2, <2>3, ListSteps, PassSteps DEF Confirmed, Programs, Passed
  <2>5. QED
    BY <1>a, <2>1, <2>2, <2>4 DEF ConfirmedDone
<1>11. CASE firehose_single_tag_answer
  <2>1. PICK r \in {-1, 0, 1} :
          /\ Answer("tag", "nop", r)
          /\ \/ r # 0 /\ pc' = "returned"
             \/ /\ r = 0 /\ pc' = "tag"
                /\ \/ item' = item + 1 /\ commit' = commit
                   \/ item = Tags /\ ~commit /\ item' = 1 /\ commit'
             \/ pc' = "returned"
    BY <1>11, Zenon DEF firehose_single_tag_answer
  <2>2. ASSUME Strict, ~faulted', ~Ended' PROVE ConfirmedDone'
    <3>1. \E i \in 1..Len(toHost) : IsAck(i)
      BY <2>1, <2>2, AnswerFound
    <3>2. pc = "tag" /\ done' = done /\ plan' = plan
      BY <2>1, <2>2, AnswerFound
    <3>3. Confirmed \cup {Awaited} \subseteq done
      BY <2>2, <3>1, <3>2 DEF Strict, ConfirmedDone, AckMeansDone
    <3>4. Tags' = Tags
      BY <3>2, WorkSame
    <3>5. CASE item' = item + 1 /\ commit' = commit
      <4>1. item' - 1 = item
        BY <1>0, <3>5
      <4>2. CASE commit
        <5>1. Confirmed' = Passed("check", Tags) \cup Passed("provision", item)
          BY <2>1, <2>2, <3>4, <3>5, <4>1, <4>2 DEF Confirmed, Passed, Ended
        <5>2. QED
          BY <1>0, <3>2, <3>3, <4>2, <5>1, PassSteps
             DEF ConfirmedDone, Confirmed, Awaited
      <4>3. CASE ~commit
        <5>1. Confirmed' = Passed("check", item)
          BY <2>1, <2>2, <3>5, <4>1, <4>3 DEF Confirmed, Passed, Ended
        <5>2. QED
          BY <1>0, <3>2, <3>3, <4>3, <5>1, PassSteps
             DEF ConfirmedDone, Confirmed, Awaited
      <4>4. QED
        BY <4>2, <4>3
    <3>6. CASE item = Tags /\ ~commit /\ item' = 1 /\ commit'
      <4>0. item' - 1 = 0 /\ pc' = "tag" /\ commit'
        <5>1. pc' = "tag"
          BY <2>1, <2>2 DEF Ended
        <5>2. item' = 1 /\ commit'
          BY <3>6
        <5>3. QED
          BY <5>1, <5>2
      <4>1. Confirmed' = Passed("check", Tags) \cup Passed("provision", 0)
        <5>1. Confirmed' = (Passed("check", Tags)
                              \cup Passed("provision", item - 1))'
          BY <4>0 DEF Confirmed
        <5>2. QED
          BY <3>4, <4>0, <5>1 DEF Passed
      <4>2. QED
        BY <1>0, <3>2, <3>3, <3>6, <4>1, PassSteps
           DEF ConfirmedDone, Confirmed, Awaited
    <3>7. QED
      BY <2>1, <2>2, <3>5, <3>6
  <2>3. QED
    BY <1>a, <2>1, <2>2
<1>12. CASE program_execute \/ patch_execute \/ no_bootable
  <2>1. /\ UNCHANGED <<plan, targetVars, link, waiting>>
        /\ ~waiting /\ ~Ended /\ pc \in {"program", "patch", "bootable"}
        /\ pc' \in {"program", "patch", "bootable", "reset"}
    BY <1>12 DEF program_execute, patch_execute, no_bootable
  <2>2. Confirmed' \subseteq Confirmed
    <3>1. CASE /\ pc = "program" /\ pc' = "program" /\ item' = item + 1
               /\ item <= Len(plan.programs) /\ ~Here.opens
      <4>1. item \in 1..Len(plan.programs) /\ item' - 1 = item
        BY <1>0, <3>1, PlanType
      <4>2. Confirmed' = Programs(item)
        BY <2>1, <3>1, <4>1, WorkSame DEF Confirmed, Programs
      <4>3. QED
        BY <1>0, <3>1, <4>1, <4>2, ListSteps DEF Confirmed, Here
    <3>2. CASE /\ pc = "program" /\ pc' = "patch" /\ item' = 1
               /\ item > Len(plan.programs)
      <4>0. item' - 1 = 0
        BY <3>2
      <4>1. Confirmed' = AllPrograms \cup Patches(0)
        BY <2>1, <3>2, <4>0, WorkSame DEF Confirmed, Patches
      <4>2. QED
        BY <1>0, <3>2, <4>1, ListSteps, ListEnds DEF Confirmed
    <3>3. CASE /\ pc = "patch" /\ pc' = "patch" /\ item' = item + 1
               /\ item <= Len(plan.patches) /\ ~plan.patches[item]
      <4>1. item \in 1..Len(plan.patches) /\ item' - 1 = item
        BY <1>0, <3>3, PlanType
      <4>2. Confirmed' = AllPrograms \cup Patches(item)
        BY <2>1, <3>3, <4>1, WorkSame DEF Confirmed, Patches
      <4>3. QED
        BY <1>0, <3>3, <4>1, <4>2, ListSteps DEF Confirmed
    <3>4. CASE /\ pc = "patch" /\ pc' = "bootable"
               /\ item > Len(plan.patches)
      <4>1. Confirmed' = AllPrograms \cup AllPatches
        BY <2>1, <3>4, WorkSame DEF Confirmed
      <4>2. QED
        BY <1>0, <3>4, <4>1, ListEnds DEF Confirmed
    <3>5. CASE pc = "bootable" /\ pc' = "reset"
      BY <2>1, <3>5, WorkSame DEF Confirmed
    <3>6. QED
      BY <1>12, <3>1, <3>2, <3>3, <3>4, <3>5
         DEF program_execute, patch_execute, no_bootable
  <2>3. ~faulted => Confirmed \subseteq done
    BY <2>1 DEF OrderInv, Strict, ConfirmedDone
  <2>4. QED
    BY <1>f, <2>1, <2>2, <2>3, QuietKeepsOrder
<1>13. CASE firehose_program_setup
  <2>1. PICK r \in {-1, 0, 1} :
          /\ Answer("program", "nop", r)
          /\ \/ pc' = "returned"
             \/ pc' = "data"
          /\ item' = item
    BY <1>13 DEF firehose_program_setup
  <2>2. ASSUME Strict, ~faulted', ~Ended' PROVE ConfirmedDone'
    <3>1. pc = "program" /\ done' = done /\ plan' = plan /\ pc' = "data"
      BY <2>1, <2>2, AnswerFound
    <3>2. Confirmed' = Confirmed
      BY <2>1, <3>1, WorkSame DEF Confirmed, Programs
    <3>3. QED
      BY <2>2, <3>1, <3>2 DEF Strict, ConfirmedDone
  <2>3. QED
    BY <1>a, <2>1, <2>2
<1>14. CASE firehose_program_data
  <2>1. Here \in Program
    BY <1>0, <1>14, PlanType DEF InRange, Here, firehose_program_data
  <2>2. Cmd("data", Chunk(Here)) \in Document
    BY <1>0, <2>1, SectorCounts, DocumentType DEF HostTypeOK
  <2>3. /\ toDevice' = Append(toDevice, Cmd("data", Chunk(Here)))
        /\ UNCHANGED <<plan, item, commit, toHost, expect, cur, done>>
        /\ pc = "data" /\ pc' \in {"data", "finish"}
    BY <1>14 DEF firehose_program_data, firehose_write, targetVars
  <2>4. Required(Cmd("data", Chunk(Here))) = {}
    BY DEF Required, Cmd
  <2>5. InOrder'
    BY <1>0, <1>f, <2>2, <2>3, <2>4, OrderKept
  <2>6. ASSUME Strict PROVE Strict'
    <3>1. \A k \in 1..Len(toDevice) : ~IsCommand(k)
      BY <2>3, <2>6 DEF Strict, CommandIsLast
    <3>2. \A k \in 1..Len(toDevice') : toDevice'[k].op = "data"
      BY <1>0, <2>2, <2>3, <3>1 DEF IsCommand, Cmd
    <3>3. CommandIsLast'
      BY <3>2 DEF CommandIsLast, IsCommand
    <3>4. Awaited' = Awaited /\ Confirmed' = Confirmed
      BY <2>3, WorkSame DEF Awaited, Confirmed, Programs
    <3>5. ConfirmedDone' /\ OneResponse' /\ AckMeansDone' /\ RawModeOfItem'
      BY <2>3, <2>6, <3>4
         DEF Strict, Early, ConfirmedDone, OneResponse, AckMeansDone,
             RawModeOfItem, NoResponse, IsResponse, IsAck
    <3>6. NothingOwed'
      BY <1>14, Zenon DEF firehose_program_data, NothingOwed, GoTo
    <3>7. QED
      BY <3>3, <3>5, <3>6 DEF Strict
  <2>7. QED
    BY <1>f, <2>3, <2>5, <2>6 DEF OrderInv
<1>15. CASE firehose_program_finish \/ firehose_apply_patch_answer
  <2>1. PICK r \in {-1, 0, 1}, step \in {"finish", "patch"} :
          /\ Answer(step, "nop", r)
          /\ \/ pc' = "returned"
             \/ /\ r = 0 /\ item' = item + 1
                /\ pc' = IF step = "finish" THEN "program" ELSE "patch"
    BY <1>15 DEF firehose_program_finish, firehose_apply_patch_answer
  <2>2. ASSUME Strict, ~faulted', ~Ended' PROVE ConfirmedDone'
    <3>1. \E i \in 1..Len(toHost) : IsAck(i)
      BY <2>1, <2>2, AnswerFound
    <3>2. pc = step /\ done' = done /\ plan' = plan
      BY <2>1, <2>2, AnswerFound
    <3>3. Confirmed \cup {Awaited} \subseteq done
      BY <2>1, <2>2, <3>1, <3>2 DEF Strict, ConfirmedDone, AckMeansDone
    <3>4. Confirmed' \subseteq Confirmed \cup {Awaited}
      <4>1. item' = item + 1 /\ item' - 1 = item
        BY <1>0, <2>1, <2>2 DEF Ended
      <4>2. CASE step = "finish"
        <5>1. Confirmed' = Programs(item)
          BY <2>1, <2>2, <3>2, <4>1, <4>2, WorkSame DEF Confirmed, Programs,
                                                        Ended
        <5>2. QED
          BY <1>0, <3>2, <4>2, <5>1, ListSteps DEF Confirmed, Awaited
      <4>3. CASE step = "patch"
        <5>1. Confirmed' = AllPrograms \cup Patches(item)
          BY <2>1, <2>2, <3>2, <4>1, <4>3, WorkSame DEF Confirmed, Patches,
                                                        Ended
        <5>2. QED
          BY <1>0, <3>2, <4>3, <5>1, ListSteps DEF Confirmed, Awaited
      <4>4. QED
        BY <4>2, <4>3
    <3>5. QED
      BY <3>2, <3>3, <3>4 DEF ConfirmedDone
  <2>3. QED
    BY <1>a, <2>1, <2>2
<1>16. CASE firehose_set_bootable_answer
  <2>1. PICK r \in {-1, 0, 1} : Answer("bootable", "nop", r)
    BY <1>16 DEF firehose_set_bootable_answer
  <2>2. pc' = "reset"
    BY <1>16 DEF firehose_set_bootable_answer
  <2>3. ASSUME Strict, ~faulted', ~Ended' PROVE ConfirmedDone'
    <3>1. pc = "bootable" /\ done' = done /\ plan' = plan
      BY <2>1, <2>3, AnswerFound
    <3>2. Confirmed' = Confirmed
      BY <2>2, <3>1, WorkSame DEF Confirmed
    <3>3. QED
      BY <2>3, <3>1, <3>2 DEF Strict, ConfirmedDone
  <2>4. QED
    BY <1>a, <2>1, <2>2, <2>3
<1>17. CASE firehose_reset_answer
  BY <1>17, <1>a DEF firehose_reset_answer
<1>18. CASE WriteFails \/ ResponseTruncated \/ ImageFails
  <2>1. UNCHANGED <<plan, targetVars, link>>
    BY <1>18 DEF WriteFails, ResponseTruncated, ImageFails
  <2>2. CASE Ended'
    BY <1>e, <2>1, <2>2 DEF targetVars, link
  <2>3. CASE ~Ended'
    <3>1. pc = "bootable" /\ pc' = "reset" /\ ~waiting /\ waiting' = waiting
      BY <1>18, <2>3 DEF WriteFails, ResponseTruncated, ImageFails, Writes
    <3>2. Confirmed' = Confirmed
      BY <2>1, <3>1, WorkSame DEF Confirmed
    <3>3. ~faulted => Confirmed \subseteq done
      BY <3>1 DEF OrderInv, Strict, ConfirmedDone
    <3>4. QED
      BY <1>f, <2>1, <3>1, <3>2, <3>3, QuietKeepsOrder
  <2>4. QED
    BY <2>2, <2>3
<1>19. CASE LogsOnly
  <2>1. /\ UNCHANGED <<plan, hostVars, targetVars, toDevice>>
        /\ \E k \in 1..Len(toHost) : toHost' = SubSeq(toHost, k + 1, Len(toHost))
    BY <1>19 DEF LogsOnly, ReadLogs
  <2>2. InOrder'
    BY <1>0, <1>f, <2>1, OrderKept DEF targetVars
  <2>3. PICK k \in 1..Len(toHost) :
          /\ Len(toHost') = Len(toHost) - k
          /\ \A i \in 1..Len(toHost') : /\ i + k \in 1..Len(toHost)
                                        /\ toHost'[i] = toHost[i + k]
    BY <2>1, SuffixElements DEF TypeOK, LinkTypeOK
  <2>4. ASSUME Strict PROVE Strict'
    <3>1. Awaited' = Awaited /\ Confirmed' = Confirmed
      BY <2>1 DEF Awaited, Confirmed, Programs, Patches, AllPrograms,
                  AllPatches, Passed, Tags, hostVars
    <3>2. OneResponse'
      <4>1. \A i, j \in 1..Len(toHost') : i + k = j + k => i = j
        BY <2>3
      <4>2. QED
        BY <1>19, <2>3, <2>4, <4>1
           DEF Strict, Early, LogsOnly, OneResponse, IsResponse
    <3>3. AckMeansDone'
      BY <2>1, <2>3, <2>4, <3>1
         DEF Strict, AckMeansDone, IsAck, IsResponse, hostVars, targetVars
    <3>4. NoResponse(toHost) => NoResponse(toHost)'
      BY <2>3 DEF NoResponse, IsResponse
    <3>5. ConfirmedDone' /\ RawModeOfItem'
      BY <2>1, <2>4, <3>1, <3>4
         DEF Strict, ConfirmedDone, RawModeOfItem, hostVars, targetVars
    <3>6. CommandIsLast'
      BY <2>1, <2>4, <3>1, <3>4
         DEF Strict, CommandIsLast, IsCommand, hostVars, targetVars
    <3>7. NothingOwed'
      BY <2>1, <2>4, <3>4 DEF Strict, NothingOwed, hostVars
    <3>8. QED
      BY <3>2, <3>3, <3>5, <3>6, <3>7 DEF Strict
  <2>5. QED
    BY <1>f, <2>1, <2>2, <2>4 DEF OrderInv, hostVars
<1>20. CASE firehose_program_empty
  <2>1. /\ UNCHANGED <<plan, item, commit, targetVars, link>>
        /\ pc = "data" /\ pc' = "finish" /\ waiting'
    BY <1>20 DEF firehose_program_empty
  <2>2. InOrder'
    BY <1>0, <1>f, <2>1, OrderKept DEF targetVars, link
  <2>3. ASSUME Strict PROVE Strict'
    <3>1. \A k \in 1..Len(toDevice) : ~IsCommand(k)
      BY <2>1, <2>3 DEF Strict, CommandIsLast
    <3>2. CommandIsLast'
      BY <2>1, <3>1 DEF CommandIsLast, IsCommand, link
    <3>3. Awaited' = Awaited /\ Confirmed' = Confirmed
      BY <2>1, WorkSame DEF Awaited, Confirmed, Programs
    <3>4. ConfirmedDone' /\ OneResponse' /\ AckMeansDone' /\ RawModeOfItem'
      BY <2>1, <2>3, <3>3
         DEF Strict, Early, ConfirmedDone, OneResponse, AckMeansDone,
             RawModeOfItem, NoResponse, IsResponse, IsAck, targetVars, link
    <3>5. NothingOwed'
      BY <2>1 DEF NothingOwed
    <3>6. QED
      BY <3>2, <3>4, <3>5 DEF Strict
  <2>4. QED
    BY <1>f, <2>1, <2>2, <2>3 DEF OrderInv
<1>21. QED
  BY <1>1, <1>2, <1>3, <1>4, <1>5, <1>6, <1>7, <1>8, <1>9, <1>10, <1>11,
     <1>12, <1>13, <1>14, <1>15, <1>16, <1>17, <1>18, <1>19, <1>20
     DEF HostStep

-----------------------------------------------------------------------------
(* Target.                                                                 *)

(* A response sent while the queue holds none is the only one.             *)
LEMMA SoleResponse ==
    ASSUME toHost \in Seq(Message), NoResponse(toHost), NEW ack, NEW size,
           TargetSends(Response(ack, size))
    PROVE  /\ OneResponse'
           /\ \A i \in 1..Len(toHost') : IsAck(i)' => ack = TRUE
<1>1. \A i \in 1..Len(toHost') :
         /\ i \in 1..(Len(toHost) + 1)
         /\ toHost'[i] = IF i = Len(toHost) + 1
                         THEN [kind |-> "response", ack |-> ack, size |-> size]
                         ELSE toHost[i]
  BY DEF TargetSends, Response
<1>2. \A i \in 1..Len(toHost') :
         IsResponse(toHost, i)' => i = Len(toHost) + 1
  BY <1>1 DEF NoResponse, IsResponse
<1>3. \A i \in 1..Len(toHost') : IsAck(i)' => ack = TRUE
  BY <1>1, <1>2 DEF IsAck
<1>4. QED
  BY <1>2, <1>3 DEF OneResponse

(* A command taken by the target: it was alone in the queue, and the host  *)
(* waits for its answer.                                                   *)
LEMMA CommandTaken ==
    ASSUME TypeOK, Strict, NEW op, op # "data", TargetTakes(op)
    PROVE  /\ toDevice' = <<>>
           /\ waiting /\ pc \notin {"wait", "drain", "data", "finish"}
           /\ expect = 0 /\ NoResponse(toHost)
           /\ pc \in {"tag", "program", "patch"}
                => <<op, Head(toDevice).arg>> = Awaited
           /\ op = "program" => pc = "program"
<1>1. /\ 1 \in 1..Len(toDevice) /\ Head(toDevice) = toDevice[1]
      /\ toDevice' \in Seq(Document) /\ Len(toDevice') = Len(toDevice) - 1
  BY TakeType
<1>2. toDevice[1].op = op /\ IsCommand(1)
  BY <1>1 DEF TargetTakes, IsCommand
<1>3. /\ 1 = Len(toDevice)
      /\ waiting /\ pc \notin {"wait", "drain", "data", "finish"}
      /\ expect = 0 /\ NoResponse(toHost)
      /\ pc \in {"tag", "program", "patch"}
           => <<toDevice[1].op, toDevice[1].arg>> = Awaited
      /\ toDevice[1].op = "program" => pc = "program"
  BY <1>1, <1>2 DEF Strict, CommandIsLast
<1>4. toDevice' = <<>>
  BY <1>1, <1>3, EmptySeq
<1>5. QED
  BY <1>1, <1>2, <1>3, <1>4

(* The answer to a command keeps Strict if an ACK to one the host will     *)
(* believe in means that it was carried out.                               *)
LEMMA CommandKeepsStrict ==
    ASSUME TypeOK, Strict, NEW op, op # "data", TargetTakes(op),
           NEW size,
           \/ TargetSends(Response(FALSE, size))
           \/ /\ TargetSends(Response(TRUE, size))
              /\ pc \in {"tag", "patch"} => Awaited \in done',
           done \subseteq done',
           expect' > 0 => op = "program" /\ cur' = Head(toDevice).arg
    PROVE  Strict'
<1>1. /\ toDevice' = <<>>
      /\ waiting /\ pc \notin {"wait", "drain", "data", "finish"}
      /\ expect = 0 /\ NoResponse(toHost)
      /\ pc \in {"tag", "program", "patch"}
           => <<op, Head(toDevice).arg>> = Awaited
      /\ op = "program" => pc = "program"
  BY CommandTaken
<1>2. UNCHANGED <<plan, pc, waiting, item, commit>>
  BY DEF TargetTakes, hostVars
<1>3. Awaited' = Awaited /\ Confirmed' = Confirmed
  BY <1>2 DEF Awaited, Confirmed, Programs, Patches, AllPrograms, AllPatches,
              Passed, Tags
<1>4. toHost \in Seq(Message)
  BY DEF TypeOK, LinkTypeOK
<1>5. OneResponse' /\ AckMeansDone'
  <2>1. CASE TargetSends(Response(FALSE, size))
    <3>1. OneResponse' /\ \A i \in 1..Len(toHost') : ~IsAck(i)'
      BY <1>1, <1>4, <2>1, SoleResponse
    <3>2. QED
      BY <3>1 DEF AckMeansDone
  <2>2. CASE /\ TargetSends(Response(TRUE, size))
             /\ pc \in {"tag", "patch"} => Awaited \in done'
    <3>1. OneResponse'
      BY <1>1, <1>4, <2>2, SoleResponse
    <3>2. QED
      BY <1>1, <1>2, <1>3, <2>2, <3>1 DEF AckMeansDone
  <2>3. QED
    BY <2>1, <2>2
<1>6. ConfirmedDone' /\ CommandIsLast'
  BY <1>1, <1>3 DEF Strict, ConfirmedDone, CommandIsLast
<1>7. RawModeOfItem'
  <2>1. expect' > 0 => pc = "program" /\ cur' = item
    BY <1>1 DEF Awaited
  <2>2. QED
    BY <1>1, <1>2, <2>1 DEF RawModeOfItem
<1>8. NothingOwed'
  BY <1>1, <1>2 DEF NothingOwed
<1>9. QED
  BY <1>5, <1>6, <1>7, <1>8 DEF Strict

(* The target carries out what it was sent, once: its steps keep the       *)
(* order.                                                                  *)
LEMMA TargetOrder ==
    TypeOK /\ OrderInv /\ (TargetAnswers \/ TargetLog) => OrderInv'
<1> SUFFICES ASSUME TypeOK, OrderInv, TargetAnswers \/ TargetLog
             PROVE  OrderInv'
  OBVIOUS
<1>0. toDevice \in Seq(Document) /\ toHost \in Seq(Message) /\ expect \in Nat
  BY DEF TypeOK, LinkTypeOK, TargetTypeOK
<1>1. /\ UNCHANGED <<plan, hostVars, faults>>
      /\ toDevice' = toDevice \/ (toDevice # <<>> /\ toDevice' = Tail(toDevice))
      /\ done \subseteq done'
  BY DEF TargetAnswers, TargetConfigure, TargetProgram, TargetData,
         TargetJunk, TargetSimple, TargetLog, TargetTakes, targetVars,
         Performed, Refused
<1>2. (faulted' <=> faulted) /\ (Ended' <=> Ended)
  BY <1>1 DEF faulted, Ended, hostVars
<1>3. InOrder'
  BY <1>0, <1>1, <1>2, OrderKept DEF OrderInv
<1>4. Awaited' = Awaited /\ Confirmed' = Confirmed
  BY <1>1 DEF Awaited, Confirmed, Programs, Patches, AllPrograms, AllPatches,
              Passed, Tags, hostVars
<1>5. ASSUME Strict PROVE Strict'
  <2>1. CASE TargetConfigure
    <3>1. TargetTakes("configure") /\ expect' = expect /\ expect = 0
      BY <2>1 DEF TargetConfigure
    <3>2. \/ TargetSends(Response(FALSE, cap))
          \/ TargetSends(Response(TRUE, cap))
      BY <2>1 DEF TargetConfigure
    <3>3. pc \notin {"tag", "patch"}
      BY <1>5, <3>1, CommandTaken DEF Awaited
    <3>4. ~(expect' > 0)
      BY <3>1
    <3>5. QED
      BY <1>1, <1>5, <3>1, <3>2, <3>3, <3>4, CommandKeepsStrict
  <2>2. CASE TargetProgram
    <3>1. TargetTakes("program") /\ cur' \in {cur, Head(toDevice).arg}
      BY <2>2 DEF TargetProgram
    <3>2. \/ TargetSends(Response(FALSE, NoSize))
          \/ TargetSends(Response(TRUE, NoSize))
      BY <2>2 DEF TargetProgram
    <3>3. expect' > 0 => cur' = Head(toDevice).arg
      <4>1. cur' = Head(toDevice).arg \/ expect' = 0
        BY <2>2 DEF TargetProgram
      <4>2. QED
        BY <4>1
    <3>4. pc = "program"
      BY <1>5, <3>1, CommandTaken
    <3>5. QED
      BY <1>1, <1>5, <3>1, <3>2, <3>3, <3>4, CommandKeepsStrict
  <2>3. CASE TargetSimple
    <3>1. PICK op \in SimpleOps :
            /\ TargetTakes(op) /\ expect' = expect /\ expect = 0
            /\ \/ /\ TargetSends(Response(TRUE, NoSize))
                  /\ done' = done \cup {<<op, Head(toDevice).arg>>}
               \/ TargetSends(Response(FALSE, NoSize))
      BY <2>3 DEF TargetSimple, Performed
    <3>2. op # "data"
      BY DEF SimpleOps
    <3>3. pc \in {"tag", "patch"} => <<op, Head(toDevice).arg>> = Awaited
      BY <1>5, <3>1, <3>2, CommandTaken
    <3>4. ~(expect' > 0)
      BY <3>1
    <3>5. \/ TargetSends(Response(FALSE, NoSize))
          \/ /\ TargetSends(Response(TRUE, NoSize))
             /\ pc \in {"tag", "patch"} => Awaited \in done'
      BY <3>1, <3>3
    <3>6. QED
      BY <1>1, <1>5, <3>1, <3>2, <3>4, <3>5, CommandKeepsStrict
  <2>4. CASE TargetData \/ TargetJunk
    <3>1. /\ TargetTakes("data") /\ toDevice # <<>>
          /\ \A k \in 1..Len(toDevice') : /\ toDevice'[k] = toDevice[k + 1]
                                          /\ k + 1 \in 1..Len(toDevice)
          /\ Len(toDevice') = Len(toDevice) - 1
      <4>1. TargetTakes("data")
        BY <2>4 DEF TargetData, TargetJunk
      <4>2. /\ toDevice # <<>> /\ Len(toDevice') = Len(toDevice) - 1
            /\ \A k \in 1..Len(toDevice') : toDevice'[k] = toDevice[k + 1]
        BY <4>1, TakeType
      <4>3. QED
        BY <1>0, <4>1, <4>2
    <3>2. CASE TargetJunk
      <4>1. UNCHANGED <<toHost, targetVars, hostVars, plan>> /\ expect = 0
        BY <1>1, <3>2 DEF TargetJunk
      <4>2. CommandIsLast'
        <5>1. \A k \in 1..Len(toDevice') : k + 1 = Len(toDevice) => k = Len(toDevice')
          BY <3>1
        <5>2. QED
          BY <1>4, <1>5, <3>1, <4>1, <5>1
             DEF Strict, CommandIsLast, IsCommand, NoResponse, IsResponse,
                 hostVars, targetVars
      <4>3. QED
        BY <1>4, <1>5, <4>1, <4>2
           DEF Strict, Early, ConfirmedDone, OneResponse, RawModeOfItem,
               AckMeansDone, NothingOwed, NoResponse, IsResponse, IsAck,
               hostVars, targetVars
    <3>3. CASE TargetData
      <4>1. expect > 0 /\ pc \in {"data", "finish"} /\ NoResponse(toHost)
            /\ cur = item
        BY <1>5, <3>1, <3>3 DEF TargetData, Strict, RawModeOfItem
      <4>2. \A k \in 1..Len(toDevice') : toDevice'[k].op = "data"
        BY <1>5, <3>1, <4>1 DEF Strict, CommandIsLast, IsCommand
      <4>3. CommandIsLast' /\ ConfirmedDone'
        BY <1>1, <1>4, <1>5, <4>2
           DEF CommandIsLast, IsCommand, Strict, ConfirmedDone
      <4>4. Awaited = <<"program", cur>>
        BY <4>1 DEF Awaited
      <4>5. CASE toHost' = toHost /\ cur' = cur
        BY <1>1, <1>4, <1>5, <4>1, <4>3, <4>5
           DEF Strict, Early, OneResponse, RawModeOfItem, AckMeansDone,
               NothingOwed, NoResponse, IsResponse, IsAck, hostVars
      <4>6. CASE \E ack \in BOOLEAN :
                    /\ TargetSends(Response(ack, NoSize))
                    /\ ack = TRUE => <<"program", cur>> \in done'
                    /\ expect' = 0
        <5>1. PICK ack \in BOOLEAN :
                    /\ TargetSends(Response(ack, NoSize))
                    /\ ack = TRUE => <<"program", cur>> \in done'
                    /\ expect' = 0
          BY <4>6
        <5>2. /\ OneResponse'
              /\ \A i \in 1..Len(toHost') : IsAck(i)' => ack = TRUE
          BY <1>0, <4>1, <5>1, SoleResponse
        <5>3. AckMeansDone' /\ RawModeOfItem'
          BY <1>1, <1>4, <4>4, <5>1, <5>2 DEF AckMeansDone, RawModeOfItem
        <5>4. NothingOwed'
          BY <1>1, <1>5, <4>1 DEF Strict, NothingOwed, hostVars
        <5>5. QED
          BY <4>3, <5>2, <5>3, <5>4 DEF Strict
      <4>7. QED
        BY <3>3, <4>5, <4>6 DEF TargetData, Performed
    <3>4. QED
      BY <2>4, <3>2, <3>3
  <2>5. CASE TargetLog
    <3>1. /\ toHost' = Append(toHost, Log) /\ toDevice' = toDevice
          /\ UNCHANGED <<plan, hostVars, expect, cur, done>>
      BY <2>5 DEF TargetLog, TargetSends
    <3>2. /\ Log \in Message /\ Log.kind = "log"
          /\ Len(toHost') = Len(toHost) + 1
          /\ \A i \in 1..Len(toHost') : /\ i \in 1..(Len(toHost) + 1)
                                        /\ toHost'[i] = IF i = Len(toHost) + 1
                                                        THEN Log ELSE toHost[i]
      BY <1>0, <3>1 DEF Log, Message
    <3>3. \A i \in 1..Len(toHost') :
             toHost'[i].kind = "response" =>
                i \in 1..Len(toHost) /\ toHost'[i] = toHost[i]
      BY <1>0, <3>2
    <3>4. (~Early => OneResponse)' /\ AckMeansDone'
      BY <1>4, <1>5, <3>1, <3>3
         DEF Strict, Early, OneResponse, AckMeansDone, IsAck, IsResponse,
             hostVars
    <3>5. NoResponse(toHost) => NoResponse(toHost)'
      BY <3>3 DEF NoResponse, IsResponse
    <3>6. ConfirmedDone' /\ RawModeOfItem' /\ NothingOwed'
      BY <1>4, <1>5, <3>1, <3>5
         DEF Strict, ConfirmedDone, RawModeOfItem, NothingOwed, hostVars
    <3>7. CommandIsLast'
      BY <1>4, <1>5, <3>1, <3>5 DEF Strict, CommandIsLast, IsCommand, hostVars
    <3>8. QED
      BY <3>4, <3>6, <3>7 DEF Strict
  <2>6. QED
    BY <2>1, <2>2, <2>3, <2>4, <2>5 DEF TargetAnswers
<1>6. QED
  BY <1>2, <1>3, <1>5 DEF OrderInv

-----------------------------------------------------------------------------
(* The invariant: from the first step to the last one.                     *)
LEMMA OrderInvariant == Spec => [](AtFirst /\ OrderInv)
<1>1. Init => AtFirst /\ OrderInv
  <2> SUFFICES ASSUME Init PROVE AtFirst /\ OrderInv
    OBVIOUS
  <2>1. /\ toDevice = <<>> /\ pc = "wait" /\ ~waiting /\ expect = 0
        /\ item = 1 /\ ~commit
    BY DEF Init, LinkInit
  <2>2. InOrder /\ AtFirst
    BY <2>1 DEF InOrder, AtFirst
  <2>3. Strict
    BY <2>1 DEF Strict, Early, ConfirmedDone, Confirmed, CommandIsLast,
                RawModeOfItem, AckMeansDone, NothingOwed
  <2>4. QED
    BY <2>2, <2>3 DEF OrderInv
<1>2. TypeOK /\ InRange /\ AtFirst /\ OrderInv /\ [Next]_vars
        => (AtFirst /\ OrderInv)'
  <2> SUFFICES ASSUME TypeOK, InRange, AtFirst, OrderInv, [Next]_vars
               PROVE  OrderInv'
    BY FirstKept
  <2>1. CASE HostStep
    BY <2>1, HostOrder
  <2>2. CASE TargetAnswers \/ TargetLog
    BY <2>2, TargetOrder
  <2>3. CASE CableOut
    <3>1. /\ toDevice' = <<>> /\ toHost' = <<>>
          /\ UNCHANGED <<plan, hostVars, targetVars, faults>>
      BY <2>3 DEF CableOut, Unplug
    <3>2. Awaited' = Awaited /\ Confirmed' = Confirmed
      BY <3>1 DEF Awaited, Confirmed, Programs, Patches, AllPrograms,
                  AllPatches, Passed, Tags, hostVars
    <3>3. Strict => Strict'
      BY <3>1, <3>2 DEF Strict, ConfirmedDone, OneResponse, CommandIsLast,
                  RawModeOfItem, AckMeansDone, NothingOwed, NoResponse,
                  hostVars, targetVars
    <3>4. QED
      BY <3>1, <3>3 DEF OrderInv, InOrder, Ended, faulted, hostVars
  <2>4. CASE Spin \/ UNCHANGED vars
    <3>1. UNCHANGED <<plan, hostVars, targetVars, link>>
      BY <2>4 DEF Spin, vars
    <3>2. Awaited' = Awaited /\ Confirmed' = Confirmed
      BY <3>1 DEF Awaited, Confirmed, Programs, Patches, AllPrograms,
                  AllPatches, Passed, Tags, hostVars
    <3>3. Strict => Strict'
      BY <3>1, <3>2 DEF Strict, Early, ConfirmedDone, OneResponse,
                  CommandIsLast, IsCommand, IsResponse, IsAck, RawModeOfItem,
                  AckMeansDone, NothingOwed, NoResponse, hostVars, targetVars,
                  link
    <3>4. InOrder => InOrder'
      BY <3>1 DEF InOrder, Required, Programs, Patches, AllPrograms,
                  AllPatches, Passed, Tags, faulted, targetVars, link
    <3>5. QED
      BY <3>1, <3>3, <3>4 DEF OrderInv, Ended, faulted, hostVars, targetVars,
                              link
  <2>5. QED
    BY <2>1, <2>2, <2>3, <2>4 DEF Next
<1>3. QED
  BY <1>1, <1>2, TypeCorrect, PTL DEF Spec

(* While no read has failed, a command is on its way only when everything  *)
(* that comes before it has been carried out by the target: the order of   *)
(* program_execute, patch_execute, the boot switch and the reset, and of   *)
(* the two passes of ufs_provisioning_execute, holds on the device and not *)
(* only in the program text.                                               *)
THEOREM CommandsInOrder == Spec => []InOrder
<1>1. OrderInv => InOrder
  BY DEF OrderInv
<1>2. QED
  BY <1>1, OrderInvariant, PTL

-----------------------------------------------------------------------------
(* Sizes.  DataFits compares what is in flight with the target's idea of   *)
(* the payload size, and the host cuts its chunks by its own; so the two   *)
(* have to be shown equal once the negotiation is over, and during it a    *)
(* response names the size the target supports and belongs to the request  *)
(* that was made last.                                                     *)
Negotiates(size) ==
    /\ \A k \in 1..Len(toDevice) :
          IsCommand(k) => toDevice[k] = Cmd("configure", size)
    /\ \A i \in 1..Len(toHost) : IsResponse(toHost, i) =>
          toHost[i].size = cap /\ (cap = size => agreed = size)

Settled == {"tag", "program", "data", "finish", "patch", "bootable", "reset"}

Agreement ==
    /\ pc = "configure" /\ waiting => Negotiates(payload)
    /\ pc = "reconfigure" => ask = cap
    /\ pc = "reconfigure" /\ waiting => Negotiates(cap)
    /\ pc \in Settled =>
          /\ payload = agreed
          /\ \A k \in 1..Len(toDevice) : toDevice[k].op # "configure"

(* These two outlive the host: what it left in the queue is taken after it *)
(* has returned.                                                           *)
CommandEnds ==
    \A k \in 1..Len(toDevice) : IsCommand(k) => k = Len(toDevice) /\ expect = 0

Fits ==
    expect > 0 => \A k \in 1..Len(toDevice) :
        toDevice[k].arg * plan.programs[cur].sector <= agreed

SizeInv == ~faulted => CommandEnds /\ Fits /\ (~Ended => Agreement)

(* Whole sectors of a payload take no more room than the payload has.      *)
LEMMA SectorsFit ==
    ASSUME NEW size \in Nat, NEW sector \in Nat \ {0}, NEW n \in Nat,
           n <= size \div sector
    PROVE  n * sector <= size
<1>1. PICK q \in Nat : q = size \div sector
  BY SMT
<1>2. q * sector <= size
  BY <1>1, SMT
<1>3. n * sector <= q * sector
  BY <1>1, SMT
<1>4. n * sector \in Nat /\ q * sector \in Nat
  BY SMT
<1> QED
  BY <1>2, <1>3, <1>4

(* A step of the host writes a command, or a chunk, or nothing.            *)
LEMMA HostWrites ==
    ASSUME TypeOK, HostStep
    PROVE  /\ UNCHANGED <<plan, cap, targetVars>>
           /\ \/ toDevice' = toDevice
              \/ \E step, op, n : /\ Request(step, Cmd(op, n))
                                  /\ step \notin {"returned", "exited"}
                                  /\ op # "data"
              \/ firehose_program_data
<1>1. CASE \/ firehose_nop \/ firehose_reset \/ firehose_send_configure
           \/ firehose_send_single_tag \/ firehose_program
           \/ firehose_apply_patch \/ firehose_set_bootable
  <2>1. \E step, op, n : /\ Request(step, Cmd(op, n))
                         /\ step \notin {"returned", "exited"}
                         /\ op # "data"
    BY <1>1 DEF firehose_nop, firehose_reset, firehose_send_configure,
                firehose_send_single_tag, firehose_program,
                firehose_apply_patch, firehose_set_bootable
  <2> QED
    BY <2>1 DEF Request
<1>2. CASE firehose_program_data
  BY <1>2 DEF firehose_program_data
<1>3. CASE \E step, parser, r : Answer(step, parser, r)
  BY <1>3, ReadType DEF Answer, TypeOK
<1>4. CASE \/ WaitForTarget \/ program_execute \/ patch_execute
           \/ no_bootable \/ WriteFails \/ ResponseTruncated \/ ImageFails
           \/ firehose_program_empty
  BY <1>4 DEF WaitForTarget, program_execute, patch_execute, no_bootable,
              WriteFails, ResponseTruncated, ImageFails,
              firehose_program_empty, link
<1>5. CASE Drain \/ LogsOnly
  BY <1>5 DEF Drain, DrainBatch, LogsOnly, ReadLogs, link
<1> QED
  BY <1>1, <1>2, <1>3, <1>4, <1>5
     DEF HostStep, firehose_nop_answer, firehose_configure_answer,
         firehose_reconfigure_answer, firehose_single_tag_answer,
         firehose_program_setup, firehose_program_finish,
         firehose_apply_patch_answer, firehose_set_bootable_answer,
         firehose_reset_answer

(* Of the queue: a command is the last thing in it, and a chunk the host   *)
(* has cut by its payload size fits the size the target agreed to.         *)
LEMMA RequestFits ==
    ASSUME TypeOK, OrderInv', ~faulted', ~Ended',
           NEW doc, doc.op # "data", toDevice' = Append(toDevice, doc)
    PROVE  CommandEnds' /\ Fits'
<1>1. /\ toDevice \in Seq(Document)
      /\ Len(toDevice') = Len(toDevice) + 1
      /\ Len(toDevice') \in 1..Len(toDevice')
      /\ toDevice'[Len(toDevice')] = doc
  BY DEF TypeOK
<1>2. CommandIsLast'
  BY DEF OrderInv, Strict
<1>3. expect' = 0
  BY <1>1, <1>2 DEF CommandIsLast, IsCommand
<1>4. CommandEnds'
  BY <1>2 DEF CommandEnds, CommandIsLast, IsCommand
<1> QED
  BY <1>3, <1>4 DEF Fits

LEMMA ChunkFits ==
    ASSUME TypeOK, InRange, OrderInv, SizeInv, ~faulted, firehose_program_data
    PROVE  CommandEnds' /\ Fits'
<1>1. /\ pc = "data" /\ ~Ended /\ toDevice \in Seq(Document)
      /\ toDevice' = Append(toDevice, Cmd("data", Chunk(Here)))
      /\ UNCHANGED <<plan, expect, cur, agreed>>
  BY DEF firehose_program_data, firehose_write, TypeOK, targetVars, Ended
<1>2. Here \in Program /\ left \in Nat /\ payload \in Nat
  BY <1>1, PlanType DEF TypeOK, HostTypeOK, InRange, Here
<1>3. Chunk(Here) \in Nat /\ Chunk(Here) <= payload \div Here.sector
  <2>1. Chunk(Here) \in Nat /\ Chunk(Here) <= left
    BY <1>2, SectorCounts
  <2>2. Here.sector \in Nat \ {0}
    BY <1>2 DEF Program
  <2>3. PICK q \in Nat : q = payload \div Here.sector
    BY <1>2, <2>2, SMT
  <2> QED
    BY <1>2, <2>1, <2>3 DEF Chunk, Least
<1>4. Chunk(Here) * Here.sector <= agreed
  <2>1. Here.sector \in Nat \ {0}
    BY <1>2 DEF Program
  <2>2. payload = agreed
    BY <1>1 DEF SizeInv, Agreement, Settled
  <2> QED
    BY <1>2, <1>3, <2>1, <2>2, SectorsFit
<1>5. \A k \in 1..Len(toDevice) : ~IsCommand(k)
  BY <1>1 DEF OrderInv, Strict, CommandIsLast
<1>6. expect > 0 => cur = item
  BY <1>1 DEF OrderInv, Strict, RawModeOfItem
<1>7. ASSUME NEW k \in 1..Len(toDevice')
      PROVE  \/ toDevice'[k] = Cmd("data", Chunk(Here))
             \/ k \in 1..Len(toDevice) /\ toDevice'[k] = toDevice[k]
  BY <1>1
<1>8. CommandEnds'
  BY <1>5, <1>7 DEF CommandEnds, IsCommand, Cmd
<1>9. Fits'
  <2> SUFFICES ASSUME expect > 0, NEW k \in 1..Len(toDevice')
               PROVE  toDevice'[k].arg * plan.programs[cur].sector <= agreed
    BY <1>1 DEF Fits
  <2>1. CASE toDevice'[k] = Cmd("data", Chunk(Here))
    <3>1. toDevice'[k].arg = Chunk(Here)
      BY <2>1 DEF Cmd
    <3> QED
      BY <3>1, <1>4, <1>6 DEF Here
  <2>2. CASE k \in 1..Len(toDevice) /\ toDevice'[k] = toDevice[k]
    BY <2>2 DEF SizeInv, Fits
  <2> QED
    BY <2>1, <2>2, <1>7
<1> QED
  BY <1>8, <1>9

LEMMA HostFits ==
    ASSUME TypeOK, InRange, OrderInv, OrderInv', SizeInv, HostStep,
           ~faulted, ~faulted'
    PROVE  CommandEnds' /\ Fits'
<1>1. /\ UNCHANGED <<plan, cap, targetVars>>
      /\ \/ toDevice' = toDevice
         \/ \E step, op, n : /\ Request(step, Cmd(op, n))
                             /\ step \notin {"returned", "exited"}
                             /\ op # "data"
         \/ firehose_program_data
  BY HostWrites
<1>2. CASE toDevice' = toDevice
  BY <1>1, <1>2 DEF SizeInv, CommandEnds, IsCommand, Fits, targetVars
<1>3. CASE \E step, op, n : /\ Request(step, Cmd(op, n))
                            /\ step \notin {"returned", "exited"}
                            /\ op # "data"
  <2>1. PICK doc : doc.op # "data" /\ toDevice' = Append(toDevice, doc)
    BY <1>3 DEF Request, firehose_write, Cmd
  <2>2. ~Ended'
    BY <1>3 DEF Request, Ended
  <2> QED
    BY <2>1, <2>2, RequestFits
<1>4. CASE firehose_program_data
  BY <1>4, ChunkFits
<1> QED
  BY <1>1, <1>2, <1>3, <1>4

(* The negotiation.  A request finds the line empty, so what is on it      *)
(* afterwards is about this request.                                       *)
LEMMA RequestNegotiates ==
    ASSUME TypeOK, OrderInv, OrderInv', ~faulted, ~faulted',
           NEW step, NEW size, Request(step, Cmd("configure", size)),
           step \in {"configure", "reconfigure"}
    PROVE  Negotiates(size)'
<1>1. /\ pc = step /\ ~waiting /\ pc' = pc
      /\ toDevice' = Append(toDevice, Cmd("configure", size))
      /\ toDevice \in Seq(Document) /\ toHost' = toHost
  BY DEF Request, firehose_write, TypeOK
<1>2. NoResponse(toHost)
  BY <1>1 DEF OrderInv, Strict, NothingOwed, Ended
<1>3. CommandIsLast'
  BY <1>1 DEF OrderInv, Strict, Ended
<1>4. toDevice'[Len(toDevice')] = Cmd("configure", size)
  BY <1>1
<1>5. \A k \in 1..Len(toDevice') :
         IsCommand(k)' => toDevice'[k] = Cmd("configure", size)
  BY <1>3, <1>4 DEF CommandIsLast, IsCommand
<1>6. \A i \in 1..Len(toHost') : ~IsResponse(toHost, i)'
  BY <1>1, <1>2 DEF NoResponse, IsResponse
<1> QED
  BY <1>5, <1>6 DEF Negotiates

(* An answer to it tells the size that the target supports.                *)
LEMMA AnswerNegotiated ==
    ASSUME TypeOK, OrderInv, ~faulted, ~faulted', NEW step, NEW r, NEW size,
           Answer(step, "configure", r), ~Ended, Negotiates(size)
    PROVE  /\ r = cap /\ r >= 0
           /\ cap = size => agreed = size
           /\ \A k \in 1..Len(toDevice') : toDevice'[k].op = "data"
           /\ UNCHANGED <<cap, agreed>>
<1>1. ReadBatch("configure", r)
  <2>1. faults \in Nat
    BY FaultsAssumption DEF TypeOK, LinkTypeOK
  <2> QED
    BY <2>1 DEF Answer, firehose_read, ReadFails, ReadGarbled, Fault, faulted
<1>2. PICK i \in 1..Len(toHost) :
         IsResponse(toHost, i) /\ r = Parsed("configure", toHost[i])
  <2>1. OneResponse
    BY DEF Answer, Early, OrderInv, Strict
  <2> QED
    BY <1>1, <2>1, ReadTakesResponse
<1>3. r = cap /\ (cap = size => agreed = size)
  BY <1>2 DEF Negotiates, Parsed
<1>4. \A k \in 1..Len(toDevice) : ~IsCommand(k) /\ toDevice'[k] = toDevice[k]
  BY AnswerFound DEF OrderInv
<1>5. toDevice' = toDevice
  BY AnswerFound DEF OrderInv
<1>6. cap \in Nat
  BY CapsAssumption DEF TypeOK
<1> QED
  BY <1>3, <1>4, <1>5, <1>6 DEF Answer, targetVars, IsCommand

(* After the negotiation the sizes stay what they are.                     *)
LEMMA SettledStays ==
    ASSUME Agreement, pc \in Settled, UNCHANGED <<payload, agreed>>,
           pc' \in Settled,
           \A k \in 1..Len(toDevice') : \/ toDevice'[k].op # "configure"
                                         \/ \E j \in 1..Len(toDevice) :
                                               toDevice'[k] = toDevice[j]
    PROVE  Agreement'
  BY DEF Agreement, Settled

LEMMA HostAgrees ==
    ASSUME TypeOK, InRange, OrderInv, OrderInv', SizeInv, HostStep,
           ~faulted, ~faulted', ~Ended, ~Ended'
    PROVE  Agreement'
<1> USE DEF GoTo, Return
<1>0. /\ Agreement /\ UNCHANGED <<plan, cap, targetVars>>
      /\ UNCHANGED <<cap, agreed>>
  BY HostWrites DEF SizeInv, targetVars
<1>a. ASSUME toDevice' = toDevice, pc \in Settled, pc' \in Settled,
             payload' = payload
      PROVE  Agreement'
  BY <1>0, <1>a, SettledStays
<1>b. ASSUME NEW step, NEW cmd, Request(step, cmd), cmd.op # "configure",
             step \in Settled
      PROVE  Agreement'
  <2>1. /\ pc \in Settled /\ pc' = pc /\ payload' = payload
        /\ toDevice' = Append(toDevice, cmd) /\ toDevice \in Seq(Document)
    BY <1>b DEF Request, firehose_write, TypeOK
  <2>2. \A k \in 1..Len(toDevice') :
           \/ toDevice'[k] = cmd
           \/ k \in 1..Len(toDevice) /\ toDevice'[k] = toDevice[k]
    BY <2>1
  <2> QED
    BY <1>0, <1>b, <2>1, <2>2, SettledStays
<1>c. ASSUME NEW step, NEW parser, NEW r, Answer(step, parser, r)
      PROVE  pc = step /\ toDevice' = toDevice
  BY <1>c, AnswerFound DEF OrderInv
<1>1. CASE WaitForTarget \/ Drain \/ firehose_nop \/ firehose_nop_answer
  <2>1. \/ pc' \in {"drain", "nop"}
        \/ pc' = "configure" /\ ~waiting'
    BY <1>1 DEF WaitForTarget, Drain, firehose_nop, Request,
                firehose_nop_answer, Answer, Ended
  <2> QED
    BY <2>1 DEF Agreement, Settled
<1>2. CASE firehose_send_configure
  <2>1. CASE Request("configure", Cmd("configure", payload))
    <3>1. Negotiates(payload)' /\ pc' = "configure"
      <4>1. payload' = payload /\ pc' = "configure"
        BY <2>1 DEF Request
      <4>2. PICK size : size = payload
        OBVIOUS
      <4>3. Negotiates(size)'
        BY <2>1, <4>2, RequestNegotiates
      <4> QED
        BY <4>1, <4>2, <4>3
    <3> QED
      BY <3>1 DEF Agreement, Settled
  <2>2. CASE Request("reconfigure", Cmd("configure", ask))
    <3>1. pc = "reconfigure" /\ pc' = pc /\ ask' = ask /\ ask = cap
      BY <1>0, <2>2 DEF Request, Agreement
    <3>2. PICK size : size = cap
      OBVIOUS
    <3>3. Negotiates(size)'
      BY <2>2, <3>1, <3>2, RequestNegotiates
    <3>4. Negotiates(cap)'
      BY <1>0, <3>2, <3>3
    <3> QED
      BY <1>0, <3>1, <3>4 DEF Agreement, Settled
  <2> QED
    BY <1>2, <2>1, <2>2 DEF firehose_send_configure
<1>3. CASE firehose_configure_answer
  <2>1. PICK r \in {-1, 0, 1} \cup Caps :
          /\ Answer("configure", "configure", r)
          /\ \/ r < 0 /\ Return(r) /\ ask' = ask
             \/ r >= 0 /\ r # payload /\ GoTo("reconfigure") /\ ask' = r
             \/ r >= 0 /\ r = payload /\ GoTo(AfterConfigure) /\ ask' = ask
          /\ UNCHANGED <<item, commit, payload, left>>
    BY <1>3 DEF firehose_configure_answer
  <2>2. Negotiates(payload)
    BY <1>0, <2>1 DEF Agreement, Answer
  <2>3. /\ r = cap /\ r >= 0 /\ (cap = payload => agreed = payload)
        /\ \A k \in 1..Len(toDevice') : toDevice'[k].op = "data"
    BY <2>1, <2>2, AnswerNegotiated
  <2>4. ~waiting'
    BY <2>1 DEF Answer
  <2>5. CASE pc' = "reconfigure" /\ ask' = r
    BY <1>0, <2>3, <2>4, <2>5 DEF Agreement, Settled
  <2>6. CASE pc' = AfterConfigure /\ r = payload
    BY <1>0, <2>1, <2>3, <2>4, <2>6 DEF Agreement, Settled, AfterConfigure
  <2> QED
    BY <2>1, <2>3, <2>5, <2>6 DEF Ended
<1>4. CASE firehose_reconfigure_answer
  <2>1. PICK r \in {-1, 0, 1} \cup Caps :
          /\ Answer("reconfigure", "configure", r)
          /\ \/ r < 0 /\ Return(r) /\ payload' = payload
             \/ r >= 0 /\ GoTo(AfterConfigure) /\ payload' = r
          /\ UNCHANGED <<item, commit, ask, left>>
    BY <1>4 DEF firehose_reconfigure_answer
  <2>2. Negotiates(cap)
    BY <1>0, <2>1 DEF Agreement, Answer
  <2>3. /\ r = cap /\ r >= 0 /\ agreed = cap
        /\ \A k \in 1..Len(toDevice') : toDevice'[k].op = "data"
    BY <2>1, <2>2, AnswerNegotiated
  <2>4. pc' = AfterConfigure /\ payload' = r
    BY <2>1, <2>3 DEF Ended
  <2> QED
    BY <1>0, <2>3, <2>4 DEF Agreement, Settled, AfterConfigure
<1>5. CASE \/ firehose_send_single_tag \/ firehose_program
           \/ firehose_apply_patch \/ firehose_set_bootable
           \/ firehose_reset
  <2>1. \E step \in Settled : \E cmd :
           cmd.op # "configure" /\ Request(step, cmd)
    BY <1>5 DEF firehose_send_single_tag, firehose_program,
                firehose_apply_patch, firehose_set_bootable, firehose_reset,
                Cmd, Settled
  <2> QED
    BY <2>1, <1>b
<1>6. CASE \/ firehose_single_tag_answer \/ firehose_program_setup
           \/ firehose_program_finish \/ firehose_apply_patch_answer
           \/ firehose_set_bootable_answer \/ firehose_reset_answer
  <2>1. \E step \in Settled : \E parser, r : Answer(step, parser, r)
    BY <1>6 DEF firehose_single_tag_answer, firehose_program_setup,
                firehose_program_finish, firehose_apply_patch_answer,
                firehose_set_bootable_answer, firehose_reset_answer, Settled
  <2>2. pc' \in Settled /\ payload' = payload
    BY <1>6 DEF firehose_single_tag_answer, firehose_program_setup,
                firehose_program_finish, firehose_apply_patch_answer,
                firehose_set_bootable_answer, firehose_reset_answer, Settled,
                Ended
  <2> QED
    BY <2>1, <2>2, <1>a, <1>c
<1>7. CASE \/ program_execute \/ patch_execute \/ no_bootable
           \/ firehose_program_empty
  BY <1>7, <1>a DEF program_execute, patch_execute, no_bootable,
                    firehose_program_empty, link, Settled
<1>8. CASE firehose_program_data
  <2>1. /\ pc \in Settled /\ pc' \in Settled /\ payload' = payload
        /\ toDevice' = Append(toDevice, Cmd("data", Chunk(Here)))
        /\ toDevice \in Seq(Document)
    BY <1>8 DEF firehose_program_data, firehose_write, Settled, TypeOK
  <2>2. \A k \in 1..Len(toDevice') :
           \/ toDevice'[k] = Cmd("data", Chunk(Here))
           \/ k \in 1..Len(toDevice) /\ toDevice'[k] = toDevice[k]
    BY <2>1
  <2>3. Cmd("data", Chunk(Here)).op # "configure"
    BY DEF Cmd
  <2> QED
    BY <1>0, <2>1, <2>2, <2>3, SettledStays
<1>9. CASE WriteFails
  <2>1. /\ toDevice' = toDevice /\ payload' = payload
        /\ pc = "bootable" /\ pc' = "reset"
    BY <1>9 DEF WriteFails, link, Ended
  <2> QED
    BY <2>1, <1>a DEF Settled
<1>10. CASE ResponseTruncated \/ ImageFails
  BY <1>10 DEF ResponseTruncated, ImageFails, Ended
<1>11. CASE LogsOnly
  <2>1. PICK k \in 1..Len(toHost) :
           toHost' = SubSeq(toHost, k + 1, Len(toHost))
    BY <1>11 DEF LogsOnly, ReadLogs
  <2>2. \A i \in 1..Len(toHost') : /\ i + k \in 1..Len(toHost)
                                   /\ toHost'[i] = toHost[i + k]
    BY <2>1, SuffixElements DEF TypeOK, LinkTypeOK
  <2>3. UNCHANGED <<toDevice, pc, waiting, payload, ask>>
    BY <1>11 DEF LogsOnly, ReadLogs, hostVars
  <2>4. \A size : Negotiates(size) => Negotiates(size)'
    BY <1>0, <2>2, <2>3 DEF Negotiates, IsCommand, IsResponse
  <2> QED
    BY <1>0, <2>3, <2>4 DEF Agreement
<1> QED
  BY <1>1, <1>2, <1>3, <1>4, <1>5, <1>6, <1>7, <1>8, <1>9, <1>10, <1>11
     DEF HostStep

-----------------------------------------------------------------------------
(* The target.                                                             *)
LEMMA TargetFits ==
    ASSUME TypeOK, SizeInv, TargetAnswers \/ TargetLog, ~faulted
    PROVE  CommandEnds' /\ Fits'
<1>0. /\ toDevice \in Seq(Document) /\ expect \in Nat
      /\ CommandEnds /\ Fits
  BY DEF TypeOK, TargetTypeOK, SizeInv
<1>1. CASE TargetLog
  BY <1>0, <1>1 DEF TargetLog, CommandEnds, Fits, IsCommand
<1>2. ASSUME NEW op, TargetTakes(op)
      PROVE  /\ \A k \in 1..Len(toDevice') :
                   /\ toDevice'[k] = toDevice[k + 1]
                   /\ k + 1 \in 1..Len(toDevice)
             /\ Len(toDevice') = Len(toDevice) - 1
             /\ op # "data" => toDevice' = <<>> /\ expect = 0
             /\ plan' = plan
  <2>1. /\ 1 \in 1..Len(toDevice) /\ Head(toDevice) = toDevice[1]
        /\ toDevice' \in Seq(Document) /\ Len(toDevice') = Len(toDevice) - 1
        /\ \A k \in 1..Len(toDevice') : toDevice'[k] = toDevice[k + 1]
    BY <1>2, TakeType
  <2>2. op # "data" => 1 = Len(toDevice) /\ expect = 0
    BY <1>0, <1>2, <2>1 DEF TargetTakes, CommandEnds, IsCommand
  <2>3. ASSUME op # "data" PROVE toDevice' = <<>>
    <3>1. 1 = Len(toDevice)
      BY <2>2, <2>3, Zenon
    <3>2. Len(toDevice') = 0
      <4>1. Len(toDevice') = Len(toDevice) - 1
        BY <2>1
      <4>2. Len(toDevice') = 1 - 1
        BY <3>1, <4>1, Zenon
      <4> QED
        BY <4>2
    <3> QED
      BY <2>1, <3>2, EmptySeq
  <2> QED
    BY <1>0, <1>2, <2>1, <2>2, <2>3 DEF TargetTakes
<1>3. ASSUME NEW op, TargetTakes(op), op # "data"
      PROVE  CommandEnds' /\ Fits'
  BY <1>2, <1>3 DEF CommandEnds, Fits
<1>4. CASE TargetConfigure \/ TargetProgram \/ TargetSimple
  BY <1>3, <1>4 DEF TargetConfigure, TargetProgram, TargetSimple, SimpleOps
<1>5. CASE TargetData \/ TargetJunk
  <2>1. TargetTakes("data")
    BY <1>5 DEF TargetData, TargetJunk
  <2>2. UNCHANGED <<cur, agreed>> /\ (expect' > 0 => expect > 0)
          /\ (expect = 0 => expect' = 0)
    <3>1. CASE TargetData
      BY <1>0, <3>1 DEF TargetData
    <3>2. CASE TargetJunk
      BY <1>0, <3>2 DEF TargetJunk, targetVars
    <3> QED
      BY <1>5, <3>1, <3>2
  <2>3. /\ Len(toDevice') = Len(toDevice) - 1 /\ plan' = plan
        /\ \A k \in 1..Len(toDevice') : /\ toDevice'[k] = toDevice[k + 1]
                                         /\ k + 1 \in 1..Len(toDevice)
    BY <1>2, <2>1
  <2>4. CommandEnds'
    <3> SUFFICES ASSUME NEW k \in 1..Len(toDevice'), toDevice'[k].op # "data"
                 PROVE  k = Len(toDevice') /\ expect' = 0
      BY DEF CommandEnds, IsCommand
    <3>1. k + 1 = Len(toDevice) /\ expect = 0
      BY <1>0, <2>3 DEF CommandEnds, IsCommand
    <3> QED
      BY <1>0, <2>2, <2>3, <3>1
  <2>5. Fits'
    BY <1>0, <2>2, <2>3 DEF Fits
  <2> QED
    BY <2>4, <2>5
<1> QED
  BY <1>1, <1>4, <1>5 DEF TargetAnswers

LEMMA TargetAgrees ==
    ASSUME TypeOK, OrderInv, SizeInv, TargetAnswers \/ TargetLog,
           ~faulted, ~Ended
    PROVE  Agreement'
<1>0. /\ toDevice \in Seq(Document) /\ toHost \in Seq(Message)
      /\ Agreement /\ Strict
  BY DEF TypeOK, LinkTypeOK, SizeInv, OrderInv
<1>1. UNCHANGED <<cap, pc, waiting, payload, ask>>
  BY DEF TargetAnswers, TargetConfigure, TargetProgram, TargetData,
         TargetJunk, TargetSimple, TargetLog, TargetTakes, hostVars
<1>2. ASSUME NEW op, TargetTakes(op)
      PROVE  \A k \in 1..Len(toDevice') : /\ toDevice'[k] = toDevice[k + 1]
                                          /\ k + 1 \in 1..Len(toDevice)
  BY <1>0, <1>2, TakeType
<1>3. ASSUME NEW op, TargetTakes(op), agreed' = agreed, pc \in Settled
      PROVE  Agreement'
  BY <1>0, <1>1, <1>2, <1>3, SettledStays
(* A command that is taken while the sizes are negotiated is the request.  *)
<1>4. ASSUME NEW op, TargetTakes(op), op # "data"
      PROVE  /\ toDevice' = <<>> /\ NoResponse(toHost) /\ waiting
             /\ pc \in {"nop", "configure", "reconfigure"} \cup Settled
             /\ pc = "configure" => Head(toDevice) = Cmd("configure", payload)
             /\ pc = "reconfigure" => Head(toDevice) = Cmd("configure", cap)
             /\ pc \in Settled => op # "configure"
  <2>1. /\ toDevice' = <<>> /\ NoResponse(toHost) /\ waiting
        /\ pc \notin {"wait", "drain"}
    BY <1>0, <1>4, CommandTaken
  <2>2. /\ 1 \in 1..Len(toDevice) /\ Head(toDevice) = toDevice[1]
        /\ IsCommand(1) /\ toDevice[1].op = op
    BY <1>4, TakeType DEF TargetTakes, IsCommand
  <2>3. /\ pc = "configure" => Head(toDevice) = Cmd("configure", payload)
        /\ pc = "reconfigure" => Head(toDevice) = Cmd("configure", cap)
        /\ pc \in Settled => op # "configure"
    BY <1>0, <2>1, <2>2 DEF Agreement, Negotiates
  <2> QED
    BY <2>1, <2>3 DEF TypeOK, HostTypeOK, Steps, Settled, Ended
<1>5. CASE TargetConfigure
  <2>1. /\ TargetTakes("configure")
        /\ IF Head(toDevice).arg <= cap
           THEN agreed' = Head(toDevice).arg ELSE agreed' = agreed
        /\ \E ack : TargetSends(Response(ack, cap))
    BY <1>5 DEF TargetConfigure
  <2>2. CASE pc = "nop"
    BY <1>1, <2>2 DEF Agreement, Settled
  <2>3. ASSUME NEW size, Head(toDevice) = Cmd("configure", size)
        PROVE  Negotiates(size)'
    <3>1. toDevice' = <<>> /\ NoResponse(toHost)
      BY <1>4, <2>1
    <3>2. cap = size => agreed' = size
      <4>1. Head(toDevice).arg = size /\ cap <= cap
        BY <2>3, CapsAssumption DEF Cmd, TypeOK
      <4> QED
        BY <2>1, <4>1
    <3>3. \A i \in 1..Len(toHost') :
             IsResponse(toHost, i)' => toHost'[i].size = cap
      <4>1. PICK ack : toHost' = Append(toHost, Response(ack, cap))
        BY <2>1 DEF TargetSends
      <4>2. \A i \in 1..Len(toHost') :
               \/ toHost'[i] = Response(ack, cap)
               \/ i \in 1..Len(toHost) /\ toHost'[i] = toHost[i]
        BY <1>0, <4>1
      <4> QED
        BY <3>1, <4>2 DEF NoResponse, IsResponse, Response
    <3> QED
      BY <1>1, <3>1, <3>2, <3>3 DEF Negotiates
  <2>4. CASE pc = "configure"
    <3>1. PICK size : size = payload
      OBVIOUS
    <3>2. Negotiates(size)'
      BY <1>4, <2>1, <2>3, <2>4, <3>1
    <3> QED
      BY <1>1, <2>4, <3>1, <3>2 DEF Agreement, Settled
  <2>5. CASE pc = "reconfigure"
    <3>1. PICK size : size = cap
      OBVIOUS
    <3>2. Negotiates(size)'
      BY <1>4, <2>1, <2>3, <2>5, <3>1
    <3> QED
      BY <1>0, <1>1, <2>5, <3>1, <3>2 DEF Agreement, Settled
  <2> QED
    BY <1>4, <2>1, <2>2, <2>4, <2>5
<1>6. CASE TargetProgram \/ TargetSimple
  <2>1. PICK op : TargetTakes(op) /\ op \notin {"data", "configure"}
                    /\ agreed' = agreed
    BY <1>6 DEF TargetProgram, TargetSimple, SimpleOps
  <2>2. pc = "nop" \/ pc \in Settled
    BY <1>4, <2>1 DEF TargetTakes, Cmd
  <2>3. CASE pc = "nop"
    BY <1>1, <2>3 DEF Agreement, Settled
  <2> QED
    BY <1>3, <2>1, <2>2, <2>3
<1>7. CASE TargetData
  <2>1. TargetTakes("data") /\ agreed' = agreed /\ expect > 0
    BY <1>7 DEF TargetData
  <2>2. pc \in Settled
    BY <1>0, <2>1 DEF Strict, RawModeOfItem, Settled
  <2> QED
    BY <1>3, <2>1, <2>2
<1>8. CASE TargetJunk
  <2>1. TargetTakes("data") /\ UNCHANGED <<agreed, toHost>>
    BY <1>8 DEF TargetJunk, targetVars
  <2>2. \A size : Negotiates(size) => Negotiates(size)'
    BY <1>1, <1>2, <2>1 DEF Negotiates, IsCommand, IsResponse
  <2>3. \A k \in 1..Len(toDevice') :
           \E j \in 1..Len(toDevice) : toDevice'[k] = toDevice[j]
    BY <1>2, <2>1
  <2> QED
    BY <1>0, <1>1, <2>1, <2>2, <2>3 DEF Agreement
<1>9. CASE TargetLog
  <2>1. toHost' = Append(toHost, Log) /\ UNCHANGED <<toDevice, agreed>>
    BY <1>9 DEF TargetLog, TargetSends
  <2>2. \A i \in 1..Len(toHost') :
           \/ toHost'[i] = Log
           \/ i \in 1..Len(toHost) /\ toHost'[i] = toHost[i]
    BY <1>0, <2>1
  <2>3. \A size : Negotiates(size) => Negotiates(size)'
    BY <1>1, <2>1, <2>2 DEF Negotiates, IsCommand, IsResponse, Log
  <2> QED
    BY <1>0, <1>1, <2>1, <2>3 DEF Agreement
<1> QED
  BY <1>5, <1>6, <1>7, <1>8, <1>9 DEF TargetAnswers

-----------------------------------------------------------------------------
(* A session that has ended takes no more steps.                           *)
LEMMA EndsOnce ==
    ASSUME HostStep, Ended
    PROVE  Ended'
<1>1. CASE ResponseTruncated \/ ImageFails \/ LogsOnly
  BY <1>1 DEF ResponseTruncated, ImageFails, LogsOnly, GoTo, Ended, hostVars
<1>2. CASE WriteFails
  BY <1>2 DEF WriteFails, Writes, Ended
<1> QED
  BY <1>1, <1>2
     DEF HostStep, Ended, WaitForTarget, Drain, firehose_nop,
         firehose_nop_answer, firehose_send_configure,
         firehose_configure_answer, firehose_reconfigure_answer,
         firehose_send_single_tag, firehose_single_tag_answer,
         program_execute, firehose_program, firehose_program_setup,
         firehose_program_data, firehose_program_empty,
         firehose_program_finish, patch_execute,
         firehose_apply_patch, firehose_apply_patch_answer, no_bootable,
         firehose_set_bootable, firehose_set_bootable_answer,
         firehose_reset, firehose_reset_answer, Request, Answer

(* The three hold together.                                                *)
LEMMA SizeInvariant == Spec => []SizeInv
<1>1. Init => SizeInv
  <2> SUFFICES ASSUME Init PROVE SizeInv
    OBVIOUS
  <2>1. toDevice = <<>> /\ pc = "wait" /\ expect = 0
    BY DEF Init, LinkInit
  <2> QED
    BY <2>1 DEF SizeInv, CommandEnds, Fits, Agreement, Settled
<1>2. /\ TypeOK /\ InRange /\ OrderInv /\ OrderInv' /\ SizeInv
      /\ [Next]_vars
      => SizeInv'
  <2> SUFFICES ASSUME TypeOK, InRange, OrderInv, OrderInv', SizeInv,
                      [Next]_vars, ~faulted'
               PROVE  CommandEnds' /\ Fits' /\ (~Ended' => Agreement')
    BY DEF SizeInv
  <2>0. ~faulted
    BY FaultsGrow
  <2>1. CASE HostStep
    <3>1. Ended => Ended'
      BY <2>1, EndsOnce
    <3> QED
      BY <2>0, <2>1, <3>1, HostFits, HostAgrees
  <2>2. CASE TargetAnswers \/ TargetLog
    <3>1. Ended' <=> Ended
      BY <2>2 DEF TargetAnswers, TargetConfigure, TargetProgram, TargetData,
                  TargetJunk, TargetSimple, TargetLog, TargetTakes, hostVars,
                  Ended
    <3> QED
      BY <2>0, <2>2, <3>1, TargetFits, TargetAgrees
  <2>3. CASE CableOut
    <3>1. /\ toDevice' = <<>> /\ toHost' = <<>>
          /\ UNCHANGED <<plan, cap, hostVars, targetVars>>
      BY <2>3 DEF CableOut, Unplug
    <3>2. CommandEnds' /\ Fits'
      BY <3>1 DEF CommandEnds, Fits
    <3>3. \A size : Negotiates(size)'
      BY <3>1 DEF Negotiates
    <3>4. ~Ended' => Agreement
      BY <2>0, <3>1 DEF SizeInv, Ended, hostVars
    <3>5. Agreement => Agreement'
      BY <3>1, <3>3 DEF Agreement, hostVars, targetVars
    <3> QED
      BY <3>2, <3>4, <3>5
  <2>4. CASE Spin \/ UNCHANGED vars
    <3>1. UNCHANGED <<plan, cap, hostVars, targetVars, link>>
      BY <2>4 DEF Spin, vars
    <3>2. CommandEnds' /\ Fits'
      BY <2>0, <3>1 DEF SizeInv, CommandEnds, Fits, IsCommand, targetVars, link
    <3>3. \A size : Negotiates(size) => Negotiates(size)'
      BY <3>1 DEF Negotiates, IsCommand, IsResponse, targetVars, link
    <3>4. ~Ended' => Agreement
      BY <2>0, <3>1 DEF SizeInv, Ended, hostVars
    <3>5. Agreement => Agreement'
      BY <3>1, <3>3 DEF Agreement, hostVars, targetVars, link
    <3> QED
      BY <3>2, <3>4, <3>5
  <2> QED
    BY <2>1, <2>2, <2>3, <2>4 DEF Next
<1> QED
  BY <1>1, <1>2, TypeCorrect, OrderInvariant, PTL DEF Spec

(* What is in flight for a target in raw mode fits the buffer size it      *)
(* agreed to, whatever size qdl was compiled with, whatever the target     *)
(* supports, and however often the size was asked for.                     *)
THEOREM DataAsAgreed == Spec => []DataFits
<1>1. SizeInv => DataFits
  BY DEF SizeInv, Fits, DataFits
<1> QED
  BY <1>1, SizeInvariant, PTL

-----------------------------------------------------------------------------
(***************************************************************************)
(* The Firehose session implements FlashJob, for every plan: each of its   *)
(* steps is a step of the job, or leaves the job as it is.                 *)
(*                                                                         *)
(* OrderInv says when a command may be on its way; a refinement also needs *)
(* the converse: that a command on its way is an item of the job, that the *)
(* host has not sent it before, and that what was refused has not been     *)
(* forgotten.  JobInv adds that, and what remains true of the line after   *)
(* the host has given up.                                                  *)
(***************************************************************************)

JobOps == {"check", "provision", "program", "patch"}
LastOps == {"setbootablestoragedrive", "power"}

(* A step belongs to the kind of plan there is.                            *)
PlanOfStep ==
    /\ pc = "tag" => plan.ufs /\ item \in 1..Tags
    /\ pc \in {"program", "data", "finish", "patch", "bootable", "reset"}
         => ~plan.ufs

(* The host reads answers in the steps that ask for one.                   *)
Listens ==
    waiting => pc \in {"nop", "configure", "reconfigure", "tag", "program",
                       "finish", "patch", "bootable", "reset"}

Sendable(doc) ==
    /\ doc.op \in JobOps => <<doc.op, doc.arg>> \in Job
    /\ doc.op = "nop" => doc.arg = 0
    /\ doc.op \in LastOps => ~plan.ufs

OnlySendable ==
    /\ \A k \in 1..Len(toDevice) : Sendable(toDevice[k])
    /\ expect > 0 => <<"program", cur>> \in Job

(* A command is alone on the line, even if the host has given up.          *)
Alone ==
    \A k \in 1..Len(toDevice) :
        IsCommand(k) => k = Len(toDevice) /\ expect = 0

(* The step of the session a command belongs to.                           *)
Sender ==
    \A k \in 1..Len(toDevice) :
        /\ toDevice[k].op \in {"check", "provision"} => pc = "tag"
        /\ toDevice[k].op = "patch" => pc = "patch"

(* A refusal is on its way to a host that is going to read it.             *)
RefusalSeen ==
    plugged /\ Refusal =>
        /\ pc \in {"tag", "program", "data", "finish", "patch"}
        /\ \E i \in 1..Len(toHost) : IsResponse(toHost, i) /\ ~toHost[i].ack

(* The target is at most the one item ahead that the host waits for.       *)
Expected == IF waiting \/ pc = "data" THEN {Awaited} ELSE {}
DoneKnown == Carried \subseteq Confirmed \cup Expected

JobInv ==
    /\ PlanOfStep /\ Listens /\ OnlySendable
    /\ ~faulted => Alone
    /\ ~faulted /\ ~Ended => Sender /\ RefusalSeen /\ DoneKnown

-----------------------------------------------------------------------------
(* The job is a matter of the plan, and so is what its items need.         *)
LEMMA JobSame ==
    ASSUME plan' = plan PROVE Job' = Job /\ Needs' = Needs
<1>1. Job' = Job
  BY WorkSame DEF Job, Passed
<1>2. \A c : Required(c)' = Required(c)
  BY WorkSame DEF Required, Passed
<1>3. QED
  BY <1>1, <1>2 DEF Needs

(* What the items are.                                                     *)
LEMMA JobItems ==
    ASSUME plan \in Plans
    PROVE  /\ \A op, n : <<op, n>> \in Job => op \in JobOps
           /\ \A n : <<"program", n>> \in Job <=>
                /\ ~plan.ufs /\ n \in 1..Len(plan.programs)
                /\ plan.programs[n].opens
           /\ \A n : <<"patch", n>> \in Job <=>
                ~plan.ufs /\ n \in 1..Len(plan.patches) /\ plan.patches[n]
           /\ \A n : <<"check", n>> \in Job <=> plan.ufs /\ n \in 1..Tags
           /\ \A n : <<"provision", n>> \in Job <=> plan.ufs /\ n \in 1..Tags
<1>1. \A n, i : <<"program", n>> \in Programs(i) <=>
                  /\ n \in 1..Len(plan.programs) /\ n <= i
                  /\ plan.programs[n].opens
  BY DEF Programs
<1>2. \A n, i : <<"patch", n>> \in Patches(i) <=>
                  n \in 1..Len(plan.patches) /\ n <= i /\ plan.patches[n]
  BY DEF Patches
<1>3. \A op, n, i : <<op, n>> \in Passed(op, i) <=> n \in 1..i
  BY DEF Passed
<1>4. /\ \A op, n, i : <<op, n>> \in Programs(i) => op = "program"
      /\ \A op, n, i : <<op, n>> \in Patches(i) => op = "patch"
      /\ \A op, p, n, i : <<op, n>> \in Passed(p, i) => op = p
  BY DEF Programs, Patches, Passed
<1>5. Len(plan.programs) \in Nat /\ Len(plan.patches) \in Nat
  BY PlanType
<1>6. CASE plan.ufs
  <2>1. Job = Passed("check", Tags) \cup Passed("provision", Tags)
    BY <1>6 DEF Job
  <2>2. QED
    BY <1>3, <1>4, <1>6, <2>1 DEF JobOps
<1>7. CASE ~plan.ufs
  <2>1. Job = Programs(Len(plan.programs)) \cup Patches(Len(plan.patches))
    BY <1>7 DEF Job, AllPrograms, AllPatches
  <2>2. \A n : n \in 1..Len(plan.programs) => n <= Len(plan.programs)
    BY <1>5
  <2>3. \A n : n \in 1..Len(plan.patches) => n <= Len(plan.patches)
    BY <1>5
  <2>4. QED
    BY <1>1, <1>2, <1>4, <1>7, <2>1, <2>2, <2>3 DEF JobOps
<1>8. QED
  BY <1>6, <1>7

(* An item needs other items only.                                         *)
LEMMA NeedsItems ==
    ASSUME plan \in Plans PROVE Needs \in [Job -> SUBSET Job]
<1> SUFFICES ASSUME NEW k \in Job
             PROVE  Required([op |-> k[1], arg |-> k[2]]) \subseteq Job
  BY DEF Needs
<1>1. CASE plan.ufs
  <2>1. PICK op \in {"check", "provision"}, n \in 1..Tags : k = <<op, n>>
    BY <1>1 DEF Job, Passed
  <2>2. Passed(op, n - 1) \subseteq Passed(op, Tags)
    BY PlanType DEF Passed
  <2>3. Required([op |-> k[1], arg |-> k[2]]) \subseteq
          Passed("check", Tags) \cup Passed(op, n - 1)
    BY <2>1 DEF Required
  <2>4. QED
    BY <1>1, <2>1, <2>2, <2>3 DEF Job
<1>2. CASE ~plan.ufs
  <2>1. PICK op \in {"program", "patch"}, n \in Nat : k = <<op, n>>
    BY <1>2 DEF Job, AllPrograms, AllPatches, Programs, Patches
  <2>2. /\ Programs(n - 1) \subseteq AllPrograms
        /\ Patches(n - 1) \subseteq AllPatches
    BY PlanType DEF Programs, Patches, AllPrograms, AllPatches
  <2>3. Required([op |-> k[1], arg |-> k[2]]) \subseteq
          AllPrograms \cup Programs(n - 1) \cup Patches(n - 1)
    BY <2>1 DEF Required
  <2>4. QED
    BY <1>2, <2>2, <2>3 DEF Job
<1>3. QED
  BY <1>1, <1>2

-----------------------------------------------------------------------------
(* firehose_run branches once, on the kind of plan, and never comes back.  *)
LEMMA PlanOfStepKept ==
    ASSUME TypeOK, AtFirst, PlanOfStep, [Next]_vars PROVE PlanOfStep'
<1> USE DEF PlanOfStep
<1>0. plan' = plan
  BY DEF Next, HostStep, WaitForTarget, Drain, firehose_nop,
         firehose_reset, firehose_send_configure, firehose_send_single_tag,
         firehose_program, firehose_apply_patch, firehose_set_bootable,
         firehose_nop_answer, firehose_configure_answer,
         firehose_reconfigure_answer, firehose_single_tag_answer,
         firehose_program_setup, firehose_program_finish,
         firehose_apply_patch_answer, firehose_set_bootable_answer,
         firehose_reset_answer, program_execute, patch_execute, no_bootable,
         firehose_program_data, firehose_program_empty, WriteFails,
         ResponseTruncated, ImageFails, LogsOnly,
         Request, Answer, TargetAnswers, TargetConfigure, TargetProgram,
         TargetData, TargetJunk, TargetSimple, TargetTakes, TargetLog,
         CableOut, Spin, vars
<1>1. Tags' = Tags /\ 1 \in 1..Tags /\ Tags \in Nat /\ item \in Nat \ {0}
  BY <1>0, PlanType, PlansAssumption DEF TypeOK, HostTypeOK, Tags, Plan
<1>2. CASE UNCHANGED <<pc, item>>
  BY <1>0, <1>1, <1>2
<1>3. CASE pc' \in {"wait", "drain", "nop", "configure", "reconfigure",
                    "returned", "exited"}
  BY <1>3
<1>4. CASE /\ pc \in {"configure", "reconfigure"}
           /\ pc' = AfterConfigure /\ item' = item
  BY <1>0, <1>1, <1>4 DEF AfterConfigure, AtFirst
<1>5. CASE /\ pc = "tag" /\ pc' = "tag"
           /\ \/ item < Tags /\ item' = item + 1
              \/ item' = 1
  BY <1>0, <1>1, <1>5
<1>6. CASE /\ pc \in {"program", "data", "finish", "patch", "bootable"}
           /\ pc' \in {"program", "data", "finish", "patch", "bootable",
                      "reset"}
  BY <1>0, <1>6
<1>7. QED
  BY <1>2, <1>3, <1>4, <1>5, <1>6
     DEF Next, HostStep, WaitForTarget, Drain, firehose_nop,
         firehose_reset, firehose_send_configure, firehose_send_single_tag,
         firehose_program, firehose_apply_patch, firehose_set_bootable,
         firehose_nop_answer, firehose_configure_answer,
         firehose_reconfigure_answer, firehose_single_tag_answer,
         firehose_program_setup, firehose_program_finish,
         firehose_apply_patch_answer, firehose_set_bootable_answer,
         firehose_reset_answer, program_execute, patch_execute, no_bootable,
         firehose_program_data, firehose_program_empty, WriteFails,
         ResponseTruncated, ImageFails, LogsOnly,
         Request, Answer, TargetAnswers, TargetConfigure, TargetProgram,
         TargetData, TargetJunk, TargetSimple, TargetTakes, TargetLog,
         CableOut, Spin, GoTo, Return, vars, hostVars

-----------------------------------------------------------------------------
(* A command the host sends, and what it is sent from.                     *)
Begins(cmd) ==
    /\ cmd.op # "data" /\ Sendable(cmd)
    /\ cmd.op \in JobOps => /\ pc \in {"tag", "program", "patch"}
                            /\ <<cmd.op, cmd.arg>> = Awaited
                            /\ Required(cmd) = Confirmed
    /\ cmd.op \in {"check", "provision"} => pc = "tag"
    /\ cmd.op = "patch" => pc = "patch"

Commands ==
    firehose_nop \/ firehose_send_configure \/ firehose_send_single_tag
        \/ firehose_program \/ firehose_apply_patch \/ firehose_set_bootable
        \/ firehose_reset

LEMMA CommandSent ==
    ASSUME TypeOK, PlanOfStep, Commands
    PROVE  ~Ended /\ \E cmd \in Document : Request(pc, cmd) /\ Begins(cmd)
<1> USE DEF Begins, Sendable, JobOps, LastOps, Cmd, Ended
<1>0. HostTypeOK /\ plan \in Plans /\ item \in Nat \ {0} /\ payload \in Nat
      /\ ask \in Nat
  BY DEF TypeOK, HostTypeOK
<1>1. CASE firehose_nop
  <2>1. Cmd("nop", 0) \in Document
    BY DocumentType DEF SimpleOps
  <2>2. QED
    BY <1>1, <2>1 DEF firehose_nop, Request
<1>2. CASE firehose_send_configure
  <2>1. PICK step \in {"configure", "reconfigure"}, n \in Nat :
          Request(step, Cmd("configure", n))
    BY <1>0, <1>2 DEF firehose_send_configure
  <2>2. Cmd("configure", n) \in Document
    BY DocumentType
  <2>3. QED
    BY <2>1, <2>2 DEF Request
<1>3. CASE firehose_send_single_tag
  <2>1. PICK op \in {"check", "provision"} :
          /\ Request("tag", Cmd(op, item))
          /\ op = IF commit THEN "provision" ELSE "check"
    BY <1>3 DEF firehose_send_single_tag
  <2>2. Cmd(op, item) \in Document
    BY <1>0, DocumentType DEF SimpleOps
  <2>3. pc = "tag"
    BY <2>1 DEF Request
  <2>4. Required(Cmd(op, item)) = Confirmed /\ Awaited = <<op, item>>
    BY <2>1, <2>3 DEF Required, Confirmed, Awaited
  <2>5. <<op, item>> \in Job
    BY <1>0, <2>1, <2>3, JobItems DEF PlanOfStep
  <2>6. QED
    BY <2>1, <2>2, <2>3, <2>4, <2>5
<1>4. CASE firehose_program
  <2>1. Cmd("program", item) \in Document
    BY <1>0, DocumentType
  <2>2. pc = "program" /\ Request("program", Cmd("program", item))
    BY <1>4 DEF firehose_program, Request
  <2>3. Required(Cmd("program", item)) = Confirmed
        /\ Awaited = <<"program", item>>
    BY <2>2 DEF Required, Confirmed, Awaited
  <2>4. item \in 1..Len(plan.programs) /\ plan.programs[item].opens
    BY <1>0, <1>4, PlanType DEF firehose_program, Here
  <2>5. <<"program", item>> \in Job
    BY <1>0, <2>2, <2>4, JobItems DEF PlanOfStep
  <2>6. QED
    BY <2>1, <2>2, <2>3, <2>5
<1>5. CASE firehose_apply_patch
  <2>1. Cmd("patch", item) \in Document
    BY <1>0, DocumentType DEF SimpleOps
  <2>2. pc = "patch" /\ Request("patch", Cmd("patch", item))
    BY <1>5 DEF firehose_apply_patch, Request
  <2>3. Required(Cmd("patch", item)) = Confirmed /\ Awaited = <<"patch", item>>
    BY <2>2 DEF Required, Confirmed, Awaited
  <2>4. item \in 1..Len(plan.patches) /\ plan.patches[item]
    BY <1>0, <1>5, PlanType DEF firehose_apply_patch
  <2>5. <<"patch", item>> \in Job
    BY <1>0, <2>2, <2>4, JobItems DEF PlanOfStep
  <2>6. QED
    BY <2>1, <2>2, <2>3, <2>5
<1>6. CASE firehose_set_bootable \/ firehose_reset
  <2>1. PICK step \in {"bootable", "reset"}, n \in Nat, op \in LastOps :
          Request(step, Cmd(op, n))
    <3>1. ASSUME NEW i \in 1..Len(plan.programs)
          PROVE  plan.programs[i].part \in Nat
      <4>1. plan.programs[i] \in Program
        BY <1>0, PlanType
      <4>2. QED
        BY <4>1 DEF Program
    <3>2. QED
      BY <1>6, <3>1 DEF firehose_set_bootable, firehose_reset
  <2>2. Cmd(op, n) \in Document
    BY DocumentType DEF SimpleOps
  <2>3. pc = step /\ ~plan.ufs
    BY <2>1 DEF Request, PlanOfStep
  <2>4. QED
    BY <2>1, <2>2, <2>3
<1>7. QED
  BY <1>1, <1>2, <1>3, <1>4, <1>5, <1>6 DEF Commands

(* The other steps of the host send data or nothing.                       *)
LEMMA HostSteps ==
    ASSUME TypeOK, HostStep
    PROVE  /\ UNCHANGED <<plan, targetVars>>
           /\ Commands \/ firehose_program_data \/ toDevice' = toDevice
<1>1. LinkTypeOK
  BY DEF TypeOK
<1>2. QED
  BY <1>1, ReadType
     DEF HostStep, Commands, WaitForTarget, Drain, firehose_nop,
         firehose_reset, firehose_send_configure, firehose_send_single_tag,
         firehose_program, firehose_apply_patch, firehose_set_bootable,
         firehose_nop_answer, firehose_configure_answer,
         firehose_reconfigure_answer, firehose_single_tag_answer,
         firehose_program_setup, firehose_program_finish,
         firehose_apply_patch_answer, firehose_set_bootable_answer,
         firehose_reset_answer, program_execute, patch_execute, no_bootable,
         firehose_program_data, firehose_program_empty, WriteFails,
         ResponseTruncated, ImageFails, LogsOnly,
         Request, Answer, link

(* One chunk of data.                                                      *)
LEMMA DataSent ==
    ASSUME TypeOK, InRange, firehose_program_data
    PROVE  /\ \E n \in Nat : /\ Cmd("data", n) \in Document
                             /\ toDevice' = Append(toDevice, Cmd("data", n))
           /\ UNCHANGED <<plan, item, commit, toHost, plugged, faults,
                          targetVars>>
           /\ pc = "data" /\ pc' \in {"data", "finish"}
           /\ pc' = "finish" => waiting'
<1>1. Here \in Program
  BY PlanType DEF TypeOK, InRange, Here, firehose_program_data
<1>2. Chunk(Here) \in Nat
  BY <1>1, SectorCounts DEF TypeOK, HostTypeOK
<1>3. Cmd("data", Chunk(Here)) \in Document
  BY <1>2, DocumentType
<1>4. /\ toDevice' = Append(toDevice, Cmd("data", Chunk(Here)))
      /\ UNCHANGED <<plan, item, commit, toHost, plugged, faults, targetVars>>
      /\ pc = "data" /\ pc' \in {"data", "finish"}
  BY DEF firehose_program_data, firehose_write, GoTo
<1>5. pc' = "finish" => waiting'
  BY Zenon DEF firehose_program_data, GoTo
<1>6. QED
  BY <1>2, <1>3, <1>4, <1>5

-----------------------------------------------------------------------------
(* What a step does to the line towards the target.                        *)
LEMMA LineMoves ==
    ASSUME TypeOK, InRange, PlanOfStep, [Next]_vars
    PROVE  /\ plan' = plan
           /\ Ended => Ended'
           /\ \/ /\ ~Ended
                 /\ \E cmd \in Document : /\ toDevice' = Append(toDevice, cmd)
                                          /\ cmd.op = "data" \/ Begins(cmd)
                 /\ UNCHANGED targetVars /\ ~Ended'
              \/ toDevice' = toDevice /\ UNCHANGED <<expect, cur>>
              \/ toDevice' = <<>> /\ UNCHANGED <<expect, cur>>
              \/ \E op \in SimpleOps \cup {"configure", "program", "data"} :
                    /\ TargetTakes(op)
                    /\ op = "data" => expect > 0 \/ expect' = 0
<1>1. CASE HostStep
  <2>1. UNCHANGED <<plan, targetVars>>
    BY <1>1, HostSteps
  <2>0. Ended => Ended'
    BY <1>1 DEF HostStep, WaitForTarget, Drain, firehose_nop,
         firehose_reset, firehose_send_configure, firehose_send_single_tag,
         firehose_program, firehose_apply_patch, firehose_set_bootable,
         firehose_nop_answer, firehose_configure_answer,
         firehose_reconfigure_answer, firehose_single_tag_answer,
         firehose_program_setup, firehose_program_finish,
         firehose_apply_patch_answer, firehose_set_bootable_answer,
         firehose_reset_answer, program_execute, patch_execute, no_bootable,
         firehose_program_data, firehose_program_empty, WriteFails,
         ResponseTruncated, ImageFails, LogsOnly,
         Request, Answer, Writes, Ended, GoTo, Return, hostVars
  <2>2. CASE Commands
    <3>1. PICK cmd \in Document : Request(pc, cmd) /\ Begins(cmd)
      BY <2>2, CommandSent
    <3>2. toDevice' = Append(toDevice, cmd) /\ pc' = pc
      BY <3>1 DEF Request, firehose_write
    <3>3. ~Ended /\ ~Ended'
      BY <2>2, <3>2, CommandSent DEF Ended
    <3>4. QED
      BY <2>1, <3>1, <3>2, <3>3
  <2>3. CASE firehose_program_data
    <3>1. PICK n \in Nat : /\ Cmd("data", n) \in Document
                           /\ toDevice' = Append(toDevice, Cmd("data", n))
      BY <2>3, DataSent
    <3>2. ~Ended /\ ~Ended'
      BY <2>3, DataSent DEF Ended
    <3>3. QED
      BY <2>1, <3>1, <3>2 DEF Cmd
  <2>4. QED
    BY <1>1, <2>0, <2>1, <2>2, <2>3, HostSteps DEF targetVars
<1>2. CASE TargetAnswers
  <2>1. \E op \in SimpleOps \cup {"configure", "program", "data"} :
          TargetTakes(op) /\ (op = "data" => expect > 0 \/ expect' = 0)
    <3>1. CASE TargetConfigure \/ TargetProgram
      <4>1. PICK op \in {"configure", "program"} : TargetTakes(op)
        BY <3>1 DEF TargetConfigure, TargetProgram
      <4>2. QED
        BY <4>1
    <3>2. CASE TargetData
      BY <3>2 DEF TargetData
    <3>3. CASE TargetJunk
      BY <3>3 DEF TargetJunk, targetVars
    <3>4. CASE TargetSimple
      <4>1. PICK op \in SimpleOps : TargetTakes(op)
        BY <3>4 DEF TargetSimple
      <4>2. op # "data"
        BY DEF SimpleOps
      <4>3. QED
        BY <4>1, <4>2
    <3>5. QED
      BY <1>2, <3>1, <3>2, <3>3, <3>4 DEF TargetAnswers
  <2>2. QED
    BY <2>1 DEF TargetTakes, Ended, hostVars
<1>3. CASE TargetLog \/ CableOut \/ Spin \/ UNCHANGED vars
  BY <1>3 DEF TargetLog, CableOut, Unplug, Spin, vars, hostVars, targetVars,
              link, Ended
<1>4. QED
  BY <1>1, <1>2, <1>3 DEF Next

(* Whatever a step leaves on the line was there before, or was sent now.   *)
LEMMA WasThere ==
    ASSUME toDevice \in Seq(Document), NEW k \in 1..Len(toDevice'),
           \/ \E cmd \in Document : toDevice' = Append(toDevice, cmd)
           \/ toDevice' = toDevice
           \/ toDevice' = <<>>
           \/ \E op : TargetTakes(op)
    PROVE  \/ toDevice' = Append(toDevice, toDevice'[k])
           \/ \E i \in 1..Len(toDevice) : toDevice'[k] = toDevice[i]
<1>1. CASE \E cmd \in Document : toDevice' = Append(toDevice, cmd)
  <2>1. PICK cmd \in Document : toDevice' = Append(toDevice, cmd)
    BY <1>1
  <2>2. /\ k \in 1..(Len(toDevice) + 1) /\ Len(toDevice') = Len(toDevice) + 1
        /\ toDevice'[k] = IF k = Len(toDevice) + 1 THEN cmd ELSE toDevice[k]
    BY <2>1
  <2>3. QED
    BY <2>1, <2>2
<1>2. CASE toDevice' = toDevice
  BY <1>2
<1>3. CASE \E op : TargetTakes(op)
  <2>1. toDevice # <<>> /\ toDevice' = Tail(toDevice)
    BY <1>3 DEF TargetTakes
  <2>2. /\ k + 1 \in 1..Len(toDevice) /\ toDevice'[k] = toDevice[k + 1]
        /\ Len(toDevice') = Len(toDevice) - 1
    BY <2>1
  <2>3. QED
    BY <2>2
<1>4. QED
  BY <1>1, <1>2, <1>3

(* What the host sends are items of the job, and what the target takes     *)
(* are what the host sent.                                                 *)
LEMMA OnlySendableKept ==
    ASSUME TypeOK, InRange, PlanOfStep, OnlySendable, [Next]_vars
    PROVE  OnlySendable'
<1>0. /\ toDevice \in Seq(Document) /\ expect \in Nat
      /\ plan' = plan /\ Job' = Job
  BY LineMoves, JobSame DEF TypeOK, TargetTypeOK
<1>1. ASSUME NEW k \in 1..Len(toDevice') PROVE Sendable(toDevice[k])'
  <2>1. CASE \E i \in 1..Len(toDevice) : toDevice'[k] = toDevice[i]
    BY <1>0, <2>1 DEF OnlySendable, Sendable
  <2>2. CASE toDevice' = Append(toDevice, toDevice'[k])
    <3>1. Len(toDevice') = Len(toDevice) + 1
      BY <1>0, <2>2
    <3>2. PICK cmd \in Document : /\ toDevice' = Append(toDevice, cmd)
                                  /\ cmd.op = "data" \/ Begins(cmd)
      BY <1>0, <3>1, LineMoves DEF TargetTakes
    <3>3. toDevice'[k] = cmd
      BY <1>0, <2>2, <3>2
    <3>4. QED
      BY <1>0, <3>2, <3>3 DEF Begins, Sendable, JobOps, LastOps
  <2>3. QED
    BY <1>0, <2>1, <2>2, LineMoves, WasThere
<1>2. ASSUME expect' > 0 PROVE <<"program", cur'>> \in Job
  <2>1. CASE UNCHANGED <<expect, cur>>
    BY <1>2, <2>1 DEF OnlySendable
  <2>2. CASE TargetProgram
    <3>1. CASE UNCHANGED <<expect, cur>>
      BY <2>1, <3>1
    <3>2. CASE cur' = Head(toDevice).arg
      <4>1. /\ 1 \in 1..Len(toDevice) /\ Head(toDevice) = toDevice[1]
            /\ toDevice[1].op = "program"
        BY <1>0, <2>2 DEF TargetProgram, TargetTakes
      <4>2. QED
        BY <3>2, <4>1 DEF OnlySendable, Sendable, JobOps
    <3>3. QED
      BY <2>2, <3>1, <3>2 DEF TargetProgram
  <2>3. CASE TargetData
    BY <2>3 DEF TargetData, OnlySendable
  <2>4. QED
    BY <2>1, <2>2, <2>3, HostSteps
       DEF Next, TargetAnswers, TargetConfigure, TargetJunk, TargetSimple,
           TargetLog, CableOut, Spin, vars, targetVars
<1>3. QED
  BY <1>0, <1>1, <1>2 DEF OnlySendable

(* A command stays alone on the line: while the host listens because of    *)
(* the order, afterwards because it sends nothing any more.                *)
LEMMA AloneKept ==
    ASSUME TypeOK, InRange, PlanOfStep, [Next]_vars, OrderInv', ~faulted',
           Alone
    PROVE  Alone'
<1>1. CASE ~Ended'
  BY <1>1 DEF OrderInv, Strict, CommandIsLast, Alone, IsCommand
<1>2. CASE Ended'
  <2>0. toDevice \in Seq(Document)
    BY DEF TypeOK
  <2>1. CASE toDevice' = toDevice /\ UNCHANGED <<expect, cur>>
    BY <2>1 DEF Alone, IsCommand
  <2>2. CASE toDevice' = <<>>
    BY <2>2 DEF Alone
  <2>3. ASSUME NEW op, TargetTakes(op),
               op = "data" => expect > 0 \/ expect' = 0
        PROVE  Alone'
    <3>1. /\ toDevice # <<>> /\ Len(toDevice') = Len(toDevice) - 1
          /\ 1 \in 1..Len(toDevice)
          /\ \A k \in 1..Len(toDevice') : /\ k + 1 \in 1..Len(toDevice)
                                          /\ toDevice'[k] = toDevice[k + 1]
      BY <2>0, <2>3 DEF TargetTakes
    <3>2. CASE op # "data"
      <4>1. IsCommand(1)
        BY <2>0, <2>3, <3>2 DEF TargetTakes, IsCommand
      <4>2. Len(toDevice) = 1
        BY <3>1, <4>1 DEF Alone
      <4>3. QED
        BY <3>1, <4>2 DEF Alone
    <3>3. CASE op = "data"
      BY <2>3, <3>1, <3>3 DEF Alone, IsCommand
    <3>4. QED
      BY <3>2, <3>3
  <2>4. QED
    BY <1>2, <2>1, <2>2, <2>3, LineMoves
<1>3. QED
  BY <1>1, <1>2

-----------------------------------------------------------------------------
(* The target.                                                             *)

Alive(k) == k \in UnderWay <=>
    \/ k \in Job /\ \E i \in 1..Len(toDevice) : k = Sent(i)
    \/ expect > 0 /\ k = <<"program", cur>>

LEMMA UnderWayIs == \A k : Alive(k)
  BY DEF Alive, UnderWay

(* What the target does with the item that is under way.                   *)
CarriesOut(k) ==
    /\ UnderWay = {k} /\ UnderWay' = {}
    /\ done' = done \cup {k} /\ refused' = refused

Refuses(k) ==
    /\ UnderWay = {k} /\ UnderWay' = {}
    /\ refused' = refused \cup {k} /\ done' = done
    /\ TargetSends(Response(FALSE, NoSize))

(* What it does with a command that is not an item.                        *)
Closes(c) ==
    /\ 1 \in 1..Len(toDevice) /\ c = toDevice[1]
    /\ c.op \in LastOps \cup {"nop"}
    /\ UnderWay' = UnderWay
    /\ \/ done' = done \cup {<<c.op, c.arg>>} /\ refused' = refused
       \/ refused' = refused \cup {<<c.op, c.arg>>} /\ done' = done

(* A command that is taken was alone on the line.                          *)
LEMMA CommandAlone ==
    ASSUME TypeOK, Alone, NEW op, op # "data", TargetTakes(op)
    PROVE  /\ 1 \in 1..Len(toDevice) /\ Len(toDevice) = 1
           /\ toDevice[1] = Head(toDevice) /\ toDevice[1].op = op
           /\ toDevice' = <<>> /\ expect = 0
<1>1. /\ 1 \in 1..Len(toDevice) /\ Head(toDevice) = toDevice[1]
      /\ toDevice' \in Seq(Document) /\ Len(toDevice') = Len(toDevice) - 1
      /\ toDevice[1].op = op
  BY TakeType DEF TargetTakes
<1>2. Len(toDevice) = 1 /\ expect = 0
  BY <1>1 DEF Alone, IsCommand
<1>3. toDevice' = <<>>
  BY <1>1, <1>2, EmptySeq
<1>4. QED
  BY <1>1, <1>2, <1>3

LEMMA TargetMoves ==
    ASSUME TypeOK, InRange, OnlySendable, Alone, TargetAnswers
    PROVE  /\ UNCHANGED <<plan, hostVars, plugged, faults>>
           /\ \/ toHost' = toHost
              \/ \E m \in Message : toHost' = Append(toHost, m)
           /\ \/ UNCHANGED <<done, refused>> /\ UnderWay' \in {UnderWay, {}}
              \/ \E k \in Job : CarriesOut(k) \/ Refuses(k)
              \/ \E c \in Document : Closes(c)
<1>0. /\ toDevice \in Seq(Document) /\ plan \in Plans /\ cap \in Nat
      /\ expect \in Nat
  BY CapsAssumption DEF TypeOK, TargetTypeOK
<1>1. UNCHANGED <<plan, hostVars, plugged, faults>>
  BY DEF TargetAnswers, TargetConfigure, TargetProgram, TargetData,
         TargetJunk, TargetSimple, TargetTakes
<1>2. toHost' = toHost \/ \E m \in Message : toHost' = Append(toHost, m)
  <2>1. \A ack \in BOOLEAN, size \in Nat \cup {NoSize} :
          Response(ack, size) \in Message
    BY DEF Response, Message
  <2>2. \/ toHost' = toHost
        \/ \E ack \in BOOLEAN, size \in Nat \cup {NoSize} :
              toHost' = Append(toHost, Response(ack, size))
    <3>1. CASE TargetConfigure
      BY <1>0, <3>1 DEF TargetConfigure, TargetSends
    <3>2. CASE TargetProgram \/ TargetData \/ TargetSimple
      <4>1. \/ toHost' = toHost
            \/ \E ack \in BOOLEAN : TargetSends(Response(ack, NoSize))
        BY <3>2 DEF TargetProgram, TargetData, TargetSimple
      <4>2. QED
        BY <4>1 DEF TargetSends
    <3>3. CASE TargetJunk
      BY <3>3 DEF TargetJunk
    <3>4. QED
      BY <3>1, <3>2, <3>3 DEF TargetAnswers
  <2>3. QED
    BY <2>1, <2>2
<1>3. Job' = Job
  BY <1>1, JobSame
<1>4. \A k \in 1..Len(toDevice) : Sendable(toDevice[k])
  BY DEF OnlySendable
<1>5. CASE TargetConfigure
  <2>1. /\ 1 \in 1..Len(toDevice) /\ Len(toDevice) = 1
        /\ toDevice[1].op = "configure" /\ toDevice' = <<>> /\ expect = 0
    BY <1>5, CommandAlone DEF TargetConfigure
  <2>2. UNCHANGED <<expect, done, refused>>
    BY <1>5 DEF TargetConfigure
  <2>3. UnderWay = {} /\ UnderWay' = {}
    BY <1>0, <2>1, <2>2, JobItems DEF UnderWay, Sent, JobOps
  <2>4. QED
    BY <1>1, <1>2, <2>2, <2>3
<1>6. CASE TargetProgram
  <2> DEFINE k == <<"program", Head(toDevice).arg>>
  <2>1. /\ 1 \in 1..Len(toDevice) /\ Len(toDevice) = 1
        /\ toDevice[1] = Head(toDevice) /\ toDevice[1].op = "program"
        /\ toDevice' = <<>> /\ expect = 0
    BY <1>6, CommandAlone DEF TargetProgram
  <2>2. k \in Job
    BY <1>4, <2>1 DEF Sendable, JobOps
  <2>3. UnderWay = {k}
    BY <2>1, <2>2 DEF UnderWay, Sent
  <2>4. CASE /\ expect' = Sectors(plan.programs[Head(toDevice).arg])
             /\ cur' = Head(toDevice).arg
             /\ refused' = refused /\ done' = done
    <3>1. UnderWay' = IF expect' > 0 THEN {k} ELSE {}
      BY <2>1, <2>4 DEF UnderWay
    <3>2. UnderWay' \in {UnderWay, {}}
      BY <2>3, <3>1
    <3>3. QED
      BY <1>1, <1>2, <2>4, <3>2
  <2>5. CASE /\ TargetSends(Response(FALSE, NoSize))
             /\ refused' = refused \cup {k}
             /\ UNCHANGED <<expect, done>>
    <3>1. UnderWay' = {}
      BY <2>1, <2>5 DEF UnderWay
    <3>2. QED
      BY <1>1, <1>2, <2>2, <2>3, <2>5, <3>1 DEF Refuses
  <2>6. QED
    BY <1>6, <2>4, <2>5 DEF TargetProgram
<1>7. CASE TargetSimple
  <2>1. PICK op \in SimpleOps :
          /\ TargetTakes(op) /\ expect' = expect
          /\ \/ /\ TargetSends(Response(TRUE, NoSize))
                /\ Performed(op, Head(toDevice).arg)
             \/ /\ TargetSends(Response(FALSE, NoSize))
                /\ Refused(op, Head(toDevice).arg)
    BY <1>7 DEF TargetSimple
  <2> DEFINE k == <<op, Head(toDevice).arg>>
  <2>2. op # "data"
    BY DEF SimpleOps
  <2>3. /\ 1 \in 1..Len(toDevice) /\ Len(toDevice) = 1
        /\ toDevice[1] = Head(toDevice) /\ toDevice[1].op = op
        /\ toDevice' = <<>> /\ expect = 0
    BY <2>1, <2>2, CommandAlone
  <2>4. UnderWay = {k} \cap Job /\ UnderWay' = {}
    BY <2>1, <2>3 DEF UnderWay, Sent
  <2>5. CASE op \in JobOps
    <3>1. k \in Job
      BY <1>4, <2>3, <2>5 DEF Sendable
    <3>2. CarriesOut(k) \/ Refuses(k)
      BY <2>1, <2>4, <3>1 DEF CarriesOut, Refuses, Performed, Refused
    <3>3. QED
      BY <1>1, <1>2, <3>1, <3>2
  <2>6. CASE op \notin JobOps
    <3>1. k \notin Job
      BY <1>0, <2>6, JobItems
    <3>2. op \in LastOps \cup {"nop"}
      BY <2>6 DEF SimpleOps, JobOps, LastOps
    <3>3. Closes(toDevice[1])
      BY <2>1, <2>3, <2>4, <3>1, <3>2 DEF Closes, Performed, Refused
    <3>4. toDevice[1] \in Document
      BY <1>0, <2>3
    <3>5. QED
      BY <1>1, <1>2, <3>3, <3>4
  <2>7. QED
    BY <2>5, <2>6
<1>8. CASE TargetData \/ TargetJunk
  <2>1. TargetTakes("data")
    BY <1>8 DEF TargetData, TargetJunk
  <2>2. /\ 1 \in 1..Len(toDevice) /\ toDevice[1].op = "data"
        /\ Len(toDevice') = Len(toDevice) - 1
        /\ \A i \in 1..Len(toDevice') : /\ toDevice'[i] = toDevice[i + 1]
                                        /\ i + 1 \in 1..Len(toDevice)
        /\ \A i \in 2..Len(toDevice) : i - 1 \in 1..Len(toDevice')
    BY <1>0, <2>1 DEF TargetTakes
  <2>3. \A n : <<"data", n>> \notin Job
    BY <1>0, JobItems DEF JobOps
  <2>4. CASE TargetJunk
    <3>1. ~(expect > 0) /\ UNCHANGED <<expect, done, refused>>
      BY <2>4 DEF TargetJunk, targetVars
    <3>2. \A j \in Job : (\E i \in 1..Len(toDevice') : j = Sent(i)')
                           <=> (\E i \in 1..Len(toDevice) : j = Sent(i))
      <4> SUFFICES ASSUME NEW j \in Job
                   PROVE  (\E i \in 1..Len(toDevice') : j = Sent(i)')
                            <=> (\E i \in 1..Len(toDevice) : j = Sent(i))
        OBVIOUS
      <4>1. ASSUME NEW i \in 1..Len(toDevice'), j = Sent(i)'
            PROVE  i + 1 \in 1..Len(toDevice) /\ j = Sent(i + 1)
        BY <2>2, <4>1 DEF Sent
      <4>2. ASSUME NEW i \in 1..Len(toDevice), j = Sent(i)
            PROVE  i - 1 \in 1..Len(toDevice') /\ j = Sent(i - 1)'
        <5>1. i # 1
          BY <2>2, <2>3, <4>2 DEF Sent
        <5>2. i \in 2..Len(toDevice) /\ (i - 1) + 1 = i
          BY <5>1
        <5>3. QED
          BY <2>2, <4>2, <5>2 DEF Sent
      <4>3. QED
        BY <4>1, <4>2
    <3>3. UnderWay' = UnderWay
      BY <1>3, <3>1, <3>2 DEF UnderWay
    <3>4. QED
      BY <1>1, <1>2, <3>1, <3>3
  <2>5. CASE TargetData
    <3>1. expect > 0 /\ cur' = cur
      BY <2>5 DEF TargetData
    <3>2. \A i \in 1..Len(toDevice) : toDevice[i].op = "data"
      BY <3>1 DEF Alone, IsCommand
    <3>3. UnderWay = {<<"program", cur>>} /\ <<"program", cur>> \in Job
      BY <2>3, <3>1, <3>2 DEF UnderWay, Sent, OnlySendable
    <3>4. UnderWay' = IF expect' > 0 THEN {<<"program", cur>>} ELSE {}
      BY <1>3, <2>2, <2>3, <3>1, <3>2 DEF UnderWay, Sent
    <3>a. expect' \in Nat
      <4>1. Head(toDevice).arg \in Nat
        <5>1. toDevice[1] \in Document /\ Head(toDevice) = toDevice[1]
          BY <1>0, <2>2
        <5>2. QED
          BY <5>1 DEF Document
      <4>2. expect' \in {0, expect - Head(toDevice).arg}
            /\ (expect' # 0 => Head(toDevice).arg < expect)
        BY <2>5 DEF TargetData
      <4>3. QED
        BY <1>0, <4>1, <4>2
    <3>5. CASE expect' > 0
      <4>0. expect' # 0
        BY <3>5
      <4>1. UNCHANGED <<done, refused>>
        BY <2>5, <4>0 DEF TargetData
      <4>2. QED
        BY <1>1, <1>2, <3>3, <3>4, <3>5, <4>1
    <3>6. CASE ~(expect' > 0)
      <4>1. expect' = 0
        BY <3>6, <3>a
      <4>2. CarriesOut(<<"program", cur>>) \/ Refuses(<<"program", cur>>)
        BY <2>5, <3>3, <3>4, <3>6, <4>1
           DEF TargetData, CarriesOut, Refuses, Performed, Refused
      <4>3. QED
        BY <1>1, <1>2, <3>3, <4>2
    <3>7. QED
      BY <3>5, <3>6
  <2>6. QED
    BY <1>8, <2>4, <2>5
<1>9. QED
  BY <1>5, <1>6, <1>7, <1>8 DEF TargetAnswers

-----------------------------------------------------------------------------
(* What is under way is what the host waits for.                           *)
LEMMA UnderWayKnown ==
    ASSUME TypeOK, Strict, OnlySendable, Sender, NEW k \in UnderWay
    PROVE  /\ k = Awaited /\ Expected = {Awaited}
           /\ pc \in {"tag", "program", "data", "finish", "patch"}
<1>0. plan \in Plans
  BY DEF TypeOK
<1>1. CASE k \in Job /\ \E i \in 1..Len(toDevice) : k = Sent(i)
  <2>1. PICK i \in 1..Len(toDevice) :
          k = <<toDevice[i].op, toDevice[i].arg>> /\ k \in Job
    BY <1>1 DEF Sent
  <2>2. toDevice[i].op \in JobOps
    BY <1>0, <2>1, JobItems
  <2>3. IsCommand(i)
    BY <2>2 DEF JobOps, IsCommand
  <2>4. /\ toDevice[i].op = "program" => pc = "program"
        /\ toDevice[i].op \in {"check", "provision"} => pc = "tag"
        /\ toDevice[i].op = "patch" => pc = "patch"
        /\ waiting
        /\ pc \in {"tag", "program", "patch"} => k = Awaited
    BY <2>1, <2>3 DEF Strict, CommandIsLast, Sender
  <2>5. pc \in {"tag", "program", "patch"}
    BY <2>2, <2>4 DEF JobOps
  <2>6. QED
    BY <2>4, <2>5 DEF Expected
<1>2. CASE expect > 0 /\ k = <<"program", cur>>
  <2>1. /\ cur = item
        /\ \/ pc = "program" /\ waiting
           \/ pc \in {"data", "finish"}
    BY <1>2 DEF Strict, RawModeOfItem
  <2>2. pc = "finish" => waiting
    BY DEF Strict, NothingOwed
  <2>3. QED
    BY <1>2, <2>1, <2>2 DEF Awaited, Expected
<1>3. QED
  BY <1>1, <1>2, UnderWayIs DEF Alive

LEMMA StrictAlone == ASSUME Strict PROVE Alone
  BY DEF Strict, CommandIsLast, Alone

(* The target does what the host waits for, and says so when it does not.  *)
LEMMA TargetKeepsJob ==
    ASSUME TypeOK, InRange, OnlySendable, Strict,
           Sender, RefusalSeen, DoneKnown, TargetAnswers \/ TargetLog
    PROVE  Sender' /\ RefusalSeen' /\ DoneKnown'
<1>0. /\ toDevice \in Seq(Document) /\ toHost \in Seq(Message)
      /\ plan \in Plans
  BY DEF TypeOK, LinkTypeOK
<1>1. /\ UNCHANGED <<plan, hostVars, plugged>>
      /\ \/ toHost' = toHost
         \/ \E m \in Message : toHost' = Append(toHost, m)
      /\ \/ UNCHANGED <<done, refused>>
         \/ \E k \in Job : CarriesOut(k) \/ Refuses(k)
         \/ \E c \in Document : Closes(c)
  <2>1. CASE TargetAnswers
    BY <2>1, StrictAlone, TargetMoves
  <2>2. CASE TargetLog
    BY <2>2 DEF TargetLog, TargetSends, Log, Message
  <2>3. QED
    BY <2>1, <2>2
<1>2. /\ Job' = Job /\ Confirmed' = Confirmed /\ Awaited' = Awaited
      /\ Expected' = Expected
  BY <1>1, JobSame, WorkSame
     DEF Confirmed, Awaited, Expected, Programs, Patches, Passed, hostVars
<1>3. Sender'
  <2>1. ASSUME NEW k \in 1..Len(toDevice')
        PROVE  \E i \in 1..Len(toDevice) : toDevice'[k] = toDevice[i]
    <3>1. toDevice' = toDevice \/ \E op : TargetTakes(op)
      BY DEF TargetAnswers, TargetConfigure, TargetProgram, TargetData,
             TargetJunk, TargetSimple, TargetLog
    <3>2. Len(toDevice') # Len(toDevice) + 1
      BY <1>0, <3>1 DEF TargetTakes
    <3>3. toDevice' # Append(toDevice, toDevice'[k])
      BY <1>0, <3>2
    <3>4. QED
      BY <1>0, <3>1, <3>3, WasThere
  <2>2. QED
    BY <1>1, <2>1 DEF Sender, hostVars
<1>4. \A c : Closes(c) => <<c.op, c.arg>> \notin Job
  BY <1>0, JobItems DEF Closes, JobOps, LastOps
<1>5. RefusalSeen'
  <2>1. CASE Refusal' => Refusal
    <3>1. \A i \in 1..Len(toHost) : /\ i \in 1..Len(toHost')
                                    /\ toHost'[i] = toHost[i]
      BY <1>0, <1>1
    <3>2. QED
      BY <1>1, <2>1, <3>1 DEF RefusalSeen, IsResponse, hostVars
  <2>2. CASE \E k \in Job : Refuses(k)
    <3>1. PICK k \in Job : Refuses(k)
      BY <2>2
    <3>2. pc \in {"tag", "program", "data", "finish", "patch"}
      BY <3>1, UnderWayKnown DEF Refuses
    <3>3. /\ Len(toHost) + 1 \in 1..Len(toHost')
          /\ toHost'[Len(toHost) + 1] = Response(FALSE, NoSize)
      BY <1>0, <3>1 DEF Refuses, TargetSends, Response, Message, NoSize
    <3>4. IsResponse(toHost', Len(toHost) + 1) /\ ~toHost'[Len(toHost) + 1].ack
      BY <3>3 DEF IsResponse, Response
    <3>5. QED
      BY <1>1, <3>2, <3>3, <3>4 DEF RefusalSeen, IsResponse, hostVars
  <2>3. QED
    BY <1>1, <1>2, <1>4, <2>1, <2>2 DEF Refusal, CarriesOut, Closes
<1>6. DoneKnown'
  <2>1. CASE Carried' \subseteq Carried
    BY <1>2, <2>1 DEF DoneKnown
  <2>2. CASE \E k \in Job : CarriesOut(k)
    <3>1. PICK k \in Job : CarriesOut(k)
      BY <2>2
    <3>2. k \in Expected
      BY <3>1, UnderWayKnown DEF CarriesOut
    <3>3. Carried' \subseteq Carried \cup {k}
      BY <1>2, <3>1 DEF Carried, CarriesOut
    <3>4. QED
      BY <1>2, <3>2, <3>3 DEF DoneKnown
  <2>3. QED
    BY <1>1, <1>2, <1>4, <2>1, <2>2 DEF Carried, Refuses, Closes
<1>7. QED
  BY <1>3, <1>5, <1>6

-----------------------------------------------------------------------------
(* The host.                                                               *)

(* What the host was waiting for is confirmed, or it still waits for it.   *)
Learns ==
    (Confirmed \cup (Expected \cap Job)) \subseteq (Confirmed' \cup Expected')

LEMMA DoneLearned ==
    ASSUME DoneKnown, Learns, UNCHANGED <<plan, done>> PROVE DoneKnown'
<1>1. Carried' = Carried /\ Carried \subseteq Job
  BY JobSame DEF Carried
<1>2. QED
  BY <1>1 DEF DoneKnown, Learns

(* An element passed is an element confirmed.                              *)
LEMMA ListGrows ==
    ASSUME NEW i \in Nat \ {0}, plan \in Plans
    PROVE  /\ Programs(i - 1) \subseteq Programs(i)
           /\ Patches(i - 1) \subseteq Patches(i)
           /\ \A n : Programs(n) \subseteq AllPrograms
           /\ \A n : Patches(n) \subseteq AllPatches
           /\ i \in 1..Len(plan.programs) /\ plan.programs[i].opens
                => <<"program", i>> \in Programs(i)
           /\ i \in 1..Len(plan.patches) /\ plan.patches[i]
                => <<"patch", i>> \in Patches(i)
           /\ \A op :
                Passed(op, i - 1) \cup {<<op, i>>} \subseteq Passed(op, i)
<1>1. Len(plan.programs) \in Nat /\ Len(plan.patches) \in Nat
  BY PlanType
<1>2. \A k \in 1..Len(plan.programs) : k <= Len(plan.programs)
  BY <1>1
<1>3. \A k \in 1..Len(plan.patches) : k <= Len(plan.patches)
  BY <1>1
<1>4. \A n : /\ Programs(n) \subseteq AllPrograms
             /\ Patches(n) \subseteq AllPatches
  BY <1>2, <1>3 DEF Programs, Patches, AllPrograms, AllPatches
<1>5. QED
  BY <1>1, <1>4 DEF Programs, Patches, Passed

(* Where nothing can be awaited, nothing is.                               *)
LEMMA AwaitsNothing ==
    ASSUME plan \in Plans,
           pc \notin {"program", "data", "finish", "patch", "tag"}
    PROVE  Expected \cap Job = {}
<1>1. Awaited = <<"nop", 0>>
  BY DEF Awaited
<1>2. QED
  BY <1>1, JobItems DEF Expected, JobOps

(* The answers are read in order and not forgotten.                        *)
LEMMA AnswerKeepsJob ==
    ASSUME TypeOK, Strict, Sender, RefusalSeen, DoneKnown,
           NEW step, NEW parser, NEW r, Answer(step, parser, r), ~faulted',
           step # "data",
           step \in {"tag", "program", "finish", "patch"} =>
              parser = "nop" /\ r = 0,
           Learns
    PROVE  Sender' /\ RefusalSeen' /\ DoneKnown'
<1>1. /\ \A k \in 1..Len(toDevice) : ~IsCommand(k)
      /\ parser = "nop" /\ r = 0 => \E i \in 1..Len(toHost) : IsAck(i)
      /\ pc = step /\ UNCHANGED <<toDevice, plan, done>>
  BY AnswerFound
<1>2. UNCHANGED <<refused, plan, done, plugged>>
  BY <1>1 DEF Answer, targetVars, firehose_read, ReadBatch, ReadFails,
              ReadGarbled
<1>3. Sender'
  BY <1>1 DEF Sender, IsCommand
<1>4. ~(plugged /\ Refusal)
  <2> SUFFICES ASSUME plugged, Refusal PROVE FALSE
    OBVIOUS
  <2>1. PICK i \in 1..Len(toHost) : IsResponse(toHost, i) /\ ~toHost[i].ack
    BY DEF RefusalSeen
  <2>2. pc \in {"tag", "program", "data", "finish", "patch"}
    BY DEF RefusalSeen
  <2>3. PICK j \in 1..Len(toHost) : IsAck(j)
    BY <1>1, <2>2
  <2>4. i = j
    BY <2>1, <2>2, <2>3 DEF Strict, Early, OneResponse, IsAck
  <2>5. QED
    BY <2>1, <2>3, <2>4 DEF IsAck
<1>5. RefusalSeen'
  <2>1. Job' = Job
    BY <1>1, JobSame
  <2>2. QED
    BY <1>2, <1>4, <2>1 DEF RefusalSeen, Refusal
<1>6. DoneKnown'
  BY <1>1, DoneLearned
<1>7. QED
  BY <1>3, <1>5, <1>6

(* So are the elements of the lists that are passed over, and the answers  *)
(* that decide nothing.                                                    *)
LEMMA QuietKeepsJob ==
    ASSUME TypeOK, Strict, Sender, RefusalSeen, DoneKnown,
           UNCHANGED <<plan, toDevice, plugged, targetVars>>,
           \/ pc \in {"wait", "drain"}
           \/ ~waiting /\ pc \in {"program", "patch", "bootable"},
           Learns
    PROVE  Sender' /\ RefusalSeen' /\ DoneKnown'
<1>1. \A k \in 1..Len(toDevice) : ~IsCommand(k)
  BY DEF Strict, CommandIsLast
<1>2. Sender'
  BY <1>1 DEF Sender, IsCommand
<1>3. ~(plugged /\ Refusal)
  BY DEF RefusalSeen, Strict, NothingOwed, NoResponse
<1>4. RefusalSeen'
  <2>1. Job' = Job
    BY JobSame
  <2>2. QED
    BY <1>3, <2>1 DEF RefusalSeen, Refusal, targetVars
<1>5. DoneKnown'
  BY DoneLearned DEF targetVars
<1>6. QED
  BY <1>2, <1>4, <1>5

(* The steps in which it learns something, or passes something over.       *)
Answers ==
    \/ firehose_nop_answer \/ firehose_configure_answer
    \/ firehose_reconfigure_answer \/ firehose_single_tag_answer
    \/ firehose_program_setup \/ firehose_program_finish
    \/ firehose_apply_patch_answer \/ firehose_set_bootable_answer
    \/ firehose_reset_answer

Quiet ==
    \/ WaitForTarget \/ Drain \/ WriteFails
    \/ program_execute \/ patch_execute \/ no_bootable

(* What the host takes as confirmed grows with every element it passes.    *)
LEMMA HostLearns ==
    ASSUME TypeOK, InRange, PlanOfStep, ~Ended', ~Ended,
           Answers \/ Quiet
    PROVE  Learns
<1> USE DEF GoTo, Return, Ended
<1>0. plan \in Plans /\ item \in Nat \ {0} /\ Tags \in Nat /\ plan' = plan
  BY PlanType
     DEF TypeOK, HostTypeOK, Answers, Quiet, Answer, WaitForTarget, Drain,
         WriteFails, firehose_nop_answer, firehose_configure_answer,
         firehose_reconfigure_answer, firehose_single_tag_answer,
         firehose_program_setup, firehose_program_finish,
         firehose_apply_patch_answer, firehose_set_bootable_answer,
         firehose_reset_answer, program_execute, patch_execute, no_bootable
<1>a. ASSUME pc \notin {"program", "data", "finish", "patch", "tag"},
             Confirmed = {} \/ Confirmed' = Confirmed
      PROVE  Learns
  BY <1>0, <1>a, AwaitsNothing DEF Learns
<1>1. CASE pc \in {"wait", "drain", "nop", "configure", "reconfigure"}
  <2>1. Confirmed = {}
    BY <1>1 DEF Confirmed
  <2>2. QED
    BY <1>1, <1>a, <2>1
<1>2. CASE pc \in {"bootable", "reset"}
  <2>1. pc' \in {"bootable", "reset"}
    BY <1>2
       DEF Answers, Quiet, WaitForTarget, Drain, WriteFails,
           Answer, firehose_nop_answer, firehose_configure_answer,
           firehose_reconfigure_answer, firehose_single_tag_answer,
           firehose_program_setup, firehose_program_finish,
           firehose_apply_patch_answer,
           firehose_set_bootable_answer, firehose_reset_answer,
           program_execute, patch_execute, no_bootable
  <2>2. Confirmed' = Confirmed
    BY <1>0, <1>2, <2>1, WorkSame DEF Confirmed
  <2>3. QED
    BY <1>2, <1>a, <2>2
<1>3. CASE pc = "tag"
  <2>1. firehose_single_tag_answer
    BY <1>3
       DEF Answers, Quiet, WaitForTarget, Drain, WriteFails,
           Answer, firehose_nop_answer, firehose_configure_answer,
           firehose_reconfigure_answer, firehose_program_setup,
           firehose_program_finish, firehose_apply_patch_answer,
           firehose_set_bootable_answer, firehose_reset_answer,
           program_execute, patch_execute, no_bootable
  <2>2. /\ pc' = "tag"
        /\ \/ item' = item + 1 /\ commit' = commit
           \/ item = Tags /\ ~commit /\ item' = 1 /\ commit'
    BY <2>1, Zenon DEF firehose_single_tag_answer
  <2>3. Tags' = Tags
    BY <1>0, WorkSame
  <2>4. \A op :
          Passed(op, item - 1) \cup {<<op, item>>} \subseteq Passed(op, item)
    BY <1>0, ListGrows
  <2>5. CASE item' = item + 1 /\ commit' = commit
    <3>1. item' - 1 = item
      BY <1>0, <2>5
    <3>2. CASE commit
      <4>1. Confirmed' = Passed("check", Tags) \cup Passed("provision", item)
        BY <2>2, <2>3, <2>5, <3>1, <3>2 DEF Confirmed, Passed
      <4>2. QED
        BY <1>3, <2>4, <3>2, <4>1 DEF Learns, Confirmed, Expected, Awaited
    <3>3. CASE ~commit
      <4>1. Confirmed' = Passed("check", item)
        BY <2>2, <2>5, <3>1, <3>3 DEF Confirmed, Passed
      <4>2. QED
        BY <1>3, <2>4, <3>3, <4>1 DEF Learns, Confirmed, Expected, Awaited
    <3>4. QED
      BY <3>2, <3>3
  <2>6. CASE item = Tags /\ ~commit /\ item' = 1 /\ commit'
    <3>1. Passed("check", Tags) \subseteq Confirmed'
      BY <2>2, <2>3, <2>6 DEF Confirmed, Passed
    <3>2. QED
      BY <1>3, <2>4, <2>6, <3>1 DEF Learns, Confirmed, Expected, Awaited
  <2>7. QED
    BY <2>2, <2>5, <2>6
<1>4. CASE pc \in {"program", "data", "finish"}
  <2>0. /\ Confirmed = Programs(item - 1) /\ Awaited = <<"program", item>>
        /\ Programs(item - 1) \subseteq Programs(item)
        /\ Programs(item - 1) \subseteq AllPrograms
    BY <1>0, <1>4, ListGrows DEF Confirmed, Awaited
  <2>1. CASE firehose_program_setup
    <3>1. pc' = "data" /\ item' = item
      BY <2>1 DEF firehose_program_setup
    <3>2. Confirmed' = Confirmed /\ Awaited' = Awaited
      BY <1>0, <2>0, <3>1, WorkSame DEF Confirmed, Awaited, Programs
    <3>3. QED
      BY <3>1, <3>2 DEF Learns, Expected
  <2>2. CASE firehose_program_finish
    <3>1. /\ pc' = "program" /\ item' = item + 1 /\ item' - 1 = item
          /\ pc = "finish"
      BY <1>0, <2>2 DEF firehose_program_finish, Answer
    <3>2. Confirmed' = Programs(item)
      BY <1>0, <3>1, WorkSame DEF Confirmed, Programs
    <3>3. <<"program", item>> \in Programs(item)
      BY <1>0, <3>1, ListGrows DEF InRange, Here
    <3>4. QED
      BY <2>0, <3>2, <3>3 DEF Learns, Expected
  <2>3. CASE program_execute
    <3>1. Expected = {}
      BY <2>3 DEF program_execute, Expected
    <3>2. CASE pc' = "program" /\ item' = item + 1
      <4>1. item' - 1 = item
        BY <1>0, <3>2
      <4>2. Confirmed' = Programs(item)
        BY <1>0, <3>2, <4>1, WorkSame DEF Confirmed, Programs
      <4>3. QED
        BY <2>0, <3>1, <4>2 DEF Learns
    <3>3. CASE pc' = "patch"
      <4>1. AllPrograms \subseteq Confirmed'
        BY <1>0, <3>3, WorkSame DEF Confirmed
      <4>2. QED
        BY <2>0, <3>1, <4>1 DEF Learns
    <3>4. QED
      BY <2>3, <3>2, <3>3 DEF program_execute
  <2>4. QED
    BY <1>4, <2>1, <2>2, <2>3
       DEF Answers, Quiet, WaitForTarget, Drain, WriteFails,
           Answer, firehose_nop_answer, firehose_configure_answer,
           firehose_reconfigure_answer, firehose_single_tag_answer,
           firehose_apply_patch_answer,
           firehose_set_bootable_answer, firehose_reset_answer,
           patch_execute, no_bootable
<1>5. CASE pc = "patch"
  <2>0. /\ Confirmed = AllPrograms \cup Patches(item - 1)
        /\ Awaited = <<"patch", item>>
        /\ Patches(item - 1) \subseteq Patches(item)
        /\ Patches(item - 1) \subseteq AllPatches
    BY <1>0, <1>5, ListGrows DEF Confirmed, Awaited
  <2>1. CASE firehose_apply_patch_answer
    <3>1. /\ pc' = "patch" /\ item' = item + 1 /\ item' - 1 = item
          /\ waiting
      BY <1>0, <2>1 DEF firehose_apply_patch_answer, Answer
    <3>2. Confirmed' = AllPrograms \cup Patches(item)
      BY <1>0, <3>1, WorkSame DEF Confirmed, Patches
    <3>3. <<"patch", item>> \in Patches(item)
      BY <1>0, <1>5, <3>1, ListGrows DEF InRange
    <3>4. QED
      BY <2>0, <3>2, <3>3 DEF Learns, Expected
  <2>2. CASE patch_execute
    <3>1. Expected = {}
      BY <1>5, <2>2 DEF patch_execute, Expected
    <3>2. CASE pc' = "patch" /\ item' = item + 1
      <4>1. item' - 1 = item
        BY <1>0, <3>2
      <4>2. Confirmed' = AllPrograms \cup Patches(item)
        BY <1>0, <3>2, <4>1, WorkSame DEF Confirmed, Patches
      <4>3. QED
        BY <2>0, <3>1, <4>2 DEF Learns
    <3>3. CASE pc' = "bootable"
      <4>1. Confirmed' = AllPrograms \cup AllPatches
        BY <1>0, <3>3, WorkSame DEF Confirmed
      <4>2. QED
        BY <2>0, <3>1, <4>1 DEF Learns
    <3>4. QED
      BY <2>2, <3>2, <3>3 DEF patch_execute
  <2>3. QED
    BY <1>5, <2>1, <2>2
       DEF Answers, Quiet, WaitForTarget, Drain, WriteFails,
           Answer, firehose_nop_answer, firehose_configure_answer,
           firehose_reconfigure_answer, firehose_single_tag_answer,
           firehose_program_setup, firehose_program_finish,
           firehose_set_bootable_answer, firehose_reset_answer,
           program_execute, no_bootable
<1>6. QED
  <2>1. pc \in Steps \ {"returned", "exited"}
    BY DEF TypeOK, HostTypeOK
  <2>2. QED
    BY <1>1, <1>2, <1>3, <1>4, <1>5, <2>1 DEF Steps

LEMMA HostKeepsJob ==
    ASSUME TypeOK, InRange, PlanOfStep, OnlySendable, Strict,
           Sender, RefusalSeen, DoneKnown, HostStep, ~faulted', ~Ended, ~Ended'
    PROVE  Sender' /\ RefusalSeen' /\ DoneKnown'
<1>0. /\ toDevice \in Seq(Document) /\ toHost \in Seq(Message)
      /\ UNCHANGED <<plan, targetVars>>
  BY HostSteps DEF TypeOK, LinkTypeOK
<1>1. Job' = Job
  BY <1>0, JobSame
<1>2. CASE Commands
  <2>1. PICK cmd \in Document : Request(pc, cmd) /\ Begins(cmd)
    BY <1>2, CommandSent
  <2>2. /\ toDevice' = Append(toDevice, cmd) /\ ~waiting /\ waiting'
        /\ UNCHANGED <<pc, item, commit, toHost, plugged>>
    BY <2>1 DEF Request, firehose_write
  <2>3. \A k \in 1..Len(toDevice) : ~IsCommand(k)
    BY <2>2 DEF Strict, CommandIsLast
  <2>4. Sender'
    <3>1. ASSUME NEW k \in 1..Len(toDevice'), toDevice'[k].op # "data"
          PROVE  toDevice'[k] = cmd
      BY <1>0, <2>2, <2>3, <3>1 DEF IsCommand
    <3>2. QED
      BY <2>1, <2>2, <3>1 DEF Sender, Begins
  <2>5. RefusalSeen'
    BY <1>0, <1>1, <2>2 DEF RefusalSeen, Refusal, IsResponse, targetVars
  <2>6. Confirmed' = Confirmed /\ Awaited' = Awaited
    BY <1>0, <2>2, WorkSame DEF Confirmed, Awaited, Programs, Patches, Passed
  <2>7. DoneKnown'
    BY <1>0, <1>1, <2>2, <2>6 DEF DoneKnown, Expected, Carried, targetVars
  <2>8. QED
    BY <2>4, <2>5, <2>7
<1>3. CASE firehose_program_data
  <2>1. PICK n \in Nat : /\ Cmd("data", n) \in Document
                         /\ toDevice' = Append(toDevice, Cmd("data", n))
    BY <1>3, DataSent
  <2>2. /\ UNCHANGED <<plan, item, commit, toHost, plugged, targetVars>>
        /\ pc = "data" /\ pc' \in {"data", "finish"}
        /\ pc' = "finish" => waiting'
    BY <1>3, DataSent
  <2>3. \A k \in 1..Len(toDevice) : ~IsCommand(k)
    BY <2>2 DEF Strict, CommandIsLast
  <2>4. Sender'
    <3>1. \A k \in 1..Len(toDevice') : toDevice'[k].op = "data"
      BY <1>0, <2>1, <2>3 DEF IsCommand, Cmd
    <3>2. QED
      BY <3>1 DEF Sender
  <2>5. RefusalSeen'
    BY <1>1, <2>2 DEF RefusalSeen, Refusal, IsResponse, targetVars
  <2>6. Confirmed' = Confirmed /\ Awaited' = Awaited
    BY <1>0, <2>2, WorkSame DEF Confirmed, Awaited, Programs
  <2>7. DoneKnown'
    BY <1>1, <2>2, <2>6 DEF DoneKnown, Expected, Carried, targetVars
  <2>8. QED
    BY <2>4, <2>5, <2>7
<1>4. CASE Answers
  <2>1. Learns
    BY <1>4, HostLearns
  <2>2. CASE \E step \in {"nop", "bootable", "reset"} : \E r :
               Answer(step, "nop", r)
    BY <2>1, <2>2, AnswerKeepsJob
  <2>3. CASE \E step \in {"configure", "reconfigure"} : \E r :
               Answer(step, "configure", r)
    BY <2>1, <2>3, AnswerKeepsJob
  <2>4. CASE \E step \in {"tag", "program", "finish", "patch"} :
               Answer(step, "nop", 0)
    BY <2>1, <2>4, AnswerKeepsJob
  <2>5. QED
    BY <1>4, <2>2, <2>3, <2>4
       DEF Answers, firehose_nop_answer, firehose_configure_answer,
           firehose_reconfigure_answer, firehose_single_tag_answer,
           firehose_program_setup, firehose_program_finish,
           firehose_apply_patch_answer, firehose_set_bootable_answer,
           firehose_reset_answer, Return, Ended
<1>5. CASE Quiet
  <2>1. Learns
    BY <1>5, HostLearns
  <2>2. UNCHANGED <<toDevice, plugged>>
    BY <1>5 DEF Quiet, WaitForTarget, Drain, DrainBatch, WriteFails,
                program_execute, patch_execute, no_bootable, link
  <2>3. \/ pc \in {"wait", "drain"}
        \/ ~waiting /\ pc \in {"program", "patch", "bootable"}
    <3>1. CASE WriteFails
      BY <3>1 DEF WriteFails, Writes, GoTo, Return, Ended
    <3>2. QED
      BY <1>5, <3>1 DEF Quiet, WaitForTarget, Drain, program_execute,
                        patch_execute, no_bootable
  <2>4. QED
    BY <1>0, <2>1, <2>2, <2>3, QuietKeepsJob
<1>6. CASE LogsOnly
  <2>1. PICK k \in 1..Len(toHost) :
          /\ \A i \in 1..k : ~IsResponse(toHost, i)
          /\ toHost' = SubSeq(toHost, k + 1, Len(toHost))
    BY <1>6 DEF LogsOnly, ReadLogs
  <2>2. UNCHANGED <<hostVars, toDevice, plugged>>
    BY <1>6 DEF LogsOnly, ReadLogs
  <2>3. Sender'
    BY <2>2 DEF Sender, hostVars
  <2>4. RefusalSeen'
    <3>1. ASSUME NEW i \in 1..Len(toHost), IsResponse(toHost, i)
          PROVE  /\ i - k \in 1..Len(toHost')
                 /\ toHost'[i - k] = toHost[i]
      <4>1. i > k
        BY <2>1, <3>1
      <4>2. QED
        BY <1>0, <2>1, <4>1
    <3>2. QED
      BY <1>0, <1>1, <2>2, <3>1
         DEF RefusalSeen, Refusal, IsResponse, targetVars, hostVars
  <2>5. Confirmed' = Confirmed /\ Awaited' = Awaited
    BY <1>0, <2>2, WorkSame
       DEF Confirmed, Awaited, Programs, Patches, Passed, hostVars
  <2>6. DoneKnown'
    BY <1>0, <1>1, <2>2, <2>5
       DEF DoneKnown, Expected, Carried, targetVars, hostVars
  <2>7. QED
    BY <2>3, <2>4, <2>6
<1>7. CASE ResponseTruncated \/ ImageFails
  BY <1>7 DEF ResponseTruncated, ImageFails, GoTo, Ended
<1>8. CASE firehose_program_empty
  <2>1. /\ UNCHANGED <<plan, item, commit, toDevice, toHost, plugged>>
        /\ pc = "data" /\ pc' = "finish" /\ waiting'
    BY <1>8 DEF firehose_program_empty, GoTo, link
  <2>2. \A k \in 1..Len(toDevice) : ~IsCommand(k)
    BY <2>1 DEF Strict, CommandIsLast
  <2>3. Sender'
    BY <2>1, <2>2 DEF Sender, IsCommand
  <2>4. RefusalSeen'
    BY <1>0, <1>1, <2>1 DEF RefusalSeen, Refusal, IsResponse, targetVars
  <2>5. Confirmed' = Confirmed /\ Awaited' = Awaited
    BY <2>1, WorkSame DEF Confirmed, Awaited, Programs
  <2>6. DoneKnown'
    BY <1>0, <1>1, <2>1, <2>5 DEF DoneKnown, Expected, Carried, targetVars
  <2>7. QED
    BY <2>3, <2>4, <2>6
<1>9. QED
  BY <1>2, <1>3, <1>4, <1>5, <1>6, <1>7, <1>8
     DEF HostStep, Commands, Answers, Quiet

-----------------------------------------------------------------------------
LEMMA ListensKept == ASSUME Listens, [Next]_vars PROVE Listens'
<1> USE DEF Listens
<1>1. CASE UNCHANGED <<pc, waiting>>
  BY <1>1
<1>2. CASE ~waiting'
  BY <1>2
<1>3. CASE Commands
  BY <1>3 DEF Commands, firehose_nop, firehose_send_configure,
              firehose_send_single_tag, firehose_program,
              firehose_apply_patch, firehose_set_bootable, firehose_reset,
              Request
<1>4. CASE firehose_program_data \/ firehose_program_empty
  BY <1>4 DEF firehose_program_data, firehose_program_empty, GoTo
<1>5. CASE Answers
  <2>1. waiting' = FALSE
    BY <1>5 DEF Answers, firehose_nop_answer, firehose_configure_answer,
           firehose_reconfigure_answer, firehose_single_tag_answer,
           firehose_program_setup, firehose_program_finish,
           firehose_apply_patch_answer, firehose_set_bootable_answer,
           firehose_reset_answer, Answer
  <2>2. QED
    BY <2>1
<1>6. CASE Quiet
  BY <1>6 DEF Quiet, WaitForTarget, Drain, WriteFails, Writes,
              program_execute, patch_execute, no_bootable
<1>7. QED
  BY <1>1, <1>2, <1>3, <1>4, <1>5, <1>6 DEF Next, HostStep, Commands, Answers,
                                            Quiet, ResponseTruncated,
                                            ImageFails, LogsOnly,
                                            TargetAnswers, TargetConfigure,
                                            TargetProgram, TargetData,
                                            TargetJunk, TargetSimple,
                                            TargetTakes, TargetLog, CableOut,
                                            Spin, vars, hostVars

LEMMA JobKept ==
    ASSUME TypeOK, InRange, AtFirst, OrderInv, OrderInv', JobInv, [Next]_vars
    PROVE  JobInv'
<1>1. PlanOfStep' /\ Listens' /\ OnlySendable'
  BY PlanOfStepKept, ListensKept, OnlySendableKept DEF JobInv
<1>2. ~faulted' => ~faulted
  BY FaultsGrow
<1>3. ASSUME ~faulted' PROVE Alone'
  BY <1>2, <1>3, AloneKept DEF JobInv
<1>4. ASSUME ~faulted', ~Ended' PROVE Sender' /\ RefusalSeen' /\ DoneKnown'
  <2>1. /\ ~Ended /\ PlanOfStep /\ OnlySendable /\ Strict
        /\ Sender /\ RefusalSeen /\ DoneKnown
    BY <1>2, <1>4, LineMoves DEF JobInv, OrderInv
  <2>2. CASE HostStep
    BY <1>4, <2>1, <2>2, HostKeepsJob
  <2>3. CASE TargetAnswers \/ TargetLog
    BY <2>1, <2>3, TargetKeepsJob
  <2>4. CASE CableOut
    <3>1. /\ toDevice' = <<>> /\ ~plugged'
          /\ UNCHANGED <<plan, hostVars, targetVars>>
      BY <2>4 DEF CableOut, Unplug
    <3>2. Confirmed' = Confirmed /\ Awaited' = Awaited /\ Job' = Job
      BY <3>1, WorkSame, JobSame
         DEF Confirmed, Awaited, Programs, Patches, Passed, hostVars
    <3>3. QED
      BY <2>1, <3>1, <3>2
         DEF Sender, RefusalSeen, DoneKnown, Expected, Carried, hostVars,
             targetVars
  <2>5. CASE Spin \/ UNCHANGED vars
    <3>1. UNCHANGED <<plan, hostVars, targetVars, link>>
      BY <2>5 DEF Spin, vars
    <3>2. Confirmed' = Confirmed /\ Awaited' = Awaited /\ Job' = Job
      BY <3>1, WorkSame, JobSame
         DEF Confirmed, Awaited, Programs, Patches, Passed, hostVars
    <3>3. QED
      BY <2>1, <3>1, <3>2
         DEF Sender, RefusalSeen, Refusal, IsResponse, DoneKnown, Expected,
             Carried, hostVars, targetVars, link
  <2>6. QED
    BY <2>2, <2>3, <2>4, <2>5 DEF Next
<1>5. QED
  BY <1>1, <1>3, <1>4 DEF JobInv

LEMMA JobInvariant == Spec => []JobInv
<1>1. Init => JobInv
  <2> SUFFICES ASSUME Init PROVE JobInv
    OBVIOUS
  <2>1. /\ toDevice = <<>> /\ pc = "wait" /\ ~waiting
        /\ expect = 0 /\ done = {} /\ refused = {}
    BY DEF Init, LinkInit
  <2>2. QED
    BY <2>1 DEF JobInv, PlanOfStep, Listens, OnlySendable, Alone, Sender,
                RefusalSeen, Refusal, DoneKnown, Carried
<1>2. TypeOK /\ InRange /\ AtFirst /\ OrderInv /\ OrderInv' /\ JobInv
        /\ [Next]_vars => JobInv'
  BY JobKept
<1>3. QED
  BY <1>1, <1>2, TypeCorrect, OrderInvariant, PTL DEF Spec

-----------------------------------------------------------------------------
(* The refinement.                                                         *)

(* All of the job is done when the host reports success.                   *)
LEMMA SuccessComplete ==
    ASSUME TypeOK, PlanOfStep, Listens, Strict, HostStep, ~faulted',
           pc' = "returned", ret' = 0, ~Ended
    PROVE  Job \subseteq done
<1>0. plan \in Plans /\ item \in Nat \ {0} /\ Tags \in Nat
  BY PlanType DEF TypeOK, HostTypeOK
<1>1. CASE pc = "reset"
  <2>1. ~plan.ufs /\ Confirmed \subseteq done
    BY <1>1 DEF PlanOfStep, Strict, ConfirmedDone
  <2>2. QED
    BY <1>1, <2>1 DEF Confirmed, Job
<1>2. CASE firehose_single_tag_answer
  <2>1. Answer("tag", "nop", 0) /\ item = Tags /\ commit
    BY <1>2 DEF firehose_single_tag_answer, GoTo, Return
  <2>2. (\E i \in 1..Len(toHost) : IsAck(i)) /\ pc = "tag"
    BY <2>1, AnswerFound
  <2>3. Awaited \in done /\ Confirmed \subseteq done
    BY <2>2 DEF Strict, AckMeansDone, ConfirmedDone
  <2>4. /\ Awaited = <<"provision", Tags>>
        /\ Confirmed = Passed("check", Tags) \cup Passed("provision", Tags - 1)
    BY <2>1, <2>2 DEF Awaited, Confirmed
  <2>5. Passed("provision", Tags)
          \subseteq Passed("provision", Tags - 1) \cup {<<"provision", Tags>>}
    BY <1>0, <2>1, PassSteps
  <2>6. plan.ufs
    BY <2>2 DEF PlanOfStep
  <2>7. QED
    BY <2>3, <2>4, <2>5, <2>6 DEF Job
<1>3. CASE firehose_reset_answer
  BY <1>1, <1>3 DEF firehose_reset_answer, Answer
<1>4. CASE \/ Commands \/ firehose_program_data \/ firehose_program_empty
           \/ LogsOnly \/ ResponseTruncated \/ ImageFails
  <2>1. pc' # "returned"
    <3>1. CASE Commands
      <4>1. pc' = pc
        BY <3>1, CommandSent DEF Request
      <4>2. QED
        BY <4>1 DEF Ended
    <3>2. CASE \/ firehose_program_data \/ firehose_program_empty
               \/ LogsOnly \/ ResponseTruncated \/ ImageFails
      BY <3>2 DEF firehose_program_data, firehose_program_empty, LogsOnly,
                  ResponseTruncated, ImageFails, GoTo, Ended, hostVars
    <3>3. QED
      BY <1>4, <3>1, <3>2
  <2>2. QED
    BY <2>1
<1>5. CASE Quiet
  <2>1. pc = "reset"
    BY <1>5 DEF Quiet, WaitForTarget, Drain, WriteFails, program_execute,
                patch_execute, no_bootable, GoTo, Return
  <2>2. QED
    BY <1>1, <2>1
<1>6. CASE \/ firehose_nop_answer \/ firehose_configure_answer
           \/ firehose_reconfigure_answer \/ firehose_program_setup
           \/ firehose_program_finish \/ firehose_apply_patch_answer
           \/ firehose_set_bootable_answer
  <2>1. CASE firehose_configure_answer \/ firehose_reconfigure_answer
    <3>1. AfterConfigure # "returned"
      BY DEF AfterConfigure
    <3>2. QED
      BY <2>1, <3>1 DEF firehose_configure_answer, firehose_reconfigure_answer,
                        GoTo, Return
  <2>2. CASE firehose_nop_answer
    BY <2>2 DEF firehose_nop_answer, GoTo, Return
  <2>3. QED
    BY <1>6, <2>1, <2>2
       DEF firehose_program_setup, firehose_program_finish,
           firehose_apply_patch_answer, firehose_set_bootable_answer,
           GoTo, Return
<1>7. QED
  BY <1>2, <1>3, <1>4, <1>5, <1>6 DEF HostStep, Commands, Quiet

(* Nothing the host passes is awaited again.                               *)
LEMMA NotYetConfirmed ==
    ASSUME TypeOK, pc \in {"tag", "program", "patch"}
    PROVE  Awaited \notin Confirmed
<1>0. item \in Nat \ {0}
  BY DEF TypeOK, HostTypeOK
<1>1. /\ \A n : <<"program", n>> \in Programs(item - 1) => n <= item - 1
      /\ \A n : <<"patch", n>> \in Patches(item - 1) => n <= item - 1
      /\ \A n : <<"patch", n>> \notin AllPrograms
      /\ \A op, n : <<op, n>> \in Passed(op, item - 1) => n \in 1..(item - 1)
      /\ \A n, i : <<"provision", n>> \notin Passed("check", i)
  BY DEF Programs, Patches, AllPrograms, Passed
<1>2. QED
  BY <1>0, <1>1 DEF Awaited, Confirmed

(* A command is the beginning of an item, or none of the job's business.   *)
LEMMA CommandBegins ==
    ASSUME TypeOK, PlanOfStep, OnlySendable, Strict, Sender, RefusalSeen,
           DoneKnown, ~Ended, Commands
    PROVE  \/ UnderWay' = UnderWay
           \/ \E k \in Job \ Carried :
                 /\ ~Refusal /\ UnderWay = {} /\ UnderWay' = {k}
                 /\ Needs[k] \subseteq Carried
<1>0. /\ plan \in Plans /\ toDevice \in Seq(Document)
      /\ UNCHANGED <<plan, targetVars>>
  BY HostSteps DEF TypeOK, HostStep, Commands
<1>1. PICK cmd \in Document : Request(pc, cmd) /\ Begins(cmd)
  BY CommandSent
<1>2. toDevice' = Append(toDevice, cmd) /\ plugged /\ ~waiting
  BY <1>1 DEF Request, firehose_write
<1>3. Job' = Job
  BY <1>0, JobSame
<1> DEFINE k == <<cmd.op, cmd.arg>>
<1>4. UnderWay' = UnderWay \cup ({k} \cap Job)
  <2>1. /\ Len(toDevice') = Len(toDevice) + 1 /\ Len(toDevice) \in Nat
        /\ \A i \in 1..Len(toDevice) : toDevice'[i] = toDevice[i]
        /\ toDevice'[Len(toDevice) + 1] = cmd
    BY <1>0, <1>2
  <2>2. {Sent(i) : i \in 1..Len(toDevice)}' =
          {Sent(i) : i \in 1..Len(toDevice)} \cup {k}
    <3>1. PICK n \in Nat : n = Len(toDevice)
      BY <2>1
    <3>2. \A i \in 1..n : Sent(i)' = Sent(i)
      BY <2>1, <3>1 DEF Sent
    <3>3. Sent(n + 1)' = k
      BY <2>1, <3>1 DEF Sent
    <3>4. Len(toDevice') = n + 1 /\ 1..(n + 1) = 1..n \cup {n + 1}
      BY <2>1, <3>1
    <3>5. QED
      BY <3>1, <3>2, <3>3, <3>4
  <2>3. QED
    BY <1>0, <1>3, <2>2 DEF UnderWay, targetVars
<1>5. CASE cmd.op \notin JobOps
  BY <1>0, <1>4, <1>5, JobItems
<1>6. CASE cmd.op \in JobOps
  <2>1. /\ pc \in {"tag", "program", "patch"} /\ k = Awaited /\ k \in Job
        /\ Required(cmd) = Confirmed
    BY <1>1, <1>6 DEF Begins, Sendable
  <2>2. Expected = {}
    BY <1>2, <2>1 DEF Expected
  <2>3. UnderWay = {}
    BY <2>2, UnderWayKnown
  <2>4. ~Refusal
    BY <1>2, <2>1 DEF RefusalSeen, Strict, NothingOwed, NoResponse
  <2>5. k \notin Carried
    BY <2>1, <2>2, NotYetConfirmed DEF DoneKnown
  <2>6. Needs[k] \subseteq Carried
    <3>1. Needs[k] = Required([op |-> cmd.op, arg |-> cmd.arg])
      BY <2>1 DEF Needs
    <3>2. [op |-> cmd.op, arg |-> cmd.arg] = cmd
      BY DEF Document
    <3>3. Needs[k] \subseteq Job
      BY <1>0, <2>1, NeedsItems
    <3>4. Confirmed \subseteq done
      BY DEF Strict, ConfirmedDone
    <3>5. QED
      BY <2>1, <3>1, <3>2, <3>3, <3>4 DEF Carried
  <2>7. UnderWay' = {k}
    BY <1>4, <2>1, <2>3
  <2>8. QED
    BY <2>1, <2>3, <2>4, <2>5, <2>6, <2>7
<1>7. QED
  BY <1>5, <1>6

(* A step that changes neither what was sent nor what was done.            *)
LEMMA OnlyVerdict ==
    ASSUME UNCHANGED <<plan, toDevice, targetVars>>
    PROVE  UNCHANGED <<Job, Needs, UnderWay, Carried, Closing>>
           /\ (Refusal' <=> Refusal)
<1>1. Job' = Job /\ Needs' = Needs
  BY JobSame
<1>2. UnderWay' = UnderWay
  BY <1>1 DEF UnderWay, Sent, targetVars
<1>3. QED
  BY <1>1, <1>2 DEF Carried, Closing, Refusal, targetVars

LEMMA HostRefines ==
    ASSUME TypeOK, InRange, OrderInv, JobInv, HostStep, ~faulted, ~faulted'
    PROVE  [Contract!Next]_Contract!vars
<1>1. UNCHANGED <<plan, targetVars>> /\ Job' = Job /\ Needs' = Needs
  BY HostSteps, JobSame
<1>2. ~Ended
  BY DEF JobInv, Listens, HostStep, WaitForTarget, Drain, firehose_nop,
         firehose_reset, firehose_send_configure, firehose_send_single_tag,
         firehose_program, firehose_apply_patch, firehose_set_bootable,
         firehose_nop_answer, firehose_configure_answer,
         firehose_reconfigure_answer, firehose_single_tag_answer,
         firehose_program_setup, firehose_program_finish,
         firehose_apply_patch_answer, firehose_set_bootable_answer,
         firehose_reset_answer, program_execute, patch_execute, no_bootable,
         firehose_program_data, firehose_program_empty, WriteFails,
         ResponseTruncated, ImageFails, LogsOnly,
         Request, Answer, Writes, Ended
<1>3. /\ PlanOfStep /\ Listens /\ OnlySendable /\ Strict
      /\ Sender /\ RefusalSeen /\ DoneKnown
  BY <1>2 DEF JobInv, OrderInv
<1>4. Verdict = "running"
  BY <1>2 DEF Verdict, Ended
<1>5. (~faulted)' = ~faulted
  OBVIOUS
<1>6. Carried' = Carried /\ Closing' = Closing /\ Refusal' = Refusal
  BY <1>1 DEF Carried, Closing, Refusal, targetVars
<1>7. CASE Commands
  <2>1. Verdict' = Verdict
    <3>1. pc' = pc
      BY <1>3, <1>7, CommandSent DEF Request
    <3>2. QED
      BY <1>2, <3>1 DEF Verdict, Ended
  <2>2. CASE UnderWay' = UnderWay
    BY <1>1, <1>5, <1>6, <2>1, <2>2 DEF Contract!vars
  <2>3. CASE \E k \in Job \ Carried :
                /\ ~Refusal /\ UnderWay = {} /\ UnderWay' = {k}
                /\ Needs[k] \subseteq Carried
    <3>1. PICK k \in Job \ Carried :
                /\ ~Refusal /\ UnderWay = {} /\ UnderWay' = {k}
                /\ Needs[k] \subseteq Carried
      BY <2>3
    <3>2. Contract!Begin(k)
      BY <1>1, <1>4, <1>5, <1>6, <2>1, <3>1 DEF Contract!Begin
    <3>3. QED
      BY <3>2 DEF Contract!Next
  <2>4. QED
    BY <1>2, <1>3, <1>7, <2>2, <2>3, CommandBegins
<1>8. CASE firehose_program_data
  <2>1. PICK n \in Nat : /\ Cmd("data", n) \in Document
                         /\ toDevice' = Append(toDevice, Cmd("data", n))
    BY <1>8, DataSent
  <2>2. Verdict' = Verdict
    <3>1. ~Ended'
      BY <1>8, DataSent DEF Ended
    <3>2. QED
      BY <1>4, <3>1 DEF Verdict, Ended
  <2>3. UnderWay' = UnderWay
    <3>1. toDevice \in Seq(Document) /\ plan \in Plans
      BY DEF TypeOK
    <3>2. PICK m \in Nat : m = Len(toDevice)
      BY <3>1
    <3>3. \A i \in 1..m : Sent(i)' = Sent(i)
      BY <2>1, <3>1, <3>2 DEF Sent
    <3>4. Sent(m + 1)' = <<"data", n>>
      BY <2>1, <3>1, <3>2 DEF Sent, Cmd
    <3>5. Len(toDevice') = m + 1 /\ 1..(m + 1) = 1..m \cup {m + 1}
      BY <2>1, <3>1, <3>2
    <3>6. <<"data", n>> \notin Job
      BY <3>1, JobItems DEF JobOps
    <3>7. {Sent(i) : i \in 1..Len(toDevice)}' =
             {Sent(i) : i \in 1..Len(toDevice)} \cup {<<"data", n>>}
      BY <3>2, <3>3, <3>4, <3>5
    <3>8. QED
      BY <1>1, <3>6, <3>7 DEF UnderWay, targetVars
  <2>4. QED
    BY <1>1, <1>5, <1>6, <2>2, <2>3 DEF Contract!vars
<1>9. CASE toDevice' = toDevice
  <2>1. UnderWay' = UnderWay
    BY <1>1, <1>9, OnlyVerdict
  <2>2. CASE ~Ended'
    <3>1. Verdict' = Verdict
      BY <1>4, <2>2 DEF Verdict, Ended
    <3>2. QED
      BY <1>1, <1>5, <1>6, <2>1, <3>1 DEF Contract!vars
  <2>3. CASE pc' = "returned" /\ ret' = 0
    <3>1. Verdict' = "succeeded"
      BY <2>3 DEF Verdict, Ended
    <3>2. Carried = Job
      BY <1>2, <1>3, <2>3, SuccessComplete DEF Carried
    <3>3. Contract!Succeed
      BY <1>1, <1>4, <1>5, <1>6, <2>1, <3>1, <3>2 DEF Contract!Succeed
    <3>4. QED
      BY <3>3 DEF Contract!Next
  <2>4. CASE Ended' /\ ~(pc' = "returned" /\ ret' = 0)
    <3>1. Verdict' = "failed"
      BY <2>4 DEF Verdict
    <3>2. Contract!Fail
      BY <1>1, <1>4, <1>5, <1>6, <2>1, <3>1 DEF Contract!Fail
    <3>3. QED
      BY <3>2 DEF Contract!Next
  <2>5. QED
    BY <2>2, <2>3, <2>4
<1>10. QED
  BY <1>7, <1>8, <1>9, HostSteps

LEMMA TargetRefines ==
    ASSUME TypeOK, InRange, OrderInv, JobInv, TargetAnswers,
           ~faulted, ~faulted'
    PROVE  [Contract!Next]_Contract!vars
<1>1. OnlySendable /\ Alone /\ plan \in Plans /\ toDevice \in Seq(Document)
  BY DEF JobInv, TypeOK
<1>2. UNCHANGED <<plan, hostVars>>
  BY <1>1, TargetMoves
<1>3. Job' = Job /\ Needs' = Needs /\ Verdict' = Verdict
  BY <1>2, JobSame DEF Verdict, Ended, hostVars
<1>4. (~faulted)' = ~faulted
  OBVIOUS
<1>5. CASE UNCHANGED <<done, refused>> /\ UnderWay' \in {UnderWay, {}}
  <2>1. Carried' = Carried /\ Closing' = Closing /\ Refusal' = Refusal
    BY <1>3, <1>5 DEF Carried, Closing, Refusal
  <2>2. CASE UnderWay' = UnderWay
    BY <1>3, <1>4, <2>1, <2>2 DEF Contract!vars
  <2>3. CASE UnderWay' = {}
    <3>1. Contract!Lose
      BY <1>3, <1>4, <2>1, <2>3 DEF Contract!Lose
    <3>2. QED
      BY <3>1 DEF Contract!Next
  <2>4. QED
    BY <1>5, <2>2, <2>3
<1>6. CASE \E k \in Job : CarriesOut(k)
  <2>1. PICK k \in Job : CarriesOut(k)
    BY <1>6
  <2>2. /\ Carried' = Carried \cup {k} /\ Closing' = Closing
        /\ Refusal' = Refusal
    BY <1>3, <2>1 DEF CarriesOut, Carried, Closing, Refusal
  <2>3. Contract!CarryOut
    BY <1>3, <1>4, <2>1, <2>2 DEF CarriesOut, Contract!CarryOut
  <2>4. QED
    BY <2>3 DEF Contract!Next
<1>7. CASE \E k \in Job : Refuses(k)
  <2>1. PICK k \in Job : Refuses(k)
    BY <1>7
  <2>2. Carried' = Carried /\ Closing' = Closing
    BY <1>3, <2>1 DEF Refuses, Carried, Closing
  <2>3. Refusal' = TRUE
    BY <1>3, <2>1 DEF Refuses, Refusal
  <2>4. Contract!Refuse
    BY <1>3, <1>4, <2>1, <2>2, <2>3 DEF Refuses, Contract!Refuse
  <2>5. QED
    BY <2>4 DEF Contract!Next
<1>8. CASE \E c \in Document : Closes(c)
  <2>1. PICK c \in Document : Closes(c)
    BY <1>8
  <2> DEFINE k == <<c.op, c.arg>>
  <2>2. k \notin Job
    BY <1>1, <2>1, JobItems DEF Closes, JobOps, LastOps
  <2>3. Carried' = Carried /\ Refusal' = Refusal /\ UnderWay' = UnderWay
    BY <1>3, <2>1, <2>2 DEF Closes, Carried, Refusal
  <2>4. CASE c.op = "nop" \/ done' = done
    <3>1. c.op = "nop" => k = <<"nop", 0>>
      BY <1>1, <2>1 DEF Closes, OnlySendable, Sendable
    <3>2. Closing' = Closing
      BY <1>3, <2>1, <2>4, <3>1 DEF Closes, Closing
    <3>3. QED
      BY <1>3, <1>4, <2>3, <3>2 DEF Contract!vars
  <2>5. CASE c.op \in LastOps
    <3>1. ~plan.ufs
      BY <1>1, <2>1, <2>5 DEF Closes, OnlySendable, Sendable
    <3>2. Required(c) \subseteq done
      BY <2>1 DEF Closes, OrderInv, InOrder
    <3>3. Required(c) = AllPrograms \cup AllPatches
      BY <2>5 DEF LastOps, Required
    <3>4. Carried = Job
      BY <3>1, <3>2, <3>3 DEF Carried, Job
    <3>5. Closing \subseteq Closing'
      BY <1>3, <2>1 DEF Closes, Closing
    <3>6. Contract!Close
      BY <1>3, <1>4, <2>3, <3>4, <3>5 DEF Contract!Close
    <3>7. QED
      BY <3>6 DEF Contract!Next
  <2>6. QED
    BY <2>1, <2>4, <2>5 DEF Closes
<1>9. QED
  BY <1>1, <1>5, <1>6, <1>7, <1>8, TargetMoves

LEMMA StepRefines ==
    ASSUME TypeOK, InRange, OrderInv, JobInv, [Next]_vars
    PROVE  [Contract!Next]_Contract!vars
<1>1. CASE faulted'
  <2>1. Contract!Distrust
    BY <1>1 DEF Contract!Distrust
  <2>2. QED
    BY <2>1 DEF Contract!Next
<1>2. CASE ~faulted'
  <2>0. ~faulted
    BY <1>2, FaultsGrow
  <2>1. CASE HostStep
    BY <1>2, <2>0, <2>1, HostRefines
  <2>2. CASE TargetAnswers
    BY <1>2, <2>0, <2>2, TargetRefines
  <2> DEFINE Same == UNCHANGED <<Job, Needs, Carried, Closing, Verdict>>
                     /\ Refusal' = Refusal /\ (~faulted)' = ~faulted
  <2>3. ASSUME UNCHANGED <<plan, pc, ret, done, refused>> PROVE Same
    <3>1. Job' = Job /\ Needs' = Needs
      BY <2>3, JobSame
    <3>2. QED
      BY <1>2, <2>0, <2>3, <3>1 DEF Carried, Closing, Refusal, Verdict, Ended
  <2>4. CASE TargetLog \/ Spin \/ UNCHANGED vars
    <3>1. UNCHANGED <<plan, pc, ret, done, refused, toDevice, expect, cur>>
      BY <2>4 DEF TargetLog, Spin, vars, hostVars, targetVars, link
    <3>2. Same
      BY <2>3, <3>1
    <3>3. UnderWay' = UnderWay
      BY <3>1, <3>2 DEF UnderWay, Sent
    <3>4. QED
      BY <3>2, <3>3 DEF Contract!vars
  <2>5. CASE CableOut
    <3>1. /\ UNCHANGED <<plan, pc, ret, done, refused, expect, cur>>
          /\ toDevice' = <<>>
      BY <2>5 DEF CableOut, Unplug, hostVars, targetVars
    <3>2. Same
      BY <2>3, <3>1
    <3>3. CASE ~(expect > 0)
      <4>1. UnderWay' = {}
        BY <3>1, <3>3 DEF UnderWay
      <4>2. Contract!Lose
        BY <3>2, <4>1 DEF Contract!Lose
      <4>3. QED
        BY <4>2 DEF Contract!Next
    <3>4. CASE expect > 0
      <4>1. \A i \in 1..Len(toDevice) : toDevice[i].op = "data"
        BY <2>0, <3>4 DEF JobInv, Alone, IsCommand
      <4>2. \A n : <<"data", n>> \notin Job
        BY JobItems DEF TypeOK, JobOps
      <4>3. UnderWay = {<<"program", cur>>} /\ UnderWay' = {<<"program", cur>>}
        BY <3>1, <3>4, <4>1, <4>2 DEF UnderWay, Sent
      <4>4. QED
        BY <3>2, <4>3 DEF Contract!vars
    <3>5. QED
      BY <3>3, <3>4
  <2>6. QED
    BY <2>1, <2>2, <2>4, <2>5 DEF Next
<1>3. QED
  BY <1>1, <1>2

(* Whatever the target answers, logs or fails to answer, for every plan    *)
(* and every payload size: the session is a job whose items are begun one  *)
(* after the other, each when all it needs has been carried out, none      *)
(* after a refusal, and the boot switch, the reset and a reported success  *)
(* mean all of it -- until a failed read makes qdl believe in an answer it *)
(* never got.                                                              *)
THEOREM SessionIsFlashJob == Spec => IsFlashJob
<1>1. Init => Contract!Init
  <2> SUFFICES ASSUME Init PROVE Contract!Init
    OBVIOUS
  <2>1. /\ toDevice = <<>> /\ expect = 0 /\ done = {} /\ refused = {}
        /\ pc = "wait" /\ faults = 0 /\ plan \in Plans
    BY DEF Init, LinkInit
  <2>2. UnderWay = {} /\ Carried = {} /\ Closing = {}
    BY <2>1 DEF UnderWay, Carried, Closing
  <2>3. Refusal = FALSE /\ Verdict = "running" /\ (~faulted) = TRUE
    BY <2>1 DEF Refusal, Verdict, Ended, faulted
  <2>4. Needs \in [Job -> SUBSET Job]
    BY <2>1, NeedsItems
  <2>5. QED
    BY <2>2, <2>3, <2>4 DEF Contract!Init
<1>2. TypeOK /\ InRange /\ OrderInv /\ JobInv /\ [Next]_vars
        => [Contract!Next]_Contract!vars
  BY StepRefines
<1>3. QED
  BY <1>1, <1>2, TypeCorrect, OrderInvariant, JobInvariant, PTL
     DEF Spec, IsFlashJob, Contract!Spec
=============================================================================
