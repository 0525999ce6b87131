------------------------------ MODULE AmrLoop ------------------------------
(***************************************************************************)
(* The consumer of amr.c, amrProcessMsgs, on the message ring: peek at the *)
(* oldest message, shift it to a byte boundary where it lies in the ring,  *)
(* parse it, pop it.  The interrupt handler pushes between any two steps,  *)
(* also between two bytes of the shift.                                    *)
(*                                                                         *)
(* A message is HdrSize bytes of header, whose last one is the bit offset, *)
(* then the message proper and one byte more.  RingBuf gives all of them   *)
(* the value of the tag; its last three bits are the bit offset here.      *)
(*                                                                         *)
(* The application calls amrProcessMsgs again and again: a call that finds *)
(* no message returns and the next one starts over, which is one state.    *)
(* Between two calls it may turn the handler off and on, or initialize     *)
(* everything anew: amrInit replaces the ring field by field while the     *)
(* handler may still push, for amrHalInit turns it off only later.         *)
(***************************************************************************)
EXTENDS RingBuf

CONSTANTS HdrSize,     \* sizeof(AmrMsgHeader)
          Valid        \* tags of messages whose checksum is right

ASSUME HdrAssumption == HdrSize \in Nat \ {0} /\ \A s \in Sizes : s > HdrSize
ASSUME ValidAssumption == Valid \subseteq Tags

VARIABLES loop,        \* where amrProcessMsgs is
          byteAt,      \* index of the byte to shift next
          parsed,      \* the message proper as the parser read it
          calls,       \* history: callbacks made for the oldest message
          intr,        \* interrupts are enabled
          fields       \* fields of msgRing that amrInit has still to assign

app == <<intr, fields>>
loopVars == <<loop, byteAt, parsed, calls>>
allVars == <<vars, loopVars, app>>

Nothing == [len |-> 0, bytes |-> {}]

(* Once amrInit has returned for the first time. *)
LoopInit ==
  /\ Init
  /\ loop = "peek" /\ byteAt = 0 /\ parsed = Nothing /\ calls = 0
  /\ intr = TRUE /\ fields = {}

-----------------------------------------------------------------------------

(* Address of the message proper in the ring, and its length. *)
msgData == view.at + SizeofPos + HdrSize
msgSize == view.size - HdrSize - 1
bitOffset(byte) == byte % 8

(* ringPeek; a message no longer than its header ends the call.            *)
Peek ==
  /\ loop = "peek"
  /\ ringPeek
  /\ loop' = IF pc' = "ready" /\ out'.len > HdrSize
               THEN IF bitOffset(data[msgData' - 1]) # 0 THEN "shift" ELSE "parse"
               ELSE "peek"
  /\ UNCHANGED <<byteAt, parsed, calls>>

(* Slip: the bits of the next byte are lost. *)
ShiftedAlone(byte, nextByte, n) == (byte * 2^n) % ByteRange

(* A byte moved left by n bits and filled from the next one.               *)
Shifted(byte, nextByte, n) ==
  ((byte * 2^n) % ByteRange) + (nextByte \div 2^(8 - n))

(* Slip: the loop counts the header in.                                    *)
ShiftEndHeader == view.size

ShiftEnd == msgSize

ShiftByte ==
  /\ loop = "shift" /\ byteAt < ShiftEnd
  /\ LET a == msgData + byteAt
     IN  data' = [data EXCEPT ![a] =
                    Shifted(data[a], data[a + 1], bitOffset(data[msgData - 1]))]
  /\ byteAt' = (byteAt + 1) % ByteRange
  /\ UNCHANGED <<head, tail, overflow, pc, locals, view, out, history,
                 loop, parsed, calls>>

(* Slip: the index is not started anew for the next message.                *)
ShiftDoneKeepsIndex ==
  /\ loop = "shift" /\ byteAt >= ShiftEnd
  /\ loop' = "parse"
  /\ UNCHANGED <<vars, byteAt, parsed, calls>>

ShiftDone ==
  /\ loop = "shift" /\ byteAt >= ShiftEnd
  /\ loop' = "parse" /\ byteAt' = 0
  /\ UNCHANGED <<vars, parsed, calls>>

(* What the bytes of an intact message of this tag are once straight: eight *)
(* bits of the tag repeated, starting at its bit offset.                    *)
Straight(tag) ==
  ((tag * ByteRange + tag) \div 2^(8 - bitOffset(tag))) % ByteRange

(* Messages with the same bytes have the same checksum.                     *)
ASSUME ChecksumAssumption ==
  \A t \in Valid, u \in Tags : Straight(t) = Straight(u) => u \in Valid

(* The checksum over the bytes the parser reads. *)
ChecksumOk(bs) == \E t \in Valid : bs = {Straight(t)}

(* Slip: a message with a bad checksum is not popped. *)
ParseKeepsBad ==
  /\ loop = "parse"
  /\ LET bs == PayloadAt(data, msgData - SizeofPos, msgSize)
     IN  /\ parsed' = [len |-> msgSize, bytes |-> bs]
         /\ calls' = IF ChecksumOk(bs) THEN calls + 1 ELSE calls
         /\ loop' = IF ChecksumOk(bs) THEN "pop" ELSE "peek"
  /\ UNCHANGED <<vars, byteAt>>

(* parseSCMMsg, parseSCMPlusMsg or parseIDMMsg: the application's callback  *)
(* runs when the checksum is right, and the message is popped either way.   *)
Parse ==
  /\ loop = "parse"
  /\ LET bs == PayloadAt(data, msgData - SizeofPos, msgSize)
     IN  /\ parsed' = [len |-> msgSize, bytes |-> bs]
         /\ calls' = IF ChecksumOk(bs) THEN calls + 1 ELSE calls
  /\ loop' = "pop"
  /\ UNCHANGED <<vars, byteAt>>

(* ringPop(&msgRing, NULL, 0), step by step, then the next message.         *)
Pop ==
  /\ loop = "pop"
  /\ PopEmpty \/ PopCheck(0) \/ PopLoad \/ PopWrap \/ PopCopy \/ PopAdvance
  /\ IF pc' = "ready"
       THEN loop' = "peek" /\ parsed' = Nothing /\ calls' = 0
       ELSE UNCHANGED <<loop, parsed, calls>>
  /\ UNCHANGED byteAt

amrProcessMsgs ==
  (Peek \/ ShiftByte \/ ShiftDone \/ Parse \/ Pop) /\ UNCHANGED app

HandlerPushes(s, t) ==
  /\ intr
  /\ ringPush(s, t)
  /\ UNCHANGED <<loopVars, app>>

Handler == \E s \in Sizes, t \in Tags : HandlerPushes(s, t)

-----------------------------------------------------------------------------
(* The application, between two calls of amrProcessMsgs.                    *)

BetweenCalls == loop = "peek" /\ pc = "ready"

amrEnable ==
  /\ BetweenCalls
  /\ intr' \in BOOLEAN
  /\ UNCHANGED <<vars, loopVars, fields>>

(* amrInit: ringInit clears the buffer.  What the handler does in between   *)
(* goes to elements the next step forgets.                                  *)
ClearBuffer ==
  /\ BetweenCalls
  /\ data' = [a \in Addr |-> 0] /\ view' = NoView
  /\ loop' = "initRing" /\ fields' = {"head", "tail", "overflow"}
  /\ UNCHANGED <<head, tail, overflow, pc, locals, out, history, byteAt, parsed, calls,
                 intr>>

(* The assignment of the struct, in the order the compiler likes: with the  *)
(* head the messages of the old ring are gone, with the overflow count the  *)
(* drops nobody has asked about.                                            *)
AssignField(f) ==
  /\ loop = "initRing" /\ f \in fields
  /\ fields' = fields \ {f}
  /\ head' = IF f = "head" THEN 0 ELSE head
  /\ tail' = IF f = "tail" THEN 0 ELSE tail
  /\ overflow' = IF f = "overflow" THEN 0 ELSE overflow
  /\ queue' = IF f = "head" THEN <<>> ELSE queue
  /\ unreported' = IF f = "overflow" THEN 0 ELSE unreported
  /\ loop' = IF fields' = {} THEN "initHal" ELSE loop
  /\ UNCHANGED <<data, pc, locals, view, out, byteAt, parsed, calls, intr>>

(* amrHalInit turns interrupts off, brings the radio up, turns them on.     *)
IntrOff ==
  /\ loop = "initHal"
  /\ loop' = "initRadio" /\ intr' = FALSE
  /\ UNCHANGED <<vars, byteAt, parsed, calls, fields>>

RadioUp ==
  /\ loop = "initRadio"
  /\ loop' = "peek" /\ intr' = TRUE
  /\ UNCHANGED <<vars, byteAt, parsed, calls, fields>>

amrInit == (\E f \in fields : AssignField(f)) \/ IntrOff

LoopNext ==
  amrProcessMsgs \/ Handler \/ amrEnable \/ ClearBuffer \/ amrInit \/ RadioUp

(* The main loop runs whenever no interrupt is being served, and between    *)
(* two bits of the radio there is time for it.  Whether the radio comes up  *)
(* is up to the chip (RadioBoot).                                           *)
LoopSpec ==
  /\ LoopInit /\ [][LoopNext]_allVars
  /\ WF_allVars(amrProcessMsgs) /\ WF_allVars(amrInit)

(* The loop up to the first exact fit of its ring (RingBuf): from then on   *)
(* messages that wait are overwritten, or lost because the ring looks empty.*)
FitHandler == \E s \in Sizes, t \in Tags : ~ExactFit(s) /\ HandlerPushes(s, t)

FitLoopNext ==
  amrProcessMsgs \/ FitHandler \/ amrEnable \/ ClearBuffer \/ amrInit \/ RadioUp

FitLoopSpec ==
  /\ LoopInit /\ [][FitLoopNext]_allVars
  /\ WF_allVars(amrProcessMsgs) /\ WF_allVars(amrInit)

-----------------------------------------------------------------------------
(* The types of the variables; the index of the shift never wraps.         *)
LoopTypeOK ==
  /\ TypeOK
  /\ loop \in {"peek", "shift", "parse", "pop", "initRing", "initHal", "initRadio"}
  /\ intr \in BOOLEAN /\ fields \subseteq {"head", "tail", "overflow"}
  /\ loop # "shift" => byteAt = 0
  /\ loop = "shift" => byteAt \in 0..msgSize
  /\ parsed \in [len : Pos, bytes : SUBSET Byte]
  /\ calls \in 0..1

(* Shifting a message in place, while the handler pushes, touches nothing  *)
(* but that message: its size field still leads to the next one, and every *)
(* other message is intact (the shift of amrProcessMsgs against ringPush). *)
(* The same holds as soon as amrInit has replaced the ring, of what the    *)
(* handler pushed while it did.  All of it up to the first exact fit.      *)
OthersIntact == loop # "initRing" =>
  /\ FramesLinked /\ FramesOrdered
  /\ \A k \in 2..Len(queue) : Stored(data, queue[k])
  /\ queue # <<>> => queue[1].size \in SizesAt(data, queue[1].at)

(* The parser reads the oldest message, shifted exactly once and whole,    *)
(* and the callback has run once for it exactly if it is valid: a message  *)
(* is handed over exactly once, as long as no push was an exact fit        *)
(* (amrProcessMsgs and ringPop).                                           *)
ParsedRight ==
  loop = "pop" =>
    /\ queue # <<>>
    /\ parsed.len = queue[1].size - HdrSize - 1
    /\ parsed.bytes = {Straight(queue[1].tag) : k \in 1..parsed.len}
    /\ calls = IF queue[1].tag \in Valid /\ parsed.len > 0 THEN 1 ELSE 0

(* However fast messages arrive, and valid or not, the oldest one is       *)
(* eventually popped: no message wedges the ring (amrProcessMsgs), unless  *)
(* the application brings up the radio again.  With an exact fit the ring  *)
(* may look empty with messages in it, and they stay there.                *)
KeepsDraining == queue # <<>> ~> (pc = "popAdvance" \/ loop = "initRadio")

=============================================================================
