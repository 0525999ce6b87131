----------------------------- MODULE RxDecoder -----------------------------
(***************************************************************************)
(* The bit decoder of amr.c, amrProcessRxBit: one call per bit the radio   *)
(* clocks out, inlined in the interrupt handler.                           *)
(*                                                                         *)
(* A bit of a message is sent as two half bits, and the receiver does not  *)
(* know which half it is looking at: the decoder keeps two buffers, one    *)
(* per alignment, and writes to them in turn.  Each is a circular buffer   *)
(* as long as the longest message, kept twice in a row so that a window    *)
(* over it never wraps.                                                    *)
(*                                                                         *)
(* The buffers are arrays of bits here; a byte is ByteBits of them, first  *)
(* bit first.  A message that is recognised gets its header written right  *)
(* before it, in the buffer, over whatever is there.  Each buffer starts   *)
(* with some room for the header of a window at its start; nothing else is *)
(* ever read from there and it is left out: cell 0 is the first after it.  *)
(*                                                                         *)
(* hist, gone and since are history variables: the bits decoded in each    *)
(* alignment, the one before them, which the circle has no room for any    *)
(* more, and how many bits were decoded since the last message of a type.  *)
(***************************************************************************)
EXTENDS Integers, Sequences

CONSTANTS ByteBits,                    \* 8
          HdrSize, TypeSize,           \* sizeof(AmrMsgHeader), of its type field
          ScmSize, ScmPlusSize,        \* AMR_MSG_SCM_RAW_SIZE, ..._PLUS_RAW_SIZE
          IdmSize,                     \* AMR_MSG_IDM_RAW_SIZE, AMR_MAX_MSG_SIZE
          ScmPre, ScmPlusPre, IdmPre   \* preambles, as sequences of bits

(* A window with its header is shorter than the circle, and the values a    *)
(* header holds fit in a byte.                                              *)
ASSUME SizesFit ==
  /\ {ByteBits, HdrSize, TypeSize, ScmSize, ScmPlusSize, IdmSize} \subseteq Nat
  /\ HdrSize + ScmSize < IdmSize /\ HdrSize + ScmPlusSize <= IdmSize
  /\ TypeSize \in 1..(HdrSize - 1) /\ ByteBits >= 2

Bit == 0..1
Buffers == 0..1

(* Sizes and places in bits. *)
HdrBits == HdrSize * ByteBits
Circle == IdmSize * ByteBits                \* AMR_MAX_MSG_SIZE * 8
Cell == 0..(2 * Circle - 1)                 \* RX_BUF_SIZE * 8, less the room

AMR_MSG_TYPE == [scm |-> 0, scmPlus |-> 1, idm |-> 2]
Types == DOMAIN AMR_MSG_TYPE
MsgBits == [scm |-> ScmSize * ByteBits, scmPlus |-> ScmPlusSize * ByteBits,
            idm |-> IdmSize * ByteBits]

VARIABLES rxBuf,         \* the bits of the two buffers
          active,        \* which of them rxBuf points to
          rxBufHeadBit,
          prevRxBit,
          pushed,        \* what the last call pushed onto the message ring
          hist,          \* history: the last Circle bits decoded for each buffer
          gone,          \* history: the bit decoded before those
          since          \* history: bits decoded since each type was recognised

vars == <<rxBuf, active, rxBufHeadBit, prevRxBit, pushed, hist, gone, since>>

LongAgo == [t \in Types |-> Circle]

Init ==
  /\ rxBuf = [b \in Buffers |-> [c \in Cell |-> 0]]
  /\ active = 0
  /\ rxBufHeadBit = 0
  /\ prevRxBit = 0
  /\ pushed = [type |-> "none", bits |-> <<>>, since |-> LongAgo]
  /\ hist = [b \in Buffers |-> [i \in 1..Circle |-> 0]]
  /\ gone = [b \in Buffers |-> 0]
  /\ since = [b \in Buffers |-> LongAgo]

-----------------------------------------------------------------------------

(* The Manchester code: 10 is a one, anything else a zero. *)
manchBit(prev, cur) == IF prev = 1 /\ cur = 0 THEN 1 ELSE 0

ByteOf(c) == c - (c % ByteBits)             \* first bit of the byte c is in

(* Slip: the second copy is not kept. *)
WriteBitOnce(mem, c, v) == [mem EXCEPT ![c] = v]

(* A bit is written in the first copy, then its whole byte in the second. *)
WriteBit(mem, c, v) ==
  LET once == [mem EXCEPT ![c] = v]
      copy == ByteOf(c) + Circle
  IN  [d \in Cell |-> IF d \in copy..(copy + ByteBits - 1)
                        THEN once[d - Circle] ELSE once[d]]

(* Where the byte-aligned window of each type starts when the bit written   *)
(* last is at c.  The longest window starts at the first copy of that byte; *)
(* an SCM+ is looked for at the same place, so that the one in the preamble *)
(* of an IDM is found after it.                                             *)
DataOf(type, c) ==
  IF type = "scm" THEN ByteOf(c) + Circle - ScmSize * ByteBits ELSE ByteOf(c)

StartsWith(mem, c, pre) == \A i \in 1..Len(pre) : mem[c + i - 1] = pre[i]

Preamble == [scm |-> ScmPre, scmPlus |-> ScmPlusPre, idm |-> IdmPre]

(* A preamble is part of its message and does not look like silence.       *)
ASSUME PreamblesFit ==
  \A type \in Types :
    /\ Preamble[type] \in Seq(Bit) /\ Len(Preamble[type]) <= MsgBits[type]
    /\ \E i \in DOMAIN Preamble[type] : Preamble[type][i] = 1

(* The preamble of a type is at the start of its window. *)
Found(mem, type, c) ==
  StartsWith(mem, DataOf(type, c) + (c % ByteBits), Preamble[type])

(* The type of message found: an SCM, else an IDM, else an SCM+.            *)
Recognised(mem, c) ==
  IF Found(mem, "scm", c) THEN "scm"
  ELSE IF Found(mem, "idm", c) THEN "idm"
  ELSE IF Found(mem, "scmPlus", c) THEN "scmPlus"
  ELSE "none"

(* Bit j of a byte of value v. *)
BitOf(v, j) == (v \div 2^(ByteBits - 1 - j)) % 2

(* The header is written before the window, its timestamp left as it is:    *)
(* the type, low byte first, and the bit offset in the last byte.           *)
WriteHeader(mem, type, c) ==
  LET data == DataOf(type, c)
      hdr  == data - HdrBits
  IN  [d \in Cell |->
         IF d \in hdr..(hdr + ByteBits - 1)
           THEN BitOf(AMR_MSG_TYPE[type], d - hdr)
         ELSE IF d \in (hdr + ByteBits)..(hdr + TypeSize * ByteBits - 1)
           THEN 0
         ELSE IF d \in (data - ByteBits)..(data - 1)
           THEN BitOf(c % ByteBits, d - (data - ByteBits))
         ELSE mem[d]]

(* Slip: the window taken one bit late. *)
AlignedLate(mem, type, c) ==
  [i \in 1..MsgBits[type] |-> mem[DataOf(type, c) + (c % ByteBits) + i]]

(* The message pushed, as amrProcessMsgs aligns it: the window and the byte *)
(* after it, shifted by the bit offset.                                     *)
Aligned(mem, type, c) ==
  [i \in 1..MsgBits[type] |-> mem[DataOf(type, c) + (c % ByteBits) + i - 1]]

-----------------------------------------------------------------------------

Smaller(a, b) == IF a < b THEN a ELSE b

(* One call of the decoder, on buffer b with the bit written to cell c.     *)
Decode(b, c, mem, bit) ==
  LET type == Recognised(mem, c)
  IN  /\ IF type = "none"
           THEN /\ rxBuf' = [rxBuf EXCEPT ![b] = mem]
                /\ pushed' = [type |-> "none", bits |-> <<>>, since |-> since[b]]
           ELSE LET headed == WriteHeader(mem, type, c)
                IN  /\ rxBuf' = [rxBuf EXCEPT ![b] = headed]
                    /\ pushed' = [type |-> type, bits |-> Aligned(headed, type, c),
                                  since |-> since[b]]
      /\ since' = [since EXCEPT ![b] =
                     [t \in Types |-> IF t = type THEN 0 ELSE Smaller(@[t] + 1, Circle)]]
      /\ hist' = [hist EXCEPT ![b] = Append(Tail(@), bit)]
      /\ gone' = [gone EXCEPT ![b] = hist[b][1]]

(* Slip: the head runs one bit past the end of the circle. *)
NextHeadOver(h) == (h + 1) % (Circle + 1)

NextHead(h) == (h + 1) % Circle

(* The head moves on once both buffers have had their bit. *)
amrProcessRxBit(rxBit) ==
  LET b   == 1 - active
      c   == rxBufHeadBit
      bit == manchBit(prevRxBit, rxBit)
  IN  /\ active' = b
      /\ Decode(b, c, WriteBit(rxBuf[b], c, bit), bit)
      /\ prevRxBit' = rxBit
      /\ rxBufHeadBit' = IF b = 1 THEN NextHead(rxBufHeadBit) ELSE rxBufHeadBit

Next == \E rxBit \in Bit : amrProcessRxBit(rxBit)

Spec == Init /\ [][Next]_vars

-----------------------------------------------------------------------------
(* The types of the variables: every write stays inside its buffer.        *)
TypeOK ==
  /\ rxBuf \in [Buffers -> [Cell -> Bit]]
  /\ active \in Buffers
  /\ rxBufHeadBit \in 0..(Circle - 1)
  /\ prevRxBit \in Bit
  /\ pushed.type \in Types \cup {"none"}
  /\ \A b \in Buffers : DOMAIN hist[b] = 1..Circle
  /\ gone \in [Buffers -> Bit]
  /\ since \in [Buffers -> [Types -> 0..Circle]]

(* The bits decoded for buffer b that would be a message of each type, in   *)
(* the order received: an SCM ends one bit before the newest, the others    *)
(* began a whole circle before it.                                          *)
Received(type, b) ==
  IF type = "scm"
    THEN SubSeq(hist[b], Circle - MsgBits["scm"], Circle - 1)
    ELSE <<gone[b]>> \o SubSeq(hist[b], 1, MsgBits[type] - 1)

(* The newest bit has overwritten the first one of the long window, and is  *)
(* the same.                                                                *)
FirstBitKept(b) == hist[b][Circle] = gone[b]

Begins(seq, pre) == \A i \in 1..Len(pre) : seq[i] = pre[i]
Sent(type, b) == Begins(Received(type, b), Preamble[type])

(* No message was recognised in this alignment in the last n bits. *)
Quiet(types, n) == \A t \in types : pushed.since[t] >= n

(* A message on the air alone (nothing was recognised in its alignment      *)
(* since its first bit), in either alignment and at any bit offset: an SCM  *)
(* is pushed exactly when one was received.  The window of an IDM or SCM+   *)
(* is a whole circle, and the newest bit stands where its first bit was:    *)
(* they are pushed exactly when received if these two bits are the same.    *)
(* What is pushed are the bits received, but for that first one.            *)
AloneIsExact ==
  LET b == active
      type == pushed.type
  IN  Quiet(Types, Circle - 1) =>
        /\ type = "scm" <=> Sent("scm", b)
        /\ FirstBitKept(b) =>
             type = IF Sent("scm", b) THEN "scm"
                    ELSE IF Sent("idm", b) THEN "idm"
                    ELSE IF Sent("scmPlus", b) THEN "scmPlus" ELSE "none"
        /\ type # "none" =>
             \A i \in 1..MsgBits[type] :
               i > 1 \/ type = "scm" \/ FirstBitKept(b) =>
                 pushed.bits[i] = Received(type, b)[i]

(* An SCM is intact even right after other SCMs: the header of one never    *)
(* lands in the next.                                                       *)
ScmAfterScm ==
  (pushed.type = "scm" \/ Sent("scm", active))
    /\ Quiet({"scmPlus", "idm"}, MsgBits["scm"] - 1)
  => pushed.type = "scm" /\ pushed.bits = Received("scm", active)

(* After every IDM an SCM+ preamble, the second half of its own, is found   *)
(* as many bits later as it stands behind the start of the IDM (16).        *)
PlusAfterIdm ==
  pushed.since["idm"] = Len(IdmPre) - Len(ScmPlusPre) - 1 => pushed.type = "scmPlus"

=============================================================================
