--------------------------- MODULE RadioApiProofs ---------------------------
(***************************************************************************)
(* Proofs about RadioApi, for every set of calls: no command is sent to a  *)
(* busy chip; calls that are laid out and answered as the tables say reach *)
(* the chip whole, whatever earlier calls left in the buffer they share    *)
(* and in the register of the bus, stay inside that buffer, and copy each  *)
(* field from its place in what their own transfer left there.             *)
(***************************************************************************)
EXTENDS RadioApi, TLAPS

(* A transfer writes the order it sends and reads in, so what SPI_USER was  *)
(* before does not matter.                                                 *)
LEMMA Survives ==
  ASSUME NEW byte, NEW flags
  PROVE  spi_transfer32(byte, flags) = byte /\ Returned(byte, flags) = byte
<1> DEFINE now == TransferUser(flags)
<1>1. "WR_BYTE_ORDER" \notin now /\ "RD_BYTE_ORDER" \notin now
  BY DEF TransferUser, UserFlags
<1>2. /\ Placed(byte, "WR_BYTE_ORDER" \in now)[1] = byte
      /\ Placed(byte, "RD_BYTE_ORDER" \in now)[1] = byte
  BY <1>1 DEF Placed
<1> HIDE DEF now
<1>3. spi_transfer32(byte, flags) = byte
  BY <1>1, <1>2 DEF spi_transfer32, OnWire, now
<1>4. Returned(byte, flags) = byte
  BY <1>1, <1>2 DEF Returned, now
<1> QED
  BY <1>3, <1>4

(* NothingLost is inductive as it stands: CTS is remembered only of a chip  *)
(* that is ready, and forgotten with every command.                        *)
LEMMA LostStep == NothingLost /\ [Next]_vars => NothingLost'
<1> SUFFICES ASSUME NothingLost, [Next]_vars PROVE NothingLost'
  OBVIOUS
<1>1. CASE SendCmd
  <2>1. ~lost /\ chip # "busy"
    BY <1>1 DEF NothingLost, SendCmd
  <2>2. ~lost'
    BY <1>1, <2>1, Zenon DEF SendCmd
  <2>3. ~ctsWentHigh'
    BY <1>1, Zenon DEF SendCmd
  <2> QED
    BY <2>2, <2>3 DEF NothingLost
<1>2. CASE PollCTS
  <2>1. ctsWentHigh' => chip = "ready"
    BY <1>2, Survives, Zenon DEF PollCTS, CtsReturned
  <2> QED
    BY <1>2, <2>1 DEF NothingLost, PollCTS
<1>3. CASE amrHalInit \/ Exchange
  <2>1. ~ctsWentHigh' /\ lost' = lost
    BY <1>3, Zenon DEF amrHalInit, Exchange
  <2> QED
    BY <2>1 DEF NothingLost
<1>4. CASE GetResp
  <2>1. chip = "ready"
    BY <1>4, Survives, Zenon DEF GetResp, CtsReturned
  <2> QED
    BY <1>4, <2>1 DEF NothingLost, GetResp
<1>5. CASE Finish
  BY <1>5 DEF NothingLost, Finish
<1>6. CASE Copy \/ Return \/ UNCHANGED vars \/ \E c \in Calls : Begin(c)
  BY <1>6 DEF NothingLost, Copy, Return, vars, Begin, buffers
<1> QED
  BY <1>1, <1>2, <1>3, <1>4, <1>5, <1>6 DEF Next

(* No command is ever sent to a chip that executes another one             *)
(* (radio_comm_SendCmd, radio_comm_ReadData, radio_comm_WriteData).        *)
THEOREM ApiLosesNothing == Spec => []NothingLost
<1>1. Init => NothingLost
  BY DEF Init, NothingLost
<1> QED
  BY <1>1, LostStep, PTL DEF Spec

-----------------------------------------------------------------------------
(* The bytes of a call as they should be, in the buffer and then on the way. *)
FrameInv ==
  /\ phase # "idle" => LaidOut(call)
  /\ phase = "send" /\ call.via \in {"send", "ask"} =>
       \A k \in 0..Len(call.fill) : Pro2Cmd[k] = Fill(call)[k]
  /\ phase \in {"response", "copy", "use"} /\ call.via # "none" =>
       frame = [k \in 1..(1 + Len(call.fill)) |-> Fill(call)[k - 1]]

(* A frame of n bytes from a buffer that holds them. *)
LEMMA SentWhole ==
  ASSUME NEW bytes, LaidOut(call), call.via # "none",
         \A k \in 0..Len(call.fill) : bytes[k] = Fill(call)[k]
  PROVE  Sent(bytes, call.send) = [k \in 1..(1 + Len(call.fill)) |-> Fill(call)[k - 1]]
<1>1. Len(call.fill) \in Nat /\ call.send = 1 + Len(call.fill)
  BY DEF LaidOut
<1>2. \A k \in 1..(1 + Len(call.fill)) : k - 1 \in 0..Len(call.fill)
  BY <1>1
<1>3. \A flags : \A k \in 1..(1 + Len(call.fill)) :
        spi_transfer32(bytes[k - 1], flags) = Fill(call)[k - 1]
  BY <1>2, Survives
<1> QED
  BY <1>1, <1>3, Zenon DEF Sent

LEMMA FrameStep ==
  ASSUME \A c \in Calls : LaidOut(c), FrameInv, [Next]_vars
  PROVE  FrameInv'
<1>1. ASSUME NEW c \in Calls, Begin(c) PROVE FrameInv'
  <2>1. LaidOut(c) /\ call' = c
    BY <1>1 DEF Begin
  <2>2. phase' \in {"send", "use"} /\ (phase' = "use" => c.via = "none")
    BY <1>1 DEF Begin
  <2>3. ASSUME c.via \in {"send", "ask"}, NEW k \in 0..Len(c.fill)
        PROVE  Pro2Cmd'[k] = Fill(c)[k]
    <3>1. Pro2Cmd' = Over(Fill(c), Aged(Pro2Cmd))
      BY <1>1, <2>3 DEF Begin
    <3>2. DOMAIN Fill(c) = 0..Len(c.fill)
      BY DEF Fill
    <3> QED
      BY <2>3, <3>1, <3>2 DEF Over
  <2> QED
    BY <2>1, <2>2, <2>3 DEF FrameInv, Fill
<1>2. CASE SendCmd
  <2>1. /\ phase = "send" /\ LaidOut(call) /\ call.via \in {"send", "ask"}
        /\ \A k \in 0..Len(call.fill) : Pro2Cmd[k] = Fill(call)[k]
    <3>1. phase = "send" /\ call.via \in {"send", "ask"}
      BY <1>2 DEF SendCmd
    <3>2. LaidOut(call)
      BY <3>1 DEF FrameInv
    <3>3. call.via # "none"
      BY <1>2 DEF SendCmd
    <3> QED
      BY <3>1, <3>2, <3>3 DEF FrameInv, LaidOut
  <2>2. frame' = [k \in 1..(1 + Len(call.fill)) |-> Fill(call)[k - 1]]
    BY <1>2, <2>1, SentWhole DEF SendCmd
  <2>3. call' = call /\ phase' \in {"response", "use"}
    BY <1>2 DEF SendCmd
  <2> QED
    BY <2>1, <2>2, <2>3 DEF FrameInv, Fill, LaidOut
<1>3. CASE Exchange
  <2>1. phase = "send" /\ LaidOut(call) /\ call.via = "direct"
    BY <1>3 DEF FrameInv, Exchange
  <2>2. frame' = [k \in 1..(1 + Len(call.fill)) |-> Fill(call)[k - 1]]
    BY <1>3, <2>1, SentWhole DEF Exchange
  <2>3. call' = call /\ phase' \in {"copy", "use"}
    BY <1>3 DEF Exchange
  <2> QED
    BY <2>1, <2>2, <2>3 DEF FrameInv, Fill, LaidOut
<1>4. CASE PollCTS \/ amrHalInit \/ Finish \/ UNCHANGED vars
  <2>1. UNCHANGED <<call, phase, Pro2Cmd, frame>>
    BY <1>4 DEF PollCTS, amrHalInit, Finish, vars, buffers
  <2>2. (phase # "idle" => LaidOut(call))'
    BY <2>1 DEF FrameInv, LaidOut
  <2>3. (phase = "send" /\ call.via \in {"send", "ask"} =>
           \A k \in 0..Len(call.fill) : Pro2Cmd[k] = Fill(call)[k])'
    BY <2>1 DEF FrameInv, Fill
  <2>4. (phase \in {"response", "copy", "use"} /\ call.via # "none" =>
           frame = [k \in 1..(1 + Len(call.fill)) |-> Fill(call)[k - 1]])'
    BY <2>1 DEF FrameInv, Fill
  <2> QED
    BY <2>2, <2>3, <2>4 DEF FrameInv
<1>5. CASE GetResp \/ Copy \/ Return
  <2>1. /\ UNCHANGED <<call, frame>>
        /\ \/ phase \in {"response", "copy"} /\ phase' \in {"copy", "use"}
           \/ phase' = "idle"
    <3>1. CASE GetResp
      BY <3>1 DEF GetResp
    <3>2. CASE Copy
      BY <3>2 DEF Copy
    <3>3. CASE Return
      BY <3>3 DEF Return
    <3> QED
      BY <1>5, <3>1, <3>2, <3>3
  <2>2. CASE phase' = "idle"
    BY <2>2 DEF FrameInv
  <2>3. CASE phase \in {"response", "copy"} /\ phase' \in {"copy", "use"}
    <3>1. /\ LaidOut(call)
          /\ call.via # "none" =>
               frame = [k \in 1..(1 + Len(call.fill)) |-> Fill(call)[k - 1]]
      BY <2>3 DEF FrameInv
    <3>2. LaidOut(call)' /\ phase' # "send"
      BY <2>1, <2>3, <3>1 DEF LaidOut
    <3>3. (call.via # "none" =>
             frame = [k \in 1..(1 + Len(call.fill)) |-> Fill(call)[k - 1]])'
      BY <2>1, <3>1 DEF Fill
    <3> QED
      BY <3>2, <3>3 DEF FrameInv
  <2> QED
    BY <2>1, <2>2, <2>3
<1> QED
  BY <1>1, <1>2, <1>3, <1>4, <1>5 DEF Next

(* When every call is laid out as the tables of si446x_cmd.h say, the chip  *)
(* gets every command whole and nothing an earlier call left in Pro2Cmd    *)
(* (si446x_api_lib.c, radio_comm_SendCmd).                                 *)
THEOREM ApiFramesWhole == (\A c \in Calls : LaidOut(c)) => (Spec => []FramesWhole)
<1> SUFFICES ASSUME \A c \in Calls : LaidOut(c) PROVE Spec => []FramesWhole
  OBVIOUS
<1>1. Init => FrameInv
  BY DEF Init, FrameInv
<1>2. FrameInv /\ [Next]_vars => FrameInv'
  BY FrameStep
<1>3. FrameInv => FramesWhole
  <2> SUFFICES ASSUME FrameInv, phase \in {"response", "copy", "use"}, call.via # "none"
               PROVE  /\ Len(frame) = 1 + Len(call.fill) /\ frame[1] = Id(call.cmd)
                      /\ \A k \in 2..Len(frame) :
                           /\ k - 1 \in DOMAIN call.cmd.args
                           /\ frame[k] = From("arg", call.cmd.args[k - 1])
    BY DEF FramesWhole
  <2>1. /\ LaidOut(call) /\ Len(call.fill) \in Nat
        /\ frame = [k \in 1..(1 + Len(call.fill)) |-> Fill(call)[k - 1]]
    BY DEF FrameInv, LaidOut
  <2>2. Len(frame) = 1 + Len(call.fill)
    BY <2>1
  <2>3. frame[1] = Id(call.cmd)
    <3>1. frame[1] = Fill(call)[0] /\ 0 \in 0..Len(call.fill)
      BY <2>1
    <3> QED
      BY <3>1 DEF Fill
  <2>4. ASSUME NEW k \in 2..Len(frame)
        PROVE  k - 1 \in DOMAIN call.cmd.args /\ frame[k] = From("arg", call.cmd.args[k - 1])
    <3>1. k - 1 \in 1..Len(call.fill) /\ frame[k] = Fill(call)[k - 1]
      BY <2>1, <2>2
    <3>2. Fill(call)[k - 1] = From("arg", call.fill[k - 1])
      BY <2>1, <3>1 DEF Fill
    <3> QED
      BY <2>1, <3>1, <3>2 DEF LaidOut
  <2> QED
    BY <2>2, <2>3, <2>4
<1> QED
  BY <1>1, <1>2, <1>3, PTL DEF Spec

-----------------------------------------------------------------------------
(* The answer of a call, on its way from the chip to the union.            *)

(* Byte k of a call's answer has been read in this call, from its place.   *)
ReadFor(c, k, byte) ==
  k <= c.read => byte.is \in {"ones", "answer"} /\ byte.of = c.copy[k]

StructOK ==
  /\ Si446xCmd = [of |-> Si446xCmd.of, fields |-> Si446xCmd.fields,
                  bytes |-> Si446xCmd.bytes]
  /\ Len(Si446xCmd.fields) \in Nat
  /\ DOMAIN Si446xCmd.bytes = 1..Len(Si446xCmd.fields)
  /\ Len(Si446xCmd.bytes) = Len(Si446xCmd.fields)

AnswerInv ==
  /\ TypeOK /\ StructOK
  /\ phase # "idle" => call \in Calls
  /\ phase = "response" => call.via = "ask"
  /\ phase = "copy" =>
       /\ call.via \in {"ask", "direct"}
       /\ \A k \in DOMAIN call.copy : k \in 1..16 => ReadFor(call, k, Pro2Cmd[k - 1])
  /\ phase = "use" /\ call.copy # <<>> =>
       /\ Si446xCmd.of = call.cmd.id /\ Si446xCmd.fields = call.copy
       /\ DOMAIN Si446xCmd.bytes = DOMAIN call.copy
       /\ \A k \in DOMAIN call.copy : ReadFor(call, k, Si446xCmd.bytes[k])

(* A sequence by its domain. *)
LEMMA LengthOf ==
  ASSUME NEW n \in Nat, NEW s, s = [k \in 1..n |-> s[k]]
  PROVE  Len(s) = n
  OBVIOUS

(* Every flag the driver sets is one of SPI_USER. *)
LEMMA FlagFacts ==
  /\ \A u \in SUBSET UserFlags : TransferUser(u) \subseteq UserFlags
  /\ \A u \in SUBSET UserFlags : spi_mode(spi_init(u), FALSE) \subseteq UserFlags
<1>1. ASSUME NEW u \in SUBSET UserFlags PROVE TransferUser(u) \subseteq UserFlags
  BY DEF TransferUser, UserFlags
<1>2. ASSUME NEW u \in SUBSET UserFlags
      PROVE  spi_mode(spi_init(u), FALSE) \subseteq UserFlags
  <2>1. "CK_OUT_EDGE" \in UserFlags /\ "WR_BYTE_ORDER" \in UserFlags
        /\ "RD_BYTE_ORDER" \in UserFlags /\ "CS_SETUP" \in UserFlags
        /\ "CS_HOLD" \in UserFlags
    BY DEF UserFlags
  <2> QED
    BY <2>1 DEF spi_mode, spi_init, spi_rx_byte_order, spi_tx_byte_order, With
<1> QED
  BY <1>1, <1>2

(* radio_hal_SpiReadData reads the bytes of the answer into their places   *)
(* and stays inside the buffer.                                            *)
LEMMA ReadIs ==
  ASSUME NEW buffer, DOMAIN buffer = 0..15, \A k \in 0..15 : buffer[k].is \in Origins,
         NEW n \in Nat, n <= 16
  PROVE  /\ DOMAIN ReadInto(buffer, n) = 0..15
         /\ \A k \in 0..15 : ReadInto(buffer, n)[k].is \in Origins
         /\ \A k \in 1..n : /\ ReadInto(buffer, n)[k - 1].is \in {"ones", "answer"}
                            /\ k <= Len(call.cmd.reply) =>
                                 ReadInto(buffer, n)[k - 1].of = call.cmd.reply[k]
<1> DEFINE field(k) == IF k <= Len(call.cmd.reply) THEN call.cmd.reply[k] ELSE <<"", 0>>
           sent == [k \in 1..n |-> From("ones", field(k))]
           got == [k \in 1..n |-> From("answer", field(k))]
           read == spi_transfer(sent, got)
           new == ReadInto(buffer, n)
<1>1. new = [k \in DOMAIN buffer \cup 0..(n - 1) |->
               IF k < n THEN read[k + 1] ELSE buffer[k]]
  BY DEF ReadInto
<1>2. DOMAIN buffer \cup 0..(n - 1) = 0..15
  OBVIOUS
<1>3. \A k \in 1..n : read[k] = From("ones", field(k)) \/ read[k] = From("answer", field(k))
  <2>1. DOMAIN sent = 1..n
    OBVIOUS
  <2>2. \A k \in 1..n : read[k] = got[k] \/ read[k] = sent[k]
    <3> HIDE DEF sent, got
    <3> QED
      BY <2>1 DEF spi_transfer
  <2> QED
    BY <2>2
<1>4. \A k \in 1..n : read[k].is \in {"ones", "answer"} /\ read[k].of = field(k)
  <2>1. \A is, of : From(is, of).is = is /\ From(is, of).of = of
    BY DEF From
  <2> SUFFICES ASSUME NEW k \in 1..n
               PROVE  read[k].is \in {"ones", "answer"} /\ read[k].of = field(k)
    OBVIOUS
  <2>2. PICK f : f = field(k)
    OBVIOUS
  <2>3. PICK r : r = read[k]
    OBVIOUS
  <2>4. r = From("ones", f) \/ r = From("answer", f)
    BY <1>3, <2>2, <2>3
  <2>5. r.is \in {"ones", "answer"} /\ r.of = f
    BY <2>1, <2>4
  <2> QED
    BY <2>2, <2>3, <2>5
<1> HIDE DEF read
<1>5. \A k \in 0..15 : new[k] = IF k < n THEN read[k + 1] ELSE buffer[k]
  BY <1>1, <1>2
<1>6. \A k \in 1..n : new[k - 1] = read[k]
  BY <1>5
<1>7. \A k \in 0..15 : new[k].is \in Origins
  <2> SUFFICES ASSUME NEW k \in 0..15 PROVE new[k].is \in Origins
    OBVIOUS
  <2>1. CASE k < n
    <3>1. k + 1 \in 1..n
      BY <2>1
    <3> QED
      BY <1>4, <1>5, <2>1, <3>1 DEF Origins
  <2>2. CASE ~(k < n)
    BY <1>5, <2>2
  <2> QED
    BY <2>1, <2>2
<1>8. DOMAIN new = 0..15
  BY <1>1, <1>2
<1> QED
  BY <1>4, <1>6, <1>7, <1>8

(* The types of everything but the buffers. *)
PlainOK ==
  /\ call \in Calls \cup {si446x_nop}
  /\ phase \in {"idle", "send", "response", "copy", "use"}
  /\ ctsWentHigh \in BOOLEAN /\ user \subseteq UserFlags
  /\ chip \in {"ready", "busy"} /\ lost \in BOOLEAN

(* Every step keeps those types.                                            *)
LEMMA PlainStep == PlainOK /\ [Next]_vars => PlainOK'
<1> SUFFICES ASSUME PlainOK, [Next]_vars PROVE PlainOK'
  OBVIOUS
<1>1. ASSUME NEW c \in Calls, Begin(c) PROVE PlainOK'
  <2>1. phase' \in {"send", "use"}
    BY <1>1 DEF Begin
  <2> QED
    BY <1>1, <2>1, Zenon DEF PlainOK, Begin
<1>2. CASE PollCTS
  <2>1. ctsWentHigh' \in BOOLEAN
    BY <1>2, Zenon DEF PollCTS, CtsReturned
  <2> QED
    BY <1>2, <2>1, FlagFacts, Zenon DEF PlainOK, PollCTS
<1>3. CASE SendCmd
  <2>1. phase' \in {"response", "use"} /\ lost' \in BOOLEAN /\ call' = call
    <3>1. lost' \in BOOLEAN
      BY <1>3, Zenon DEF SendCmd
    <3> QED
      BY <1>3, <3>1 DEF SendCmd
  <2> QED
    BY <1>3, <2>1, FlagFacts, Zenon DEF PlainOK, SendCmd
<1>4. CASE Exchange
  <2>1. phase' \in {"copy", "use"}
    BY <1>4 DEF Exchange
  <2> QED
    BY <1>4, <2>1, FlagFacts, Zenon DEF PlainOK, Exchange
<1>5. CASE amrHalInit \/ GetResp
  BY <1>5, FlagFacts, Zenon DEF PlainOK, amrHalInit, GetResp
<1>6. CASE Copy \/ Return \/ Finish \/ UNCHANGED vars
  BY <1>6, Zenon DEF PlainOK, Copy, Return, Finish, vars, buffers
<1> QED
  BY <1>1, <1>2, <1>3, <1>4, <1>5, <1>6 DEF Next

(* The types of the buffers. *)
BuffersOK ==
  DOMAIN Pro2Cmd = 0..15 /\ (\A k \in 0..15 : Pro2Cmd[k].is \in Origins) /\ StructOK

(* Together they are the types. *)
LEMMA TypeParts == TypeOK /\ StructOK <=> PlainOK /\ BuffersOK
  BY Zenon DEF TypeOK, PlainOK, BuffersOK, StructOK

(* What a function fills in has a source.                                   *)
LEMMA FillIs ==
  ASSUME NEW c, Answered(c)
  PROVE  /\ DOMAIN Fill(c) = 0..Len(c.fill)
         /\ \A k \in 0..Len(c.fill) : Fill(c)[k].is \in Origins
<1>1. Len(c.fill) \in Nat
  BY DEF Answered
<1>2. ASSUME NEW k \in 0..Len(c.fill) PROVE Fill(c)[k].is \in Origins
  <2>1. Fill(c)[k] = Id(c.cmd) \/ Fill(c)[k] = From("arg", c.fill[k])
    BY <1>1 DEF Fill
  <2>2. \A f : From("id", f).is = "id" /\ From("arg", f).is = "arg"
    BY DEF From
  <2> QED
    BY <2>1, <2>2 DEF Id, Origins
<1> QED
  BY <1>2 DEF Fill

(* A step of a call that is answered as the tables say.                     *)
LEMMA AnswerStep ==
  ASSUME \A c \in Calls : Answered(c), AnswerInv, [Next]_vars
  PROVE  AnswerInv'
<1>0. PlainOK /\ BuffersOK /\ PlainOK'
  BY TypeParts, PlainStep DEF AnswerInv
<1>1. ASSUME phase # "idle" PROVE Answered(call)
  BY <1>1 DEF AnswerInv
<1>2. ASSUME NEW n \in Nat, n <= 16
      PROVE  /\ DOMAIN ReadInto(Pro2Cmd, n) = 0..15
             /\ \A k \in 0..15 : ReadInto(Pro2Cmd, n)[k].is \in Origins
             /\ \A k \in 1..n : /\ ReadInto(Pro2Cmd, n)[k - 1].is \in {"ones", "answer"}
                                /\ k <= Len(call.cmd.reply) =>
                                     ReadInto(Pro2Cmd, n)[k - 1].of = call.cmd.reply[k]
  BY <1>0, <1>2, ReadIs DEF BuffersOK
<1>3. ASSUME phase # "idle", call.read <= 16,
             Pro2Cmd' = ReadInto(Pro2Cmd, call.read), UNCHANGED <<call, Si446xCmd>>
      PROVE  /\ BuffersOK'
             /\ \A k \in DOMAIN call.copy : k \in 1..16 => ReadFor(call, k, Pro2Cmd'[k - 1])
  <2>1. call.read \in Nat
    BY <1>1, <1>3 DEF Answered
  <2>2. BuffersOK'
    BY <1>0, <1>2, <1>3, <2>1 DEF BuffersOK, StructOK
  <2>3. PICK n \in Nat : n = call.read /\ n <= 16
    BY <1>3, <2>1
  <2>4. \A k \in 1..n : /\ ReadInto(Pro2Cmd, n)[k - 1].is \in {"ones", "answer"}
                        /\ k <= Len(call.cmd.reply) =>
                             ReadInto(Pro2Cmd, n)[k - 1].of = call.cmd.reply[k]
    BY <1>2, <2>3
  <2>5. ASSUME NEW k \in DOMAIN call.copy, k \in 1..16, k <= call.read
        PROVE  Pro2Cmd'[k - 1].is \in {"ones", "answer"} /\ Pro2Cmd'[k - 1].of = call.copy[k]
    <3>1. k <= Len(call.cmd.reply) /\ call.copy[k] = call.cmd.reply[k]
      BY <1>1, <1>3, <2>5 DEF Answered
    <3>2. k \in 1..n
      BY <2>3, <2>5
    <3> QED
      BY <1>3, <2>3, <2>4, <3>1, <3>2
  <2> QED
    BY <2>2, <2>5 DEF ReadFor
<1>4. ASSUME UNCHANGED <<call, Pro2Cmd, Si446xCmd>>,
             \/ phase' \in {phase, "idle"}
             \/ phase = "send" /\ phase' = "response" /\ call.via = "ask"
             \/ phase = "send" /\ phase' = "use" /\ call.copy = <<>>
      PROVE  AnswerInv'
  <2>1. BuffersOK'
    BY <1>0, <1>4 DEF BuffersOK, StructOK
  <2>2. (TypeOK /\ StructOK)'
    BY <1>0, <2>1, TypeParts, PTL
  <2>3. call \in Calls \/ phase' = "idle"
    BY <1>0, <1>4 DEF AnswerInv, PlainOK
  <2> QED
    BY <1>4, <2>2, <2>3 DEF AnswerInv, ReadFor
<1>5. ASSUME phase # "idle", phase' = "copy", call.via \in {"ask", "direct"},
             call.read <= 16, Pro2Cmd' = ReadInto(Pro2Cmd, call.read),
             UNCHANGED <<call, Si446xCmd>>
      PROVE  AnswerInv'
  <2>1. BuffersOK'
    BY <1>3, <1>5
  <2>2. \A k \in DOMAIN call.copy : k \in 1..16 => ReadFor(call, k, Pro2Cmd'[k - 1])
    BY <1>3, <1>5
  <2>3. (TypeOK /\ StructOK)'
    BY <1>0, <2>1, TypeParts, PTL
  <2>4. call \in Calls
    BY <1>5 DEF AnswerInv
  <2> QED
    BY <1>5, <2>2, <2>3, <2>4 DEF AnswerInv, ReadFor
<1>6. ASSUME NEW c \in Calls, Begin(c) PROVE AnswerInv'
  <2>1. Answered(c) /\ call' = c
    BY <1>6 DEF Begin
  <2>2. phase' = "send" \/ (phase' = "use" /\ c.copy = <<>>)
    BY <1>6, <2>1 DEF Begin, Answered
  <2>3. DOMAIN Aged(Pro2Cmd) = 0..15 /\ \A k \in 0..15 : Aged(Pro2Cmd)[k].is \in Origins
    BY <1>0 DEF BuffersOK, Aged, Old, From, Origins
  <2>4. DOMAIN Pro2Cmd' = 0..15 /\ \A k \in 0..15 : Pro2Cmd'[k].is \in Origins
    <3>1. CASE c.via \in {"send", "ask"}
      <4>1. Pro2Cmd' = Over(Fill(c), Aged(Pro2Cmd))
        BY <1>6, <3>1 DEF Begin
      <4>2. Len(c.fill) \in Nat /\ Len(c.fill) <= 15
        BY <2>1, <3>1 DEF Answered
      <4>3. DOMAIN Fill(c) = 0..Len(c.fill) /\ DOMAIN Fill(c) \subseteq 0..15
            /\ \A k \in DOMAIN Fill(c) : Fill(c)[k].is \in Origins
        BY <2>1, <4>2, FillIs
      <4>4. DOMAIN Aged(Pro2Cmd) \cup DOMAIN Fill(c) = 0..15
        BY <2>3, <4>3
      <4> QED
        BY <2>3, <4>1, <4>3, <4>4, Zenon DEF Over
    <3>2. CASE c.via \notin {"send", "ask"}
      <4>1. Pro2Cmd' = Over(<<>>, Aged(Pro2Cmd)) /\ DOMAIN <<>> = {}
        BY <1>6, <3>2 DEF Begin
      <4> QED
        BY <2>3, <4>1, Zenon DEF Over
    <3> QED
      BY <3>1, <3>2
  <2>5. StructOK'
    <3> DEFINE B == Si446xCmd.bytes
               n == Len(Si446xCmd.fields)
    <3>1. n \in Nat /\ DOMAIN B = 1..n
      BY <1>0 DEF BuffersOK, StructOK
    <3>2. Aged(B) = [k \in 1..n |-> Old]
      BY <3>1 DEF Aged
    <3>3. DOMAIN Aged(B) = 1..n /\ Len(Aged(B)) = n
      BY <3>1, <3>2
    <3>4. Si446xCmd' = [of |-> Si446xCmd.of, fields |-> Si446xCmd.fields, bytes |-> Aged(B)]
      BY <1>0, <1>6 DEF Begin, BuffersOK, StructOK
    <3>5. Si446xCmd'.of = Si446xCmd.of /\ Si446xCmd'.fields = Si446xCmd.fields
          /\ Si446xCmd'.bytes = Aged(B)
      BY <3>4
    <3> QED
      BY <3>1, <3>3, <3>4, <3>5 DEF StructOK
  <2>6. (TypeOK /\ StructOK)'
    <3>1. BuffersOK'
      BY <2>4, <2>5 DEF BuffersOK
    <3> QED
      BY <1>0, <3>1, TypeParts, PTL
  <2> QED
    BY <2>1, <2>2, <2>6 DEF AnswerInv
<1>7. CASE SendCmd
  <2>1. phase = "send" /\ UNCHANGED <<call, Pro2Cmd, Si446xCmd>>
        /\ call.via \in {"send", "ask"}
        /\ phase' = IF call.via = "ask" THEN "response" ELSE "use"
    BY <1>7 DEF SendCmd, buffers
  <2>2. call.via = "send" => call.copy = <<>>
    BY <1>1, <2>1 DEF Answered
  <2> QED
    BY <1>4, <2>1, <2>2
<1>8. CASE Exchange
  <2>1. phase = "send" /\ call.via = "direct" /\ UNCHANGED <<call, Si446xCmd>>
        /\ Pro2Cmd' = (IF call.copy = <<>> THEN Pro2Cmd ELSE ReadInto(Pro2Cmd, call.read))
        /\ phase' = IF call.copy = <<>> THEN "use" ELSE "copy"
    BY <1>8 DEF Exchange
  <2>2. CASE call.copy = <<>>
    BY <1>4, <2>1, <2>2
  <2>3. CASE call.copy # <<>>
    <3>1. call.read <= 16
      BY <1>1, <2>1, <2>3 DEF Answered
    <3> QED
      BY <1>5, <2>1, <2>3, <3>1
  <2> QED
    BY <2>2, <2>3
<1>9. CASE GetResp
  <2>1. phase = "response" /\ phase' = "copy" /\ UNCHANGED <<call, Si446xCmd>>
        /\ Pro2Cmd' = ReadInto(Pro2Cmd, call.read)
    BY <1>9 DEF GetResp
  <2>2. call.via = "ask" /\ call.read <= 16
    BY <1>1, <2>1 DEF Answered, AnswerInv
  <2> QED
    BY <1>5, <2>1, <2>2
<1>10. CASE Copy
  <2> DEFINE B == [k \in DOMAIN call.copy |-> Pro2Cmd[k - 1]]
  <2>1. phase = "copy" /\ phase' = "use" /\ UNCHANGED <<call, Pro2Cmd>>
        /\ Si446xCmd' = [of |-> call.cmd.id, fields |-> call.copy, bytes |-> B]
    BY <1>10 DEF Copy
  <2>2. Answered(call) /\ call \in Calls
    BY <1>1, <2>1 DEF AnswerInv
  <2>3. /\ call.copy # <<>> => Len(call.copy) \in Nat
        /\ Len(call.copy) \in Nat /\ DOMAIN call.copy = 1..Len(call.copy)
    BY <2>2 DEF Answered
  <2>4. DOMAIN B = 1..Len(call.copy) /\ Len(B) = Len(call.copy)
    BY <2>3
  <2>5. ASSUME NEW k \in DOMAIN call.copy PROVE ReadFor(call, k, B[k])
    <3>1. B[k] = Pro2Cmd[k - 1] /\ k \in Nat /\ k > 0
      BY <2>3
    <3>2. call.read \in Nat /\ call.read <= 16
      BY <2>1, <2>2 DEF Answered, AnswerInv
    <3>3. k <= call.read => k \in 1..16
      BY <3>1, <3>2
    <3> QED
      BY <2>1, <3>1, <3>3 DEF AnswerInv, ReadFor
  <2>6. Si446xCmd'.of = call.cmd.id /\ Si446xCmd'.fields = call.copy /\ Si446xCmd'.bytes = B
    BY <2>1
  <2> HIDE DEF B
  <2>7. StructOK'
    BY <2>1, <2>3, <2>4, <2>6 DEF StructOK
  <2>8. (TypeOK /\ StructOK)'
    <3>1. BuffersOK'
      BY <1>0, <2>1, <2>7 DEF BuffersOK
    <3> QED
      BY <1>0, <3>1, TypeParts, PTL
  <2> QED
    BY <2>1, <2>2, <2>3, <2>4, <2>5, <2>6, <2>8 DEF AnswerInv, ReadFor
<1>11. CASE PollCTS \/ amrHalInit \/ Finish \/ Return \/ UNCHANGED vars
  <2>1. UNCHANGED <<call, Pro2Cmd, Si446xCmd>> /\ phase' \in {phase, "idle"}
    BY <1>11, Zenon DEF PollCTS, amrHalInit, Finish, Return, vars, buffers
  <2> QED
    BY <1>4, <2>1
<1> QED
  BY <1>6, <1>7, <1>8, <1>9, <1>10, <1>11 DEF Next

(* Before the first call.                                                   *)
LEMMA AnswerInit == Init => AnswerInv
<1> SUFFICES ASSUME Init PROVE AnswerInv
  OBVIOUS
<1>1. PlainOK
  BY FlagFacts DEF Init, PlainOK
<1>2. BuffersOK
  <2>1. Pro2Cmd = [k \in 0..15 |-> Old] /\ Old.is \in Origins
    BY DEF Init, Old, From, Origins
  <2>2. Si446xCmd = [of |-> NOP.id, fields |-> <<>>, bytes |-> <<>>]
    BY DEF Init
  <2>3. Si446xCmd.of = NOP.id /\ Si446xCmd.fields = <<>> /\ Si446xCmd.bytes = <<>>
    BY <2>2
  <2>4. Len(<<>>) = 0 /\ DOMAIN <<>> = 1..0
    OBVIOUS
  <2>5. StructOK
    BY <2>2, <2>3, <2>4, Zenon DEF StructOK
  <2> QED
    BY <2>1, <2>5 DEF BuffersOK
<1> QED
  BY <1>1, <1>2, TypeParts DEF Init, AnswerInv

(* For every set of calls answered as the tables of si446x_cmd.h say ...     *)
LEMMA ApiAnswers == (\A c \in Calls : Answered(c)) => (Spec => []AnswerInv)
<1> SUFFICES ASSUME \A c \in Calls : Answered(c) PROVE Spec => []AnswerInv
  OBVIOUS
<1>1. AnswerInv /\ [Next]_vars => AnswerInv'
  BY AnswerStep
<1> QED
  BY AnswerInit, <1>1, PTL DEF Spec

(* ... no function of si446x_api_lib.c writes beyond Pro2Cmd               *)
THEOREM ApiTypes == (\A c \in Calls : Answered(c)) => (Spec => []TypeOK)
<1>1. AnswerInv => TypeOK
  BY DEF AnswerInv
<1> QED
  BY <1>1, ApiAnswers, PTL

(* and every field of the union a function fills in comes from the place    *)
(* si446x_cmd.h has for it in what this call's own transfer left, the      *)
(* answer or the ones that were preset, and never from an earlier call.    *)
THEOREM ApiFieldsFresh == (\A c \in Calls : Answered(c)) => (Spec => []FieldsFresh)
<1>1. AnswerInv => FieldsFresh
  <2> SUFFICES ASSUME AnswerInv, phase = "use", call.copy # <<>>
               PROVE  /\ Si446xCmd.of = call.cmd.id
                      /\ \A k \in DOMAIN call.copy : k <= call.read =>
                           /\ Si446xCmd.bytes[k].is \in {"ones", "answer"}
                           /\ Si446xCmd.bytes[k].of = Si446xCmd.fields[k]
    BY DEF FieldsFresh
  <2> QED
    BY DEF AnswerInv, ReadFor
<1> QED
  BY <1>1, ApiAnswers, PTL

=============================================================================
