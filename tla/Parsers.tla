------------------------------ MODULE Parsers ------------------------------
(***************************************************************************)
(* What amr.c does with a message that has been shifted to a byte          *)
(* boundary: check its checksum, take its fields apart into the static     *)
(* struct of its type, call the application.                               *)
(*                                                                         *)
(* A number is the set of its one bits, by weight: 5 is {0, 2}.  A message *)
(* is the set of its one bits in the order they are sent, from 0.          *)
(*                                                                         *)
(* The host is little endian, as the ESP8266 is.                           *)
(***************************************************************************)
EXTENDS Integers, Sequences, FiniteSets, CrcTables

CONSTANT Airs(_)   \* the sequences of transmissions of a type to consider

Types == {"scm", "scmPlus", "idm"}
RawSize == [scm |-> 12, scmPlus |-> 16, idm |-> 92]   \* in bytes
BitsOf(type) == 0..(8 * RawSize[type] - 1)

(* A transmission is a message and the bits that are wrong when it arrives. *)
Transmission == [type : Types, sent : SUBSET Nat, err : SUBSET Nat]

ASSUME AirsAssumption ==
  \A type \in Types : \A a \in Airs(type) :
    /\ a \in Seq(Transmission)
    /\ \A i \in DOMAIN a : a[i].sent \cup a[i].err \subseteq BitsOf(a[i].type)

VARIABLES air,                           \* what will arrive
          amrMsgCallback,                \* has the application registered one
          scmMsg, scmPlusMsg, idmMsg,    \* the static structs
          heard,                         \* history: what has arrived last
          called                         \* history: what was handed over for it

vars == <<air, amrMsgCallback, scmMsg, scmPlusMsg, idmMsg, heard, called>>

None == [type |-> "none"]

-----------------------------------------------------------------------------
(* Numbers *)

Low(w) == 0..(w - 1)
Left(v, n, w) == {b + n : b \in v} \cap Low(w)        \* v << n, in w bits
Right(v, n) == {b - n : b \in {c \in v : c >= n}}     \* v >> n
Xor(u, v) == (u \ v) \cup (v \ u)
Bits(n) == {b \in Low(16) : (n \div 2^b) % 2 = 1}

(* The byte of a message at an index. *)
Byte(m, i) == {b \in Low(8) : 8 * i + 7 - b \in m}

(* memcpy of n bytes to an integer of the host.                            *)
memcpy(m, i, n) == UNION {Left(Byte(m, i + k), 8 * k, 32) : k \in Low(n)}
Array(m, i, n) == [k \in Low(n) |-> Byte(m, i + k)]

(* Slip: the value is taken as it lies in memory. *)
NoSwap(v) == v

NTOH_16BIT(v) == Left(v, 8, 16) \cup (Right(v, 8) \cap Low(8))
NTOH_32BIT(v) ==
  (Right(v, 24) \cap Low(8)) \cup (Left(v, 8, 32) \cap 16..23) \cup
  (Right(v, 8) \cap 8..15) \cup (Left(v, 24, 32) \cap 24..31)

-----------------------------------------------------------------------------
(* Checksums *)

EntriesOf(table) ==
  [v \in {Bits(n) : n \in 0..255} |-> Bits(table[1 + CHOOSE n \in 0..255 : Bits(n) = v])]
BCHEntries == EntriesOf(crc16BCHTable)
CCITTEntries == EntriesOf(crc16CCITTTable)

(* The loops of computeBCHCRC and computeCCITTCRC, and one turn of them.    *)
Crc(entries, init, m, first, len) ==
  LET turn[s \in (SUBSET Low(16)) \X (SUBSET Low(8))] ==     \* the crc and a byte
        Xor(Left(s[1], 8, 16), entries[Xor(Right(s[1], 8), s[2])])
      crc[i \in 0..len] ==
        IF i = 0 THEN init ELSE turn[<<crc[i - 1], Byte(m, first + i - 1)>>]
  IN  crc[len]

computeBCHCRC(m, first, len) == Crc(BCHEntries, {}, m, first, len) = {}

(* Slip: the residual is compared as one byte. *)
ByteResidual(m, first, len) ==
  Crc(CCITTEntries, Low(16), m, first, len) \cap Low(8) = Bits(\h0F)

computeCCITTCRC(m, first, len) ==
  Crc(CCITTEntries, Low(16), m, first, len) = Bits(\h1D0F)

(* Does a message of a type pass the checksum its parser computes? *)
Accepts(type, m) ==
  CASE type = "scm" -> computeBCHCRC(m, 2, 10)
    [] type = "scmPlus" -> computeCCITTCRC(m, 2, 14)
    [] type = "idm" -> computeCCITTCRC(m, 4, 88)

(* A message is sent with a right checksum.  What may be received is any    *)
(* bits at all: such a message, and any of its bits wrong.                  *)
ASSUME SealedAssumption ==
  \A type \in Types : \A a \in Airs(type) : \A i \in DOMAIN a :
    Accepts(a[i].type, a[i].sent)

-----------------------------------------------------------------------------
(* Fields *)

(* Slip: the last byte of a field is always taken whole. *)
TakeWholeByte(out, byte, left) == Left(out, 8, 32) \cup byte

(* One turn of the loop of extractBits: left bits are still wanted.         *)
TakeByte(out, byte, left) ==
  IF left <= 8 THEN Left(out, left, 32) \cup Right(byte, 8 - left)
  ELSE Left(out, 8, 32) \cup byte

(* The loop: more bits of the bytes behind i, after those of start.         *)
TakeBytes(m, i, start, more) ==
  LET turns == (more + 7) \div 8
      out[k \in 0..turns] ==
        IF k = 0 THEN start
        ELSE TakeByte(out[k - 1], Byte(m, i + k), more - 8 * (k - 1))
  IN  out[turns]

(* len bits from an offset on, of the data that starts at the byte first.   *)
extractBits(m, first, offset, len) ==
  LET i == first + (offset \div 8)
      unusedBits == 8 - (offset % 8)
      more == len - unusedBits
      start == Byte(m, i) \cap Low(unusedBits)
  IN  IF more <= 0 THEN Right(start, unusedBits - len) ELSE TakeBytes(m, i, start, more)

scmOf(m) ==
  [id |-> Left(Byte(m, 2) \cap {1, 2}, 23, 32) \cup Left(Byte(m, 7), 16, 32)
            \cup Left(Byte(m, 8), 8, 32) \cup Byte(m, 9),
   consumption |-> Left(Byte(m, 4), 16, 32) \cup Left(Byte(m, 5), 8, 32)
                     \cup Byte(m, 6),
   type |-> Right(Byte(m, 3), 2) \cap Low(4),
   tamper_phy |-> Right(Byte(m, 3), 6) \cap Low(2),
   tamper_enc |-> Byte(m, 3) \cap Low(2),
   crc |-> Left(Byte(m, 10), 8, 16) \cup Byte(m, 11)]

scmPlusOf(m) ==
  [frameSync |-> NTOH_16BIT(memcpy(m, 0, 2)),
   protocolId |-> Byte(m, 2),
   endpointType |-> Byte(m, 3),
   endpointId |-> NTOH_32BIT(memcpy(m, 4, 4)),
   consumption |-> NTOH_32BIT(memcpy(m, 8, 4)),
   tamper |-> NTOH_16BIT(memcpy(m, 12, 2)),
   crc |-> NTOH_16BIT(memcpy(m, 14, 2))]

(* Three bytes as lastExcess and lastResidual are put together: the lowest  *)
(* one is the first again.                                                  *)
Three(m, i) ==
  Left(Byte(m, i), 16, 32) \cup Left(Byte(m, i + 1), 8, 32) \cup Byte(m, i)

x18Of(m, head) ==
  [unknown |-> Array(m, head, 10),
   lastConsumption |-> NTOH_32BIT(memcpy(m, head + 10, 4)),
   lastExcess |-> Three(m, head + 14),
   lastResidual |-> Three(m, head + 17),
   lastConsumptionHighRes |-> NTOH_32BIT(memcpy(m, head + 20, 4)),
   differentialConsumption |->
     [cnt \in Low(27) |-> extractBits(m, head + 24, cnt * 14, 14)]]

stdOf(m, head) ==
  [moduleProgrammingState |-> Byte(m, head),
   tamperCounters |-> Array(m, head + 1, 6),
   asyncCnt |-> NTOH_16BIT(memcpy(m, head + 7, 2)),
   powerOutageFlags |-> Array(m, head + 9, 6),
   lastConsumption |-> NTOH_32BIT(memcpy(m, head + 15, 4)),
   differentialConsumption |->
     [cnt \in Low(47) |-> extractBits(m, head + 19, cnt * 9, 9)]]

(* An interval meter, ertType 0x18, has another layout in the middle.      *)
IsX18(m) == Byte(m, 8) = Bits(\h18)

idmOf(m) ==
  [preamble |-> NTOH_32BIT(memcpy(m, 0, 4)),
   packetTypeID |-> Byte(m, 4), packetLength |-> Byte(m, 5),
   hammingCode |-> Byte(m, 6), appVersion |-> Byte(m, 7), ertType |-> Byte(m, 8),
   ertId |-> NTOH_32BIT(memcpy(m, 9, 4)),
   consumptionIntervalCount |-> Byte(m, 13),
   data |-> IF IsX18(m) THEN x18Of(m, 14) ELSE stdOf(m, 14),
   txTimeOffset |-> NTOH_16BIT(memcpy(m, 86, 2)),
   serialNumberCRC |-> NTOH_16BIT(memcpy(m, 88, 2)),
   pktCRC |-> NTOH_16BIT(memcpy(m, 90, 2))]

-----------------------------------------------------------------------------
(* The system.  A static struct starts as all zeros.                        *)

Init ==
  /\ \E type \in Types : air \in Airs(type)
  /\ amrMsgCallback = FALSE
  /\ scmMsg = scmOf({}) /\ scmPlusMsg = scmPlusOf({}) /\ idmMsg = idmOf({})
  /\ heard = None /\ called = None

(* registerAmrMsgCallback, with a function or with NULL. *)
registerAmrMsgCallback(registered) ==
  /\ amrMsgCallback' = registered
  /\ UNCHANGED <<air, scmMsg, scmPlusMsg, idmMsg, heard, called>>

received == Xor(Head(air).sent, Head(air).err)

Arrives(type) ==
  /\ air # <<>> /\ Head(air).type = type
  /\ heard' = [type |-> type, sent |-> Head(air).sent, err |-> Head(air).err,
               registered |-> amrMsgCallback]
  /\ air' = Tail(air)
  /\ UNCHANGED amrMsgCallback

(* The application gets a pointer to the static struct. *)
HandOver(type, msg) ==
  called' = IF amrMsgCallback THEN [type |-> type, msg |-> msg] ELSE None

parseSCMMsg ==
  /\ Arrives("scm")
  /\ IF computeBCHCRC(received, 2, 10)
       THEN scmMsg' = scmOf(received) /\ HandOver("scm", scmMsg')
       ELSE called' = None /\ UNCHANGED scmMsg
  /\ UNCHANGED <<scmPlusMsg, idmMsg>>

parseSCMPlusMsg ==
  /\ Arrives("scmPlus")
  /\ IF computeCCITTCRC(received, 2, 14)
       THEN scmPlusMsg' = scmPlusOf(received) /\ HandOver("scmPlus", scmPlusMsg')
       ELSE called' = None /\ UNCHANGED scmPlusMsg
  /\ UNCHANGED <<scmMsg, idmMsg>>

parseIDMMsg ==
  /\ Arrives("idm")
  /\ IF computeCCITTCRC(received, 4, 88)
       THEN idmMsg' = idmOf(received) /\ HandOver("idm", idmMsg')
       ELSE called' = None /\ UNCHANGED idmMsg
  /\ UNCHANGED <<scmMsg, scmPlusMsg>>

Next ==
  \/ \E registered \in BOOLEAN : registerAmrMsgCallback(registered)
  \/ parseSCMMsg
  \/ parseSCMPlusMsg
  \/ parseIDMMsg

Spec == Init /\ [][Next]_vars

-----------------------------------------------------------------------------
(* What the messages look like on the air: fields back to back in the order *)
(* of the structs of amr.h, <<name, bits>> or <<name, bits, how many>>,     *)
(* highest bit first.  An SCM has its id in two parts.                      *)

ScmWire ==
  <<<<"preamble", 21>>, <<"idHigh", 2>>, <<"reserved", 1>>, <<"tamper_phy", 2>>,
    <<"type", 4>>, <<"tamper_enc", 2>>, <<"consumption", 24>>, <<"idLow", 24>>,
    <<"crc", 16>>>>
ScmPlusWire ==
  <<<<"frameSync", 16>>, <<"protocolId", 8>>, <<"endpointType", 8>>,
    <<"endpointId", 32>>, <<"consumption", 32>>, <<"tamper", 16>>, <<"crc", 16>>>>
IdmWire(middle) ==
  <<<<"preamble", 32>>, <<"packetTypeID", 8>>, <<"packetLength", 8>>,
    <<"hammingCode", 8>>, <<"appVersion", 8>>, <<"ertType", 8>>, <<"ertId", 32>>,
    <<"consumptionIntervalCount", 8>>>>
  \o middle
  \o <<<<"txTimeOffset", 16>>, <<"serialNumberCRC", 16>>, <<"pktCRC", 16>>>>
StdWire ==
  <<<<"moduleProgrammingState", 8>>, <<"tamperCounters", 8, 6>>, <<"asyncCnt", 16>>,
    <<"powerOutageFlags", 8, 6>>, <<"lastConsumption", 32>>,
    <<"differentialConsumption", 9, 47>>, <<"pad", 1>>>>
X18Wire ==
  <<<<"unknown", 8, 10>>, <<"lastConsumption", 32>>, <<"lastExcess", 24>>,
    <<"lastResidual", 24>>, <<"lastConsumptionHighRes", 32>>,
    <<"differentialConsumption", 14, 27>>, <<"pad", 6>>>>

WireOf(type, m) ==
  CASE type = "scm" -> ScmWire
    [] type = "scmPlus" -> ScmPlusWire
    [] type = "idm" -> IdmWire(IF IsX18(m) THEN X18Wire ELSE StdWire)

(* The number sent in some bits from the bit p on, and in a field.          *)
Sent(m, p, width) == {p + width - 1 - b : b \in m \cap p..(p + width - 1)}
SentArray(m, p, width, n) == [k \in Low(n) |-> Sent(m, p + k * width, width)]
SentField(m, field, p) ==
  IF Len(field) = 2 THEN Sent(m, p, field[2]) ELSE SentArray(m, p, field[2], field[3])

Width(field) == IF Len(field) = 2 THEN field[2] ELSE field[2] * field[3]
Places(wire) ==
  LET place[k \in 1..Len(wire)] ==
        IF k = 1 THEN 0 ELSE place[k - 1] + Width(wire[k - 1])
  IN  place

(* The fields of a struct, those of the union among them. *)
Fields(msg) ==
  IF "data" \in DOMAIN msg
    THEN [f \in DOMAIN msg \cup DOMAIN msg.data |->
            IF f \in DOMAIN msg THEN msg[f] ELSE msg.data[f]]
    ELSE msg

(* Every field of a struct is the one that was sent.  Left out: lastExcess   *)
(* and lastResidual, whose last byte amr.c:417-419 takes from their first.  *)
AsSent(type, m, msg) ==
  LET wire == WireOf(type, m)
      place == Places(wire)
      got == Fields(msg)
  IN  /\ \A k \in DOMAIN wire :
           wire[k][1] \in DOMAIN got \ {"lastExcess", "lastResidual"} =>
             got[wire[k][1]] = SentField(m, wire[k], place[k])
      /\ type = "scm" =>
           got.id = Left(Sent(m, place[2], 2), 24, 32) \cup Sent(m, place[8], 24)

StaticOf == [scm |-> scmMsg, scmPlus |-> scmPlusMsg, idm |-> idmMsg]

(* A message that arrives as it was sent is accepted, and every field of    *)
(* its struct is the one that was sent, whatever message was there before:  *)
(* checksum, byte order, offsets and bit fields agree with the layout       *)
(* (parseSCMMsg, parseSCMPlusMsg, parseIDMMsg, extractBits).  The           *)
(* application gets it if it has registered.                                *)
HandsOver ==
  heard # None /\ heard.err = {} =>
    /\ called.type = IF heard.registered THEN heard.type ELSE "none"
    /\ called # None => called.msg = StaticOf[heard.type]
    /\ AsSent(heard.type, heard.sent, StaticOf[heard.type])

(* The bits a checksum covers. *)
Covered == [scm |-> 16..95, scmPlus |-> 16..127, idm |-> 32..735]

(* One or two wrong bits among those the checksum covers, anywhere, or any   *)
(* number of them within sixteen in a row.                                   *)
Detectable(type, err) ==
  /\ err \subseteq Covered[type]
  /\ \/ \E p, q \in err : err = {p, q}
     \/ \E p \in err : err \subseteq p..(p + 15)

(* When a message with such errors arrives the application is not called and *)
(* all three structs keep the messages before (computeBCHCRC over the SCM,   *)
(* computeCCITTCRC over the others, the early returns of the parsers).       *)
Detects ==
  [][air' # air /\ Detectable(heard'.type, heard'.err) =>
       called' = None /\ UNCHANGED <<scmMsg, scmPlusMsg, idmMsg>>]_vars

(* What detection rests on, of the tables alone: both are linear, an entry   *)
(* has a one no higher than the highest of its index, and the wrong bits of  *)
(* a message leave remainders that all differ.                               *)
Linear(entries) ==
  \A u, v \in SUBSET Low(8) :
    entries[u] \subseteq Low(16) /\ entries[Xor(u, v)] = Xor(entries[u], entries[v])

LowestStays(entries) ==
  \A n \in 0..8 : \A v \in SUBSET Low(n) : entries[v] \cap Low(n) = {} => v = {}

RemainderOf(type, err) ==
  CASE type = "scm" -> Crc(BCHEntries, {}, err, 2, 10)
    [] type = "scmPlus" -> Crc(CCITTEntries, {}, err, 2, 14)
    [] type = "idm" -> Crc(CCITTEntries, {}, err, 4, 88)

BitsDiffer(type) ==
  LET remainders == {<<p, RemainderOf(type, {p})>> : p \in Covered[type]}
  IN  \A r, s \in remainders : r[2] # {} /\ (r[1] # s[1] => r[2] # s[2])

TablesDetect ==
  /\ Linear(BCHEntries) /\ Linear(CCITTEntries)
  /\ LowestStays(BCHEntries) /\ LowestStays(CCITTEntries)
  /\ \A type \in Types : BitsDiffer(type)

(* extractBits gives the bits it is asked for, the last 32 of them, at any  *)
(* offset and length within a message.                                      *)
ExtractsBits ==
  heard # None /\ heard.type = "scmPlus" /\ heard.err = {} =>
    \A offset \in 0..24, len \in 0..40 :
      extractBits(heard.sent, 4, offset, len)
        = Sent(heard.sent, 32 + offset, len) \cap Low(32)

(* The types of the variables: every field fits its type in amr.h.         *)
TypeOK ==
  /\ amrMsgCallback \in BOOLEAN
  /\ scmMsg.id \subseteq Low(26) /\ scmMsg.consumption \subseteq Low(24)
  /\ scmMsg.type \subseteq Low(4)
  /\ \A f \in {"tamper_phy", "tamper_enc"} : scmMsg[f] \subseteq Low(2)
  /\ \A f \in {"frameSync", "tamper", "crc"} : scmPlusMsg[f] \subseteq Low(16)
  /\ \A f \in {"endpointId", "consumption"} : scmPlusMsg[f] \subseteq Low(32)
  /\ IF idmMsg.ertType = Bits(\h18)
       THEN idmMsg.data.differentialConsumption \in [Low(27) -> SUBSET Low(14)]
       ELSE idmMsg.data.differentialConsumption \in [Low(47) -> SUBSET Low(9)]

=============================================================================
