--------------------------- MODULE RxDecoderProofs ---------------------------
(***************************************************************************)
(* Proofs about RxDecoder, for every length of the messages and every      *)
(* preamble: what becomes of a message on the air alone, or of an SCM      *)
(* after other SCMs, in either buffer and at any bit offset.               *)
(***************************************************************************)
EXTENDS RxDecoder, TLAPS

-----------------------------------------------------------------------------
(* Arithmetic: the byte a bit is in lies in the circle.                    *)

(* Products are monotone and distribute. *)
LEMMA Monotone == \A a, b, c \in Nat : a <= b => a * c <= b * c
  OBVIOUS

(* A product with a sum, and with one.                                      *)
LEMMA Distributes ==
  \A a, b, c \in Nat : (a + b) * c = a * c + b * c /\ a * c \in Nat /\ 1 * c = c
  OBVIOUS

(* A number is its quotient and its remainder.                              *)
LEMMA DivMod ==
  \A c, b \in Nat : b > 0 =>
    c \div b \in Nat /\ c % b \in Nat /\ c % b < b /\ c = (c \div b) * b + (c % b)
  OBVIOUS

(* A byte that begins in a buffer of whole bytes ends there.               *)
LEMMA ByteInside ==
  ASSUME NEW b \in Nat, b > 0, NEW n \in Nat, NEW c \in Nat, c < n * b
  PROVE  c - (c % b) \in Nat /\ c - (c % b) + b <= n * b
<1> DEFINE q == c \div b
<1>1. q \in Nat /\ c % b \in Nat /\ c % b < b /\ c = q * b + (c % b)
  BY DivMod
<1> HIDE DEF q
<1>2. n * b \in Nat /\ q * b \in Nat /\ (q + 1) * b = q * b + b
  BY <1>1, Distributes
<1>3. q < n
  <2> SUFFICES ASSUME n <= q PROVE FALSE
    BY <1>1
  <2>1. n * b <= q * b
    BY <1>1, Monotone
  <2> QED
    BY <1>1, <1>2, <2>1
<1>4. (q + 1) * b <= n * b
  BY <1>1, <1>3, Monotone
<1> QED
  BY <1>1, <1>2, <1>4

(* The sizes in bits. *)
LEMMA SizeFacts ==
  /\ ByteBits \in Nat /\ ByteBits >= 2
  /\ Circle \in Nat /\ HdrBits \in Nat /\ TypeSize * ByteBits \in Nat
  /\ ScmSize * ByteBits \in Nat /\ ScmPlusSize * ByteBits \in Nat
  /\ MsgBits = [scm |-> ScmSize * ByteBits, scmPlus |-> ScmPlusSize * ByteBits,
                idm |-> Circle]
  /\ HdrBits + ScmSize * ByteBits + ByteBits <= Circle
  /\ HdrBits + ScmPlusSize * ByteBits <= Circle
  /\ ByteBits <= TypeSize * ByteBits /\ TypeSize * ByteBits + ByteBits <= HdrBits
<1>1. /\ ByteBits \in Nat /\ HdrSize \in Nat /\ TypeSize \in Nat /\ ScmSize \in Nat
      /\ ScmPlusSize \in Nat /\ IdmSize \in Nat
      /\ HdrSize + ScmSize + 1 <= IdmSize /\ HdrSize + ScmPlusSize <= IdmSize
      /\ 1 <= TypeSize /\ TypeSize + 1 <= HdrSize /\ ByteBits >= 2
  BY SizesFit
<1>2. Circle \in Nat /\ HdrBits \in Nat /\ TypeSize * ByteBits \in Nat
      /\ ScmSize * ByteBits \in Nat /\ ScmPlusSize * ByteBits \in Nat
  BY <1>1, Distributes DEF Circle, HdrBits
<1>3. HdrBits + ScmSize * ByteBits + ByteBits <= Circle
  <2>1. (HdrSize + ScmSize + 1) * ByteBits = HdrBits + ScmSize * ByteBits + ByteBits
    <3>1. (HdrSize + ScmSize + 1) * ByteBits = (HdrSize + ScmSize) * ByteBits + 1 * ByteBits
      BY <1>1, Distributes
    <3>2. (HdrSize + ScmSize) * ByteBits = HdrSize * ByteBits + ScmSize * ByteBits
      BY <1>1, Distributes
    <3> QED
      BY <1>1, <3>1, <3>2, Distributes DEF HdrBits
  <2>2. (HdrSize + ScmSize + 1) * ByteBits <= IdmSize * ByteBits
    BY <1>1, Monotone
  <2> QED
    BY <2>1, <2>2 DEF Circle
<1>4. HdrBits + ScmPlusSize * ByteBits <= Circle
  <2>1. (HdrSize + ScmPlusSize) * ByteBits = HdrSize * ByteBits + ScmPlusSize * ByteBits
    BY <1>1, Distributes
  <2>2. (HdrSize + ScmPlusSize) * ByteBits <= IdmSize * ByteBits
    BY <1>1, Monotone
  <2> QED
    BY <2>1, <2>2 DEF Circle, HdrBits
<1>5. ByteBits <= TypeSize * ByteBits /\ TypeSize * ByteBits + ByteBits <= HdrBits
  <2>1. (TypeSize + 1) * ByteBits = TypeSize * ByteBits + 1 * ByteBits
        /\ 1 * ByteBits = ByteBits
    BY <1>1, Distributes
  <2>2. (TypeSize + 1) * ByteBits <= HdrSize * ByteBits
    BY <1>1, Monotone
  <2>3. 1 * ByteBits <= TypeSize * ByteBits
    BY <1>1, Monotone
  <2> QED
    BY <2>1, <2>2, <2>3 DEF HdrBits
<1> QED
  BY <1>1, <1>2, <1>3, <1>4, <1>5 DEF MsgBits, Circle

(* The circle is longer than a byte.                                        *)
LEMMA CircleFacts == Circle \in Nat /\ Circle > ByteBits /\ Circle > 2
  BY SizeFacts

(* The byte of a bit in the circle. *)
LEMMA ByteOfFacts ==
  ASSUME NEW c \in 0..(Circle - 1)
  PROVE  /\ c \in Nat /\ c < Circle /\ ByteOf(c) \in Nat /\ ByteOf(c) <= c
         /\ c < ByteOf(c) + ByteBits /\ ByteOf(c) + ByteBits <= Circle
         /\ c % ByteBits \in Nat /\ ByteOf(c) + (c % ByteBits) = c
<1>1. c \in Nat /\ c < IdmSize * ByteBits /\ IdmSize \in Nat /\ ByteBits > 0
  BY SizeFacts, SizesFit DEF Circle
<1>2. c - (c % ByteBits) \in Nat /\ c - (c % ByteBits) + ByteBits <= IdmSize * ByteBits
  BY <1>1, SizeFacts, ByteInside
<1>3. c % ByteBits \in Nat /\ c % ByteBits < ByteBits
  BY <1>1, SizeFacts, DivMod
<1> DEFINE r == c % ByteBits
<1>4. ByteOf(c) = c - r /\ Circle = IdmSize * ByteBits
  BY DEF ByteOf, Circle
<1>5. r \in Nat /\ r < ByteBits /\ c - r \in Nat /\ c - r + ByteBits <= Circle
  BY <1>2, <1>3, <1>4
<1> HIDE DEF r
<1>6. Circle \in Nat /\ ByteBits \in Nat /\ c < Circle
  BY <1>1, <1>4, SizeFacts
<1>7. /\ c < Circle /\ ByteOf(c) \in Nat /\ ByteOf(c) <= c
      /\ c < ByteOf(c) + ByteBits /\ ByteOf(c) + ByteBits <= Circle
      /\ ByteOf(c) + r = c
  BY <1>1, <1>4, <1>5, <1>6
<1> QED
  BY <1>1, <1>5, <1>7 DEF r

-----------------------------------------------------------------------------
(* The inductive invariant.                                                *)

(* The cell written before c, and for a buffer the one written last.       *)
Prev(c) == IF c = 0 THEN Circle - 1 ELSE c - 1
LastCell(b) == IF b = 0 /\ active = 0 THEN rxBufHeadBit ELSE Prev(rxBufHeadBit)

(* How many bits ago the cell d was written, when c was written last.      *)
Age(c, d) == IF d <= c THEN c - d ELSE c + Circle - d

(* A bit that old has seen no header since: only that of an SCM, if at     *)
(* all, and that one lies behind the bits of an SCM.                       *)
Trusted(s, age) ==
  /\ age <= s["idm"] /\ age <= s["scmPlus"]
  /\ age <= s["scm"] \/ age <= MsgBits["scm"]

(* Both copies of a bit that can be trusted hold what was decoded.         *)
Kept(mem, c, h, s) ==
  \A d \in 0..(Circle - 1) : Trusted(s, Age(c, d)) =>
    mem[d] = h[Circle - Age(c, d)] /\ mem[d + Circle] = h[Circle - Age(c, d)]

KeptInv == \A b \in Buffers : Kept(rxBuf[b], LastCell(b), hist[b], since[b])

TypeInv ==
  /\ TypeOK
  /\ hist \in [Buffers -> Seq(Bit)] /\ \A b \in Buffers : Len(hist[b]) = Circle
  /\ pushed.since \in [Types -> 0..Circle]

-----------------------------------------------------------------------------
(* Writing a bit.                                                          *)

(* After a bit has been written at c, that bit and every other one that     *)
(* could be trusted before hold what was decoded.                          *)
Written(mem, c, h, s) ==
  \A d \in 0..(Circle - 1) : Age(c, d) = 0 \/ Trusted(s, Age(c, d) - 1) =>
    mem[d] = h[Circle - Age(c, d)] /\ mem[d + Circle] = h[Circle - Age(c, d)]

(* The age of a cell lies in the circle, and grows with every bit written.  *)
LEMMA AgeFacts ==
  ASSUME NEW c \in 0..(Circle - 1), NEW d \in 0..(Circle - 1)
  PROVE  /\ Age(c, d) \in 0..(Circle - 1) /\ (Age(c, d) = 0 <=> d = c)
         /\ Prev(c) \in 0..(Circle - 1)
         /\ d # c => Age(Prev(c), d) = Age(c, d) - 1
  BY CircleFacts DEF Age, Prev

(* The history moves on by a bit. *)
LEMMA HistoryMoves ==
  ASSUME NEW h \in Seq(Bit), Len(h) = Circle, NEW bit \in Bit
  PROVE  /\ Append(Tail(h), bit) \in Seq(Bit)
         /\ Len(Append(Tail(h), bit)) = Circle
         /\ Append(Tail(h), bit)[Circle] = bit
         /\ \A i \in 1..(Circle - 1) : Append(Tail(h), bit)[i] = h[i + 1]
<1>1. Circle \in Nat /\ Circle > 2 /\ h # <<>>
  BY CircleFacts
<1>2. Tail(h) \in Seq(Bit) /\ Len(Tail(h)) = Circle - 1
      /\ \A i \in 1..(Circle - 1) : Tail(h)[i] = h[i + 1]
  BY <1>1
<1> QED
  BY <1>1, <1>2

(* What could be trusted before amrProcessRxBit wrote its bit still can.    *)
LEMMA WriteKept ==
  ASSUME NEW mem \in [Cell -> Bit], NEW c \in 0..(Circle - 1), NEW bit \in Bit,
         NEW h \in Seq(Bit), Len(h) = Circle, NEW s, Kept(mem, Prev(c), h, s)
  PROVE  /\ WriteBit(mem, c, bit) \in [Cell -> Bit]
         /\ Written(WriteBit(mem, c, bit), c, Append(Tail(h), bit), s)
<1> DEFINE m == WriteBit(mem, c, bit)
           once == [mem EXCEPT ![c] = bit]
           copy == ByteOf(c) + Circle
<1>0. Circle \in Nat /\ Circle > 2 /\ ByteBits \in Nat /\ ByteBits > 0
  BY CircleFacts, SizeFacts
<1>1. /\ \A d \in Cell : d \in Nat /\ d < 2 * Circle
      /\ \A d \in Nat : d < 2 * Circle => d \in Cell
  BY <1>0 DEF Cell
<1>2. /\ c \in Nat /\ c < Circle /\ ByteOf(c) \in Nat /\ ByteOf(c) <= c
      /\ c < ByteOf(c) + ByteBits /\ ByteOf(c) + ByteBits <= Circle
  BY ByteOfFacts
<1>3. once \in [Cell -> Bit] /\ once[c] = bit /\ \A d \in Cell : d # c => once[d] = mem[d]
  BY <1>0, <1>1, <1>2
<1>4. \A d \in Cell : m[d] = IF copy <= d /\ d < copy + ByteBits THEN once[d - Circle]
                                                                ELSE once[d]
  <2>1. \A d \in Cell : d \in copy..(copy + ByteBits - 1)
                          <=> copy <= d /\ d < copy + ByteBits
    BY <1>0, <1>1, <1>2
  <2> QED
    BY <2>1 DEF WriteBit
<1>5. m \in [Cell -> Bit]
  <2>1. \A d \in Cell : copy <= d /\ d < copy + ByteBits => d - Circle \in Cell
    BY <1>0, <1>1, <1>2
  <2>2. \A d \in Cell : m[d] \in Bit
    BY <1>3, <1>4, <2>1
  <2> QED
    BY <2>2 DEF WriteBit
<1> HIDE DEF m, once
<1>6. ASSUME NEW d \in 0..(Circle - 1),
             Age(c, d) = 0 \/ Trusted(s, Age(c, d) - 1)
      PROVE  /\ m[d] = Append(Tail(h), bit)[Circle - Age(c, d)]
             /\ m[d + Circle] = Append(Tail(h), bit)[Circle - Age(c, d)]
  <2>1. d \in Cell /\ d + Circle \in Cell /\ d \in Nat /\ d < Circle
        /\ d + Circle - Circle = d
    BY <1>0, <1>1
  <2>2. m[d] = once[d]
    BY <1>0, <1>2, <1>4, <2>1
  <2>3. m[d + Circle] = once[d] \/ (d # c /\ m[d + Circle] = once[d + Circle])
    BY <1>0, <1>2, <1>4, <2>1
  <2>4. CASE d = c
    <3>1. Age(c, d) = 0
      BY <2>4, AgeFacts
    <3>2. Append(Tail(h), bit)[Circle] = bit /\ Circle - 0 = Circle
      BY <1>0, HistoryMoves
    <3> QED
      BY <1>3, <2>2, <2>3, <2>4, <3>1, <3>2
  <2>5. CASE d # c
    <3>1. /\ Age(c, d) \in 1..(Circle - 1) /\ Age(Prev(c), d) = Age(c, d) - 1
      <4>1. Age(c, d) \in 0..(Circle - 1) /\ Age(c, d) # 0
        BY <2>5, AgeFacts
      <4>2. Age(Prev(c), d) = Age(c, d) - 1
        BY <2>5, AgeFacts
      <4> QED
        BY <1>0, <4>1, <4>2
    <3>2. /\ mem[d] = h[Circle - (Age(c, d) - 1)]
          /\ mem[d + Circle] = h[Circle - (Age(c, d) - 1)]
      BY <1>6, <3>1 DEF Kept
    <3>3. /\ Circle - Age(c, d) \in 1..(Circle - 1)
          /\ Circle - (Age(c, d) - 1) = Circle - Age(c, d) + 1
      BY <1>0, <3>1
    <3>4. Append(Tail(h), bit)[Circle - Age(c, d)] = h[Circle - (Age(c, d) - 1)]
      BY <3>3, HistoryMoves
    <3>5. once[d] = mem[d] /\ (d + Circle # c => once[d + Circle] = mem[d + Circle])
      BY <1>3, <2>1, <2>5
    <3>6. d + Circle # c
      BY <1>0, <1>2, <2>1
    <3> QED
      BY <2>2, <2>3, <3>2, <3>4, <3>5, <3>6
  <2> QED
    BY <2>4, <2>5
<1> QED
  BY <1>5, <1>6 DEF Written, m

-----------------------------------------------------------------------------
(* Writing a header.                                                       *)

(* The three types, numbered by naturals.                                   *)
LEMMA TypeMembers ==
  /\ Types = {"scm", "scmPlus", "idm"} /\ AMR_MSG_TYPE["scm"] \in Nat
  /\ AMR_MSG_TYPE["scmPlus"] \in Nat /\ AMR_MSG_TYPE["idm"] \in Nat
  BY DEF Types, AMR_MSG_TYPE

(* A bit of a byte is a bit.                                                *)
LEMMA BitOfType == \A v, j \in Nat : j < ByteBits => BitOf(v, j) \in Bit
<1>1. ByteBits \in Nat
  BY SizeFacts
<1>2. \A v, n \in Nat : (v \div 2^n) % 2 \in Bit
  BY DEF Bit
<1>3. \A j \in Nat : j < ByteBits => ByteBits - 1 - j \in Nat
  BY <1>1
<1> QED
  BY <1>2, <1>3 DEF BitOf

(* A header changes no cell of the window it is written before, nor any    *)
(* bit that will be trusted.                                               *)
LEMMA HeaderKept ==
  ASSUME NEW mem \in [Cell -> Bit], NEW c \in 0..(Circle - 1), NEW type \in Types
  PROVE  /\ WriteHeader(mem, type, c) \in [Cell -> Bit]
         /\ DataOf(type, c) \in Nat
         /\ \A d \in Cell : d >= DataOf(type, c) => WriteHeader(mem, type, c)[d] = mem[d]
         /\ WriteHeader(mem, type, c)[c] = mem[c]
         /\ WriteHeader(mem, type, c)[c + Circle] = mem[c + Circle]
         /\ type = "scm" => \A d \in 0..(Circle - 1) : Age(c, d) <= MsgBits["scm"] =>
              /\ WriteHeader(mem, type, c)[d] = mem[d]
              /\ WriteHeader(mem, type, c)[d + Circle] = mem[d + Circle]
<1> DEFINE m == WriteHeader(mem, type, c)
           data == DataOf(type, c)
           hdr == data - HdrBits
           M == ScmSize * ByteBits
           T == TypeSize * ByteBits
<1>0. /\ Circle \in Nat /\ ByteBits \in Nat /\ ByteBits >= 2 /\ HdrBits \in Nat
      /\ M \in Nat /\ T \in Nat /\ ByteBits <= T /\ T + ByteBits <= HdrBits
      /\ HdrBits + M + ByteBits <= Circle /\ MsgBits["scm"] = M
  BY SizeFacts
<1>1. \A d : d \in Cell <=> d \in Nat /\ d < 2 * Circle
  BY <1>0 DEF Cell
<1>2. /\ c \in Nat /\ c < Circle /\ ByteOf(c) \in Nat /\ ByteOf(c) <= c
      /\ c < ByteOf(c) + ByteBits /\ ByteOf(c) + ByteBits <= Circle
      /\ c % ByteBits \in Nat
  BY ByteOfFacts
<1>3. data = IF type = "scm" THEN ByteOf(c) + Circle - M ELSE ByteOf(c)
  BY DEF DataOf
<1> HIDE DEF M, T
<1>4. data \in Nat
  BY <1>0, <1>2, <1>3
<1> HIDE DEF data
<1>5. hdr \in Int /\ hdr + HdrBits = data
  BY <1>0, <1>4
<1> HIDE DEF hdr
<1>6. m = [d \in Cell |->
             IF d \in hdr..(hdr + ByteBits - 1) THEN BitOf(AMR_MSG_TYPE[type], d - hdr)
             ELSE IF d \in (hdr + ByteBits)..(hdr + T - 1) THEN 0
             ELSE IF d \in (data - ByteBits)..(data - 1)
               THEN BitOf(c % ByteBits, d - (data - ByteBits))
             ELSE mem[d]]
  BY DEF WriteHeader, data, hdr, T
<1> HIDE DEF m
<1>7. \A d \in Cell : d < hdr \/ data <= d => m[d] = mem[d]
  <2> SUFFICES ASSUME NEW d \in Cell, d < hdr \/ data <= d PROVE m[d] = mem[d]
    OBVIOUS
  <2>1. d \in Nat
    BY <1>1
  <2>2. /\ d \notin hdr..(hdr + ByteBits - 1)
        /\ d \notin (hdr + ByteBits)..(hdr + T - 1)
        /\ d \notin (data - ByteBits)..(data - 1)
    BY <1>0, <1>4, <1>5, <2>1
  <2> QED
    BY <1>6, <2>2
<1>8. m \in [Cell -> Bit]
  <2> SUFFICES ASSUME NEW d \in Cell PROVE m[d] \in Bit
    BY <1>6
  <2>1. d \in Nat
    BY <1>1
  <2>2. CASE d \in hdr..(hdr + ByteBits - 1)
    <3>1. d - hdr \in Nat /\ d - hdr < ByteBits
      BY <1>0, <1>5, <2>1, <2>2
    <3>2. AMR_MSG_TYPE[type] \in Nat
      BY TypeMembers
    <3> QED
      BY <1>6, <2>2, <3>1, <3>2, BitOfType
  <2>3. CASE d \in (data - ByteBits)..(data - 1)
    <3>1. d - (data - ByteBits) \in Nat /\ d - (data - ByteBits) < ByteBits
      BY <1>0, <1>4, <2>1, <2>3
    <3>2. d \notin hdr..(hdr + ByteBits - 1) /\ d \notin (hdr + ByteBits)..(hdr + T - 1)
      BY <1>0, <1>4, <1>5, <2>1, <2>3
    <3>3. m[d] = BitOf(c % ByteBits, d - (data - ByteBits))
      BY <1>6, <2>3, <3>2
    <3> QED
      BY <1>2, <3>1, <3>3, BitOfType
  <2>4. CASE d \notin hdr..(hdr + ByteBits - 1) /\ d \notin (data - ByteBits)..(data - 1)
    <3>1. m[d] = 0 \/ m[d] = mem[d]
      BY <1>6, <2>4
    <3> QED
      BY <3>1 DEF Bit
  <2> QED
    BY <2>2, <2>3, <2>4
<1>9. m[c] = mem[c] /\ m[c + Circle] = mem[c + Circle]
  <2>1. c \in Cell /\ c + Circle \in Cell
    BY <1>0, <1>1, <1>2
  <2>2. (c < hdr \/ data <= c) /\ data <= c + Circle
    BY <1>0, <1>2, <1>3, <1>5
  <2> QED
    BY <1>7, <2>1, <2>2
<1>10. ASSUME type = "scm", NEW d \in 0..(Circle - 1), Age(c, d) <= M
       PROVE  m[d] = mem[d] /\ m[d + Circle] = mem[d + Circle]
  <2>1. d \in Nat /\ d < Circle /\ d \in Cell /\ d + Circle \in Cell
    BY <1>0, <1>1
  <2>2. data = ByteOf(c) + Circle - M
    BY <1>3, <1>10
  <2>3. (d < hdr \/ data <= d) /\ data <= d + Circle
    <3>1. CASE d <= c
      <4>1. c - d <= M
        BY <1>10, <3>1 DEF Age
      <4> QED
        BY <1>0, <1>2, <1>5, <2>1, <2>2, <3>1, <4>1
    <3>2. CASE c < d
      <4>1. c + Circle - d <= M
        BY <1>2, <1>10, <2>1, <3>2 DEF Age
      <4> QED
        BY <1>0, <1>2, <1>5, <2>1, <2>2, <3>2, <4>1
    <3> QED
      BY <1>2, <2>1, <3>1, <3>2
  <2> QED
    BY <1>7, <2>1, <2>3
<1>11. \A d \in Cell : d >= data => m[d] = mem[d]
  BY <1>1, <1>4, <1>7
<1> QED
  BY <1>0, <1>4, <1>8, <1>9, <1>10, <1>11 DEF m, data, M

-----------------------------------------------------------------------------
(* Recognising a message.                                                  *)

(* The bits of a window as the history has them. *)
Window(type, h) ==
  [i \in 1..MsgBits[type] |->
     IF type = "scm" THEN h[Circle - MsgBits[type] + i - 1]
     ELSE IF i = 1 THEN h[Circle] ELSE h[i - 1]]

(* A message fits in the circle, an SCM with a byte to spare.               *)
LEMMA MsgBitsFacts ==
  ASSUME NEW type \in Types
  PROVE  MsgBits[type] \in Nat /\ MsgBits[type] <= Circle
         /\ (type = "scm" => MsgBits[type] + ByteBits <= Circle)
  BY SizeFacts, TypeMembers

(* The bits received, with the first one, g, that the window may have lost. *)
Arrived(type, h, g) ==
  [i \in 1..MsgBits[type] |->
     IF type = "scm" THEN h[Circle - MsgBits[type] + i - 1]
     ELSE IF i = 1 THEN g ELSE h[i - 1]]

(* That is what the properties call received.                              *)
LEMMA ArrivedIs ==
  ASSUME NEW type \in Types, MsgBits[type] > 0, NEW h \in Seq(Bit), Len(h) = Circle,
         NEW g \in Bit
  PROVE  Arrived(type, h, g) =
           IF type = "scm" THEN SubSeq(h, Circle - MsgBits["scm"], Circle - 1)
           ELSE <<g>> \o SubSeq(h, 1, MsgBits[type] - 1)
<1> DEFINE M == MsgBits[type]
<1>1. Circle \in Nat /\ Circle > 2 /\ M \in Nat /\ M > 0 /\ M <= Circle
      /\ (type = "scm" => M < Circle)
  BY CircleFacts, MsgBitsFacts, SizeFacts
<1> HIDE DEF M
<1>2. CASE type = "scm"
  <2>1. SubSeq(h, Circle - M, Circle - 1) = [i \in 1..M |-> h[Circle - M + i - 1]]
    BY <1>1, <1>2
  <2> QED
    BY <1>2, <2>1 DEF Arrived, M
<1>3. CASE type # "scm"
  <2>1. /\ SubSeq(h, 1, M - 1) \in Seq(Bit) /\ Len(SubSeq(h, 1, M - 1)) = M - 1
        /\ \A i \in 1..(M - 1) : SubSeq(h, 1, M - 1)[i] = h[i]
    BY <1>1
  <2>3. /\ <<g>> \o SubSeq(h, 1, M - 1) \in Seq(Bit)
        /\ Len(<<g>> \o SubSeq(h, 1, M - 1)) = M
        /\ (<<g>> \o SubSeq(h, 1, M - 1))[1] = g
        /\ \A i \in 2..M : (<<g>> \o SubSeq(h, 1, M - 1))[i] = h[i - 1]
    BY <1>1, <2>1
  <2> DEFINE w == <<g>> \o SubSeq(h, 1, M - 1)
  <2> HIDE DEF w
  <2>4. w = [i \in 1..M |-> w[i]]
    BY <1>1, <2>3 DEF w
  <2>5. \A i \in 1..M : w[i] = IF i = 1 THEN g ELSE h[i - 1]
    BY <1>1, <2>3 DEF w
  <2>6. w = [i \in 1..M |-> IF i = 1 THEN g ELSE h[i - 1]]
    BY <2>4, <2>5
  <2> QED
    BY <1>3, <2>6 DEF Arrived, M, w
<1> QED
  BY <1>2, <1>3

(* After a bit has been written, the bit a bits ago is in both copies, one  *)
(* circle less a cells behind the newest.                                  *)
LEMMA CellHeld ==
  ASSUME NEW mem \in [Cell -> Bit], NEW c \in 0..(Circle - 1), NEW h, NEW s,
         Written(mem, c, h, s), NEW a \in 0..(Circle - 1),
         a = 0 \/ Trusted(s, a - 1)
  PROVE  mem[c + Circle - a] = h[Circle - a] /\ (a = 0 => mem[c] = h[Circle])
<1> DEFINE d == IF a <= c THEN c - a ELSE c + Circle - a
<1>1. Circle \in Nat /\ c \in Nat /\ c < Circle /\ a \in Nat /\ a < Circle
  BY CircleFacts
<1>2. d \in 0..(Circle - 1)
  BY <1>1
<1>3. Age(c, d) = a
  BY <1>1 DEF Age
<1>4. c + Circle - a = d \/ c + Circle - a = d + Circle
  BY <1>1
<1>5. a = 0 => d = c /\ Circle - a = Circle
  BY <1>1
<1> HIDE DEF d
<1>6. mem[d] = h[Circle - a] /\ mem[d + Circle] = h[Circle - a]
  BY <1>2, <1>3 DEF Written
<1> QED
  BY <1>4, <1>5, <1>6

(* The bits of the window of a type can be trusted: nothing was recognised  *)
(* while they came in, or for an SCM nothing but SCMs.                     *)
WindowClean(type, s) ==
  \/ \A t \in Types : s[t] >= Circle - 1
  \/ type = "scm" /\ \A t \in {"scmPlus", "idm"} : s[t] >= MsgBits["scm"] - 1

(* The cells of a clean window hold the bits received.                      *)
LEMMA WindowHeld ==
  ASSUME NEW mem \in [Cell -> Bit], NEW c \in 0..(Circle - 1), NEW h,
         NEW s \in [Types -> 0..Circle], Written(mem, c, h, s),
         NEW type \in Types, WindowClean(type, s), NEW i \in 1..MsgBits[type]
  PROVE  /\ DataOf(type, c) + (c % ByteBits) + i - 1 \in Cell
         /\ DataOf(type, c) + (c % ByteBits) + i - 1 >= DataOf(type, c)
         /\ mem[DataOf(type, c) + (c % ByteBits) + i - 1] = Window(type, h)[i]
<1> DEFINE M == MsgBits[type]
           r == c % ByteBits
           x == DataOf(type, c) + r + i - 1
           a == IF type = "scm" THEN M - i + 1 ELSE IF i = 1 THEN 0 ELSE Circle - i + 1
<1>1. /\ Circle \in Nat /\ Circle > 2 /\ c \in Nat /\ c < Circle
      /\ M \in Nat /\ M <= Circle /\ i \in Nat /\ 1 <= i /\ i <= M
      /\ (type = "scm" => M < Circle)
  BY CircleFacts, MsgBitsFacts, SizeFacts
<1>2. r \in Nat /\ ByteOf(c) \in Nat /\ ByteOf(c) + r = c
  BY ByteOfFacts
<1>3. DataOf(type, c) = IF type = "scm" THEN ByteOf(c) + Circle - M ELSE ByteOf(c)
  BY DEF DataOf, MsgBits
<1>4. \A t \in Types : s[t] \in Nat /\ s[t] <= Circle
  BY CircleFacts
<1> HIDE DEF r, M
<1>5. x = IF type = "scm" THEN c + Circle - M + i - 1 ELSE c + i - 1
  BY <1>1, <1>2, <1>3
<1>6. x \in Cell /\ x >= DataOf(type, c)
  BY <1>1, <1>2, <1>3, <1>5 DEF Cell
<1>7. a \in 0..(Circle - 1)
  BY <1>1
<1>8. a = 0 \/ Trusted(s, a - 1)
  <2> SUFFICES ASSUME a # 0 PROVE Trusted(s, a - 1)
    OBVIOUS
  <2>1. s["scm"] \in Nat /\ s["idm"] \in Nat /\ s["scmPlus"] \in Nat
    BY <1>4, TypeMembers
  <2>2. CASE \A t \in Types : s[t] >= Circle - 1
    <3>1. s["scm"] >= Circle - 1 /\ s["idm"] >= Circle - 1 /\ s["scmPlus"] >= Circle - 1
      BY <2>2, TypeMembers
    <3> QED
      BY <1>1, <1>7, <2>1, <3>1 DEF Trusted
  <2>3. CASE type = "scm" /\ \A t \in {"scmPlus", "idm"} : s[t] >= MsgBits["scm"] - 1
    <3>1. a = M - i + 1 /\ MsgBits["scm"] = M /\ s["idm"] >= M - 1 /\ s["scmPlus"] >= M - 1
      BY <2>3 DEF M
    <3> QED
      BY <1>1, <2>1, <3>1 DEF Trusted
  <2> QED
    BY <2>2, <2>3 DEF WindowClean
<1>9. Window(type, h)[i] = h[Circle - a]
  <2>1. Window(type, h)[i] = IF type = "scm" THEN h[Circle - M + i - 1]
                             ELSE IF i = 1 THEN h[Circle] ELSE h[i - 1]
    BY DEF Window, M
  <2>2. Circle - a = IF type = "scm" THEN Circle - M + i - 1
                     ELSE IF i = 1 THEN Circle ELSE i - 1
    BY <1>1
  <2> QED
    BY <2>1, <2>2
<1>10. x = c + Circle - a \/ (a = 0 /\ x = c)
  BY <1>1, <1>5
<1>11. a = 0 => Circle - a = Circle
  BY <1>1
<1> HIDE DEF a, x
<1>12. mem[x] = h[Circle - a]
  BY <1>7, <1>8, <1>10, <1>11, CellHeld
<1> QED
  BY <1>6, <1>9, <1>12 DEF x, r

(* In a clean window a preamble is found exactly if it was received, ...    *)
LEMMA FoundIs ==
  ASSUME NEW mem \in [Cell -> Bit], NEW c \in 0..(Circle - 1), NEW h,
         NEW s \in [Types -> 0..Circle], Written(mem, c, h, s),
         NEW type \in Types, WindowClean(type, s)
  PROVE  Found(mem, type, c) <=> Begins(Window(type, h), Preamble[type])
<1> DEFINE at == DataOf(type, c) + (c % ByteBits)
<1>1. Len(Preamble[type]) \in Nat /\ Len(Preamble[type]) <= MsgBits[type]
      /\ MsgBits[type] \in Nat
  BY PreamblesFit, MsgBitsFacts
<1>2. \A i \in 1..Len(Preamble[type]) : i \in 1..MsgBits[type]
  BY <1>1
<1>3. \A i \in 1..Len(Preamble[type]) : mem[at + i - 1] = Window(type, h)[i]
  BY <1>2, WindowHeld
<1> QED
  BY <1>3 DEF Found, StartsWith, Begins

(* ... and the message pushed is the one received.                         *)
LEMMA AlignedIs ==
  ASSUME NEW mem \in [Cell -> Bit], NEW c \in 0..(Circle - 1), NEW h,
         NEW s \in [Types -> 0..Circle], Written(mem, c, h, s),
         NEW type \in Types, WindowClean(type, s)
  PROVE  Aligned(WriteHeader(mem, type, c), type, c) = Window(type, h)
<1> DEFINE m == WriteHeader(mem, type, c)
           at == DataOf(type, c) + (c % ByteBits)
<1>1. \A i \in 1..MsgBits[type] : m[at + i - 1] = Window(type, h)[i]
  BY WindowHeld, HeaderKept
<1>2. Aligned(m, type, c) = [i \in 1..MsgBits[type] |-> m[at + i - 1]]
  BY DEF Aligned
<1>3. Window(type, h) = [i \in 1..MsgBits[type] |-> Window(type, h)[i]]
  BY DEF Window
<1> QED
  BY <1>1, <1>2, <1>3

-----------------------------------------------------------------------------
(* A call of the decoder.                                                  *)

(* A preamble lies in its message and has a one.                            *)
LEMMA PreambleFacts ==
  ASSUME NEW type \in Types
  PROVE  /\ Preamble[type] \in Seq(Bit) /\ Len(Preamble[type]) \in Nat
         /\ Len(Preamble[type]) <= MsgBits[type] /\ MsgBits[type] > 0
         /\ \E i \in 1..Len(Preamble[type]) : Preamble[type][i] = 1
<1>1. /\ Preamble[type] \in Seq(Bit) /\ Len(Preamble[type]) <= MsgBits[type]
      /\ \E i \in DOMAIN Preamble[type] : Preamble[type][i] = 1
  BY PreamblesFit
<1>2. Len(Preamble[type]) \in Nat /\ DOMAIN Preamble[type] = 1..Len(Preamble[type])
  BY <1>1
<1>3. PICK i \in 1..Len(Preamble[type]) : Preamble[type][i] = 1
  BY <1>1, <1>2
<1>4. MsgBits[type] > 0
  BY <1>1, <1>2, <1>3, MsgBitsFacts
<1> QED
  BY <1>1, <1>2, <1>3, <1>4

(* What the buffer keeps after the message found in it has its header.     *)
LEMMA HeadedKept ==
  ASSUME NEW mem \in [Cell -> Bit], NEW c \in 0..(Circle - 1), NEW h,
         NEW s \in [Types -> 0..Circle], Written(mem, c, h, s),
         NEW type \in Types \cup {"none"}, NEW s2,
         s2 = [t \in Types |-> IF t = type THEN 0 ELSE Smaller(s[t] + 1, Circle)],
         NEW m2, m2 = IF type = "none" THEN mem ELSE WriteHeader(mem, type, c)
  PROVE  /\ m2 \in [Cell -> Bit] /\ s2 \in [Types -> 0..Circle]
         /\ Kept(m2, c, h, s2)
<1>1. Circle \in Nat /\ Circle > 2 /\ MsgBits["scm"] \in Nat
  BY CircleFacts, MsgBitsFacts, TypeMembers
<1>2. m2 \in [Cell -> Bit]
  BY HeaderKept
<1>3. \A t \in Types : s[t] \in Nat /\ s[t] <= Circle
  BY <1>1
<1>4. s2 \in [Types -> 0..Circle]
  BY <1>1, <1>3 DEF Smaller
<1>5. \A t \in Types : t # type => s2[t] <= s[t] + 1 /\ s2[t] \in Nat
  BY <1>1, <1>3 DEF Smaller
<1>6. \A t \in Types : t = type => s2[t] = 0
  OBVIOUS
<1>7. ASSUME NEW d \in 0..(Circle - 1), Trusted(s2, Age(c, d))
      PROVE  m2[d] = h[Circle - Age(c, d)] /\ m2[d + Circle] = h[Circle - Age(c, d)]
  <2> DEFINE a == Age(c, d)
  <2>1. a \in Nat /\ (a = 0 <=> d = c)
    BY <1>1, AgeFacts
  <2>2. a <= s2["idm"] /\ a <= s2["scmPlus"] /\ (a <= s2["scm"] \/ a <= MsgBits["scm"])
    BY <1>7 DEF Trusted
  <2>3. \A t \in Types : s[t] \in Nat
    BY <1>3
  <2> HIDE DEF a
  <2>4. CASE type \in {"idm", "scmPlus"}
    <3>1. a = 0
      BY <1>6, <2>1, <2>2, <2>4, TypeMembers
    <3>2. mem[d] = h[Circle - a] /\ mem[d + Circle] = h[Circle - a]
      BY <3>1 DEF Written, a
    <3>3. type \in Types /\ type # "none" /\ d = c
      BY <2>1, <2>4, <3>1, TypeMembers
    <3>4. m2[d] = mem[d] /\ m2[d + Circle] = mem[d + Circle]
      BY <3>3, HeaderKept
    <3> QED
      BY <3>2, <3>4 DEF a
  <2>5. CASE type \notin {"idm", "scmPlus"}
    <3>1. s2["idm"] <= s["idm"] + 1 /\ s2["scmPlus"] <= s["scmPlus"] + 1
          /\ s2["idm"] \in Nat /\ s2["scmPlus"] \in Nat
          /\ s["idm"] \in Nat /\ s["scmPlus"] \in Nat /\ s["scm"] \in Nat
      BY <1>5, <2>3, <2>5, TypeMembers
    <3>2. CASE type = "scm"
      <4>1. a <= MsgBits["scm"]
        BY <1>1, <1>6, <2>1, <2>2, <3>2, TypeMembers
      <4>2. a = 0 \/ Trusted(s, a - 1)
        BY <1>1, <2>1, <2>2, <3>1, <4>1 DEF Trusted
      <4>3. mem[d] = h[Circle - a] /\ mem[d + Circle] = h[Circle - a]
        BY <4>2 DEF Written, a
      <4>4. m2[d] = mem[d] /\ m2[d + Circle] = mem[d + Circle]
        BY <3>2, <4>1, HeaderKept, TypeMembers DEF a
      <4> QED
        BY <4>3, <4>4 DEF a
    <3>3. CASE type = "none"
      <4>1. s2["scm"] <= s["scm"] + 1 /\ s2["scm"] \in Nat
        BY <1>5, <3>3, TypeMembers
      <4>2. a = 0 \/ Trusted(s, a - 1)
        BY <1>1, <2>1, <2>2, <3>1, <4>1 DEF Trusted
      <4> QED
        BY <3>3, <4>2 DEF Written, a
    <3> QED
      BY <2>5, <3>2, <3>3, TypeMembers
  <2> QED
    BY <2>4, <2>5
<1> QED
  BY <1>2, <1>4, <1>7 DEF Kept

(* What a message is recognised as, when the windows are clean.            *)
LEMMA RecognisedIs ==
  ASSUME NEW mem \in [Cell -> Bit], NEW c \in 0..(Circle - 1), NEW h,
         NEW s \in [Types -> 0..Circle], Written(mem, c, h, s)
  PROVE  /\ Recognised(mem, c) \in Types \cup {"none"}
         /\ WindowClean("scm", s) =>
              (Recognised(mem, c) = "scm" <=> Begins(Window("scm", h), Preamble["scm"]))
         /\ (\A t \in Types : WindowClean(t, s)) =>
              Recognised(mem, c) =
                IF Begins(Window("scm", h), Preamble["scm"]) THEN "scm"
                ELSE IF Begins(Window("idm", h), Preamble["idm"]) THEN "idm"
                ELSE IF Begins(Window("scmPlus", h), Preamble["scmPlus"]) THEN "scmPlus"
                ELSE "none"
<1>1. \A t \in Types : WindowClean(t, s) =>
        (Found(mem, t, c) <=> Begins(Window(t, h), Preamble[t]))
  BY FoundIs
<1> QED
  BY <1>1, TypeMembers DEF Recognised

(* What the properties call received, by the history. *)
LEMMA ReceivedIs ==
  \A b \in Buffers, type \in Types :
    hist[b] \in Seq(Bit) /\ Len(hist[b]) = Circle /\ gone[b] \in Bit =>
      Received(type, b) = Arrived(type, hist[b], gone[b])
<1>1. \A type \in Types : MsgBits[type] > 0
  BY PreambleFacts
<1> QED
  BY <1>1, ArrivedIs DEF Received

(* The window differs from it in the first bit of the longer messages only. *)
LEMMA WindowArrived ==
  ASSUME NEW type \in Types, NEW h, NEW g
  PROVE  /\ type = "scm" \/ h[Circle] = g => Window(type, h) = Arrived(type, h, g)
         /\ \A i \in 1..MsgBits[type] :
              i > 1 => Window(type, h)[i] = Arrived(type, h, g)[i]
<1>1. MsgBits[type] \in Nat
  BY MsgBitsFacts
<1>2. type = "scm" \/ h[Circle] = g => Window(type, h) = Arrived(type, h, g)
  BY DEF Window, Arrived
<1>3. \A i \in 1..MsgBits[type] : i > 1 => Window(type, h)[i] = Arrived(type, h, g)[i]
  <2> SUFFICES ASSUME NEW i \in 1..MsgBits[type], i > 1
               PROVE  Window(type, h)[i] = Arrived(type, h, g)[i]
    OBVIOUS
  <2>1. i # 1
    BY <1>1
  <2> QED
    BY <2>1 DEF Window, Arrived
<1> QED
  BY <1>2, <1>3

(* What the code makes of its windows, in terms of the history.            *)
BeginsWith(h) ==
  IF Begins(Window("scm", h), Preamble["scm"]) THEN "scm"
  ELSE IF Begins(Window("idm", h), Preamble["idm"]) THEN "idm"
  ELSE IF Begins(Window("scmPlus", h), Preamble["scmPlus"]) THEN "scmPlus"
  ELSE "none"

AloneOf(p, h) ==
  (\A t \in Types : p.since[t] >= Circle - 1) =>
    /\ p.type = BeginsWith(h)
    /\ p.type # "none" => p.bits = Window(p.type, h)

AloneInv == AloneOf(pushed, hist[active])

ScmOf(p, h) ==
  /\ p.type = "scm" \/ Begins(Window("scm", h), Preamble["scm"])
  /\ \A t \in {"scmPlus", "idm"} : p.since[t] >= MsgBits["scm"] - 1
  => p.type = "scm" /\ p.bits = Window("scm", h)

IInv == TypeInv /\ KeptInv /\ AloneInv /\ ScmAfterScm

(* Received and Sent by the history of the active buffer.                   *)
LEMMA SentIs ==
  ASSUME TypeInv, NEW type \in Types
  PROVE  /\ Received(type, active) = Arrived(type, hist[active], gone[active])
         /\ type = "scm" \/ FirstBitKept(active) =>
              /\ Received(type, active) = Window(type, hist[active])
              /\ Sent(type, active) <=>
                   Begins(Window(type, hist[active]), Preamble[type])
<1>1. /\ active \in Buffers /\ hist[active] \in Seq(Bit) /\ Len(hist[active]) = Circle
      /\ gone[active] \in Bit
  BY DEF TypeInv, TypeOK
<1>2. Received(type, active) = Arrived(type, hist[active], gone[active])
  BY <1>1, ReceivedIs
<1>3. type = "scm" \/ FirstBitKept(active) =>
        Received(type, active) = Window(type, hist[active])
  BY <1>2, WindowArrived DEF FirstBitKept
<1> QED
  BY <1>2, <1>3 DEF Sent

(* The invariant says what AloneIsExact does.                               *)
LEMMA AloneNow == TypeInv /\ AloneInv => AloneIsExact
<1> SUFFICES ASSUME TypeInv, AloneInv, Quiet(Types, Circle - 1)
             PROVE  /\ pushed.type = "scm" <=> Sent("scm", active)
                    /\ FirstBitKept(active) =>
                         pushed.type = IF Sent("scm", active) THEN "scm"
                                       ELSE IF Sent("idm", active) THEN "idm"
                                       ELSE IF Sent("scmPlus", active) THEN "scmPlus"
                                       ELSE "none"
                    /\ pushed.type # "none" =>
                         \A i \in 1..MsgBits[pushed.type] :
                           i > 1 \/ pushed.type = "scm" \/ FirstBitKept(active) =>
                             pushed.bits[i] = Received(pushed.type, active)[i]
  BY DEF AloneIsExact
<1>1. pushed.type \in Types \cup {"none"}
  BY DEF TypeInv, TypeOK
<1>2. /\ pushed.type = BeginsWith(hist[active])
      /\ pushed.type # "none" => pushed.bits = Window(pushed.type, hist[active])
  BY DEF AloneInv, AloneOf, Quiet
<1>3. Sent("scm", active) <=> Begins(Window("scm", hist[active]), Preamble["scm"])
  BY SentIs, TypeMembers
<1>4. pushed.type = "scm" <=> Sent("scm", active)
  BY <1>2, <1>3 DEF BeginsWith
<1>5. ASSUME FirstBitKept(active)
      PROVE  pushed.type = IF Sent("scm", active) THEN "scm"
                           ELSE IF Sent("idm", active) THEN "idm"
                           ELSE IF Sent("scmPlus", active) THEN "scmPlus"
                           ELSE "none"
  BY <1>2, <1>5, SentIs, TypeMembers DEF BeginsWith
<1>6. ASSUME pushed.type # "none", NEW i \in 1..MsgBits[pushed.type],
             i > 1 \/ pushed.type = "scm" \/ FirstBitKept(active)
      PROVE  pushed.bits[i] = Received(pushed.type, active)[i]
  <2>1. pushed.type \in Types /\ pushed.bits = Window(pushed.type, hist[active])
    BY <1>1, <1>2, <1>6
  <2>2. CASE i > 1
    BY <2>1, <2>2, SentIs, WindowArrived
  <2>3. CASE pushed.type = "scm" \/ FirstBitKept(active)
    BY <2>1, <2>3, SentIs
  <2> QED
    BY <1>6, <2>2, <2>3
<1> QED
  BY <1>4, <1>5, <1>6

(* ScmAfterScm says ScmOf.                                                  *)
LEMMA ScmNow == TypeInv => (ScmAfterScm <=> ScmOf(pushed, hist[active]))
<1> SUFFICES ASSUME TypeInv PROVE ScmAfterScm <=> ScmOf(pushed, hist[active])
  OBVIOUS
<1>1. Quiet({"scmPlus", "idm"}, MsgBits["scm"] - 1) <=>
        \A t \in {"scmPlus", "idm"} : pushed.since[t] >= MsgBits["scm"] - 1
  BY DEF Quiet
<1>2. /\ Received("scm", active) = Window("scm", hist[active])
      /\ Sent("scm", active) <=> Begins(Window("scm", hist[active]), Preamble["scm"])
  BY SentIs, TypeMembers
<1> QED
  BY <1>1, <1>2 DEF ScmAfterScm, ScmOf

(* The same after a step.                                                   *)
LEMMA ScmNext == TypeInv' => (ScmAfterScm' <=> ScmOf(pushed', hist'[active']))
<1>1. (TypeInv => (ScmAfterScm <=> ScmOf(pushed, hist[active])))'
  BY ScmNow, PTL
<1> QED
  BY <1>1

(* A call of amrProcessRxBit keeps the invariant.                           *)
LEMMA DecodeStep ==
  ASSUME IInv, NEW rxBit \in Bit, amrProcessRxBit(rxBit)
  PROVE  IInv'
<1>a. PICK b : b = 1 - active
  OBVIOUS
<1>b. PICK c : c = rxBufHeadBit
  OBVIOUS
<1>c. PICK bit : bit = manchBit(prevRxBit, rxBit)
  OBVIOUS
<1>d. PICK mem : mem = WriteBit(rxBuf[b], c, bit)
  OBVIOUS
<1>e. PICK type : type = Recognised(mem, c)
  OBVIOUS
<1>f. PICK m2 : m2 = IF type = "none" THEN mem ELSE WriteHeader(mem, type, c)
  OBVIOUS
<1>g. PICK h2 : h2 = Append(Tail(hist[b]), bit)
  OBVIOUS
<1>h. PICK s : s = since[b]
  OBVIOUS
<1>i. PICK s2 : s2 = [t \in Types |-> IF t = type THEN 0 ELSE Smaller(s[t] + 1, Circle)]
  OBVIOUS
<1>0. TypeInv /\ KeptInv
  BY DEF IInv
<1>1. Circle \in Nat /\ Circle > 2 /\ b \in Buffers /\ active \in Buffers /\ active # b
      /\ c \in 0..(Circle - 1) /\ bit \in Bit
  BY <1>0, <1>a, <1>b, <1>c, CircleFacts DEF TypeInv, TypeOK, Buffers, manchBit, Bit
<1>2. /\ rxBuf \in [Buffers -> [Cell -> Bit]] /\ rxBuf[b] \in [Cell -> Bit]
      /\ since \in [Buffers -> [Types -> 0..Circle]] /\ s \in [Types -> 0..Circle]
      /\ hist \in [Buffers -> Seq(Bit)] /\ hist[b] \in Seq(Bit) /\ Len(hist[b]) = Circle
      /\ \A a \in Buffers : hist[a] \in Seq(Bit) /\ Len(hist[a]) = Circle
      /\ \A a \in Buffers : DOMAIN hist[a] = 1..Circle
  BY <1>0, <1>1, <1>h DEF TypeInv, TypeOK
<1>3. /\ active' = b /\ prevRxBit' = rxBit
      /\ rxBufHeadBit' = IF b = 1 THEN NextHead(c) ELSE c
      /\ hist' = [hist EXCEPT ![b] = h2]
      /\ gone' = [gone EXCEPT ![b] = hist[b][1]]
  BY <1>a, <1>b, <1>c, <1>g DEF amrProcessRxBit, Decode
<1>4. since' = [since EXCEPT ![b] = s2]
  BY <1>a, <1>b, <1>c, <1>d, <1>e, <1>h, <1>i DEF amrProcessRxBit, Decode
<1>5. /\ rxBuf' = [rxBuf EXCEPT ![b] = m2] /\ pushed'.since = s /\ pushed'.type = type
      /\ type # "none" => pushed'.bits = Aligned(m2, type, c)
  BY <1>a, <1>b, <1>c, <1>d, <1>e, <1>f, <1>h DEF amrProcessRxBit, Decode
<1>6. LastCell(b) = Prev(c)
  BY <1>1, <1>a, <1>b DEF LastCell, Buffers
<1>7. mem \in [Cell -> Bit] /\ Written(mem, c, h2, s)
  <2>1. Kept(rxBuf[b], Prev(c), hist[b], s)
    BY <1>0, <1>1, <1>6, <1>h DEF KeptInv
  <2> QED
    BY <1>1, <1>2, <1>d, <1>g, <2>1, WriteKept
<1>8. h2 \in Seq(Bit) /\ Len(h2) = Circle
  BY <1>1, <1>2, <1>g, HistoryMoves
<1>9. type \in Types \cup {"none"}
  BY <1>1, <1>2, <1>7, <1>e, RecognisedIs
<1>10. m2 \in [Cell -> Bit] /\ s2 \in [Types -> 0..Circle] /\ Kept(m2, c, h2, s2)
  <2>1. mem \in [Cell -> Bit] /\ c \in 0..(Circle - 1) /\ Written(mem, c, h2, s)
        /\ s \in [Types -> 0..Circle] /\ type \in Types \cup {"none"}
    BY <1>1, <1>2, <1>7, <1>9
  <2> HIDE <1>0
  <2> QED
    BY <2>1, <1>f, <1>i, HeadedKept
<1>11. /\ rxBuf'[b] = m2 /\ since'[b] = s2
       /\ \A a \in Buffers \ {b} : rxBuf'[a] = rxBuf[a] /\ since'[a] = since[a]
       /\ rxBuf' \in [Buffers -> [Cell -> Bit]]
       /\ since' \in [Buffers -> [Types -> 0..Circle]]
  BY <1>1, <1>2, <1>4, <1>5, <1>10
<1>12. hist'[b] = h2 /\ \A a \in Buffers \ {b} : hist'[a] = hist[a]
  BY <1>1, <1>2, <1>3
<1>13. rxBufHeadBit' \in 0..(Circle - 1)
       /\ (b = 1 => Prev(rxBufHeadBit') = c /\ rxBufHeadBit' # c)
  BY <1>1, <1>3 DEF NextHead, Prev
<1>14. TypeInv'
  <2>1. /\ hist' \in [Buffers -> Seq(Bit)]
        /\ \A a \in Buffers : hist'[a] \in Seq(Bit) /\ Len(hist'[a]) = Circle
    BY <1>2, <1>3, <1>8, <1>12
  <2>2. \A a \in Buffers : DOMAIN hist'[a] = 1..Circle
    BY <2>1
  <2>3. gone' \in [Buffers -> Bit]
    <3>1. gone \in [Buffers -> Bit] /\ hist[b][1] \in Bit
      BY <1>0, <1>1, <1>2 DEF TypeInv, TypeOK
    <3> QED
      BY <1>3, <3>1
  <2>4. TypeOK'
    BY <1>1, <1>3, <1>5, <1>9, <1>11, <1>13, <2>2, <2>3 DEF TypeOK
  <2> QED
    BY <1>2, <1>5, <2>1, <2>4 DEF TypeInv
<1>15. KeptInv'
  <2> SUFFICES ASSUME NEW a \in Buffers
               PROVE  Kept(rxBuf'[a], LastCell(a)', hist'[a], since'[a])
    BY DEF KeptInv
  <2>1. CASE a = b
    <3>1. LastCell(b)' = c
      BY <1>1, <1>3, <1>13 DEF LastCell, Buffers
    <3> QED
      BY <1>10, <1>11, <1>12, <2>1, <3>1
  <2>2. CASE a # b
    <3>1. LastCell(a)' = LastCell(a)
      BY <1>1, <1>3, <1>13, <1>b, <2>2 DEF LastCell, Buffers
    <3>2. Kept(rxBuf[a], LastCell(a), hist[a], since[a])
      BY <1>0 DEF KeptInv
    <3> QED
      BY <1>11, <1>12, <2>2, <3>1, <3>2
  <2> QED
    BY <2>1, <2>2
<1>16. TypeInv' /\ pushed'.type = type /\ pushed'.since = s /\ hist'[active'] = h2
  BY <1>3, <1>5, <1>12, <1>14
<1>17. ASSUME type \in Types, WindowClean(type, s)
       PROVE  pushed'.bits = Window(type, h2)
  <2>1. type # "none" /\ m2 = WriteHeader(mem, type, c)
    BY <1>17, <1>f, TypeMembers
  <2>2. Aligned(m2, type, c) = Window(type, h2)
    BY <1>1, <1>2, <1>7, <1>17, <2>1, AlignedIs
  <2> QED
    BY <1>5, <2>1, <2>2
<1>18. AloneInv'
  <2> SUFFICES ASSUME \A t \in Types : s[t] >= Circle - 1
               PROVE  /\ type = BeginsWith(h2)
                      /\ type # "none" => pushed'.bits = Window(type, h2)
    BY <1>16 DEF AloneInv, AloneOf
  <2>1. \A t \in Types : WindowClean(t, s)
    BY DEF WindowClean
  <2>2. type = BeginsWith(h2)
    BY <1>1, <1>2, <1>7, <1>e, <2>1, RecognisedIs DEF BeginsWith
  <2> QED
    BY <1>9, <1>17, <2>1, <2>2
<1>19. ScmAfterScm'
  <2> SUFFICES ASSUME type = "scm" \/ Begins(Window("scm", h2), Preamble["scm"]),
                      \A t \in {"scmPlus", "idm"} : s[t] >= MsgBits["scm"] - 1
               PROVE  type = "scm" /\ pushed'.bits = Window("scm", h2)
    BY <1>16, ScmNext DEF ScmOf
  <2>1. WindowClean("scm", s)
    BY DEF WindowClean
  <2>2. type = "scm" <=> Begins(Window("scm", h2), Preamble["scm"])
    BY <1>1, <1>2, <1>7, <1>e, <2>1, RecognisedIs
  <2> QED
    BY <1>17, <2>1, <2>2, TypeMembers
<1> QED
  BY <1>14, <1>15, <1>18, <1>19 DEF IInv

(* In silence nothing has been pushed, and nothing looks like a message.    *)
LEMMA DecoderInit == Init => IInv
<1> SUFFICES ASSUME Init PROVE IInv
  OBVIOUS
<1>1. Circle \in Nat /\ Circle > 2
  BY CircleFacts
<1>2. /\ rxBuf = [b \in Buffers |-> [d \in Cell |-> 0]] /\ active = 0
      /\ rxBufHeadBit = 0 /\ prevRxBit = 0
      /\ pushed.type = "none" /\ pushed.since = LongAgo
      /\ hist = [b \in Buffers |-> [i \in 1..Circle |-> 0]]
      /\ gone = [b \in Buffers |-> 0]
      /\ since = [b \in Buffers |-> LongAgo]
  BY DEF Init
<1>3. LongAgo \in [Types -> 0..Circle]
  BY <1>1 DEF LongAgo
<1>4. \A b \in Buffers : /\ hist[b] \in Seq(Bit) /\ Len(hist[b]) = Circle
                         /\ DOMAIN hist[b] = 1..Circle
                         /\ \A i \in 1..Circle : hist[b][i] = 0
  <2>1. [i \in 1..Circle |-> 0] \in Seq(Bit) /\ Len([i \in 1..Circle |-> 0]) = Circle
    BY <1>1 DEF Bit
  <2> QED
    BY <1>2, <2>1
<1>5. TypeInv
  <2>1. rxBuf \in [Buffers -> [Cell -> Bit]]
    BY <1>2 DEF Bit
  <2>2. active \in Buffers /\ rxBufHeadBit \in 0..(Circle - 1) /\ prevRxBit \in Bit
    BY <1>1, <1>2 DEF Buffers, Bit
  <2>3. since \in [Buffers -> [Types -> 0..Circle]] /\ gone \in [Buffers -> Bit]
    BY <1>2, <1>3 DEF Bit
  <2> QED
    BY <1>2, <1>3, <1>4, <2>1, <2>2, <2>3 DEF TypeInv, TypeOK
<1>6. KeptInv
  <2> SUFFICES ASSUME NEW b \in Buffers, NEW d \in 0..(Circle - 1)
               PROVE  /\ rxBuf[b][d] = hist[b][Circle - Age(LastCell(b), d)]
                      /\ rxBuf[b][d + Circle] = hist[b][Circle - Age(LastCell(b), d)]
    BY DEF KeptInv, Kept
  <2>1. LastCell(b) \in 0..(Circle - 1)
    BY <1>1, <1>2 DEF LastCell, Prev
  <2>2. Circle - Age(LastCell(b), d) \in 1..Circle
    BY <1>1, <2>1, AgeFacts
  <2>3. d \in Cell /\ d + Circle \in Cell
    BY <1>1 DEF Cell
  <2> QED
    BY <1>2, <1>4, <2>2, <2>3
<1>7. ASSUME NEW t \in Types PROVE ~Begins(Window(t, hist[active]), Preamble[t])
  <2>1. active \in Buffers
    BY <1>2 DEF Buffers
  <2>2. PICK i \in 1..Len(Preamble[t]) : Preamble[t][i] = 1
    BY PreambleFacts
  <2>3. MsgBits[t] \in Nat /\ MsgBits[t] <= Circle /\ i \in 1..MsgBits[t]
        /\ (t = "scm" => MsgBits[t] < Circle)
    BY PreambleFacts, MsgBitsFacts, SizeFacts
  <2>4. Window(t, hist[active])[i] = 0
    <3>1. t = "scm" => Circle - MsgBits[t] + i - 1 \in 1..Circle
      BY <1>1, <2>3
    <3>2. i # 1 => i - 1 \in 1..Circle
      BY <1>1, <2>3
    <3>3. Circle \in 1..Circle
      BY <1>1
    <3> QED
      BY <1>4, <2>1, <2>3, <3>1, <3>2, <3>3 DEF Window
  <2> QED
    BY <2>2, <2>4 DEF Begins
<1>8. AloneInv
  BY <1>2, <1>7, TypeMembers DEF AloneInv, AloneOf, BeginsWith
<1>9. ScmAfterScm
  BY <1>2, <1>5, <1>7, ScmNow, TypeMembers DEF ScmOf
<1> QED
  BY <1>5, <1>6, <1>8, <1>9 DEF IInv

-----------------------------------------------------------------------------
(* The theorems.                                                           *)

(* The invariant holds in every state.                                      *)
LEMMA DecoderInvariant == Spec => []IInv
<1>1. IInv /\ [Next]_vars => IInv'
  <2> SUFFICES ASSUME IInv, [Next]_vars PROVE IInv'
    OBVIOUS
  <2>1. CASE Next
    <3>1. PICK rxBit \in Bit : amrProcessRxBit(rxBit)
      BY <2>1 DEF Next
    <3> QED
      BY <3>1, DecodeStep
  <2>2. CASE UNCHANGED vars
    <3>1. TypeInv' /\ KeptInv'
      BY <2>2 DEF IInv, TypeInv, TypeOK, KeptInv, LastCell, vars
    <3>2. AloneInv' /\ ScmAfterScm'
      BY <2>2 DEF IInv, AloneInv, ScmAfterScm, Quiet, Sent, Received, vars
    <3> QED
      BY <3>1, <3>2 DEF IInv
  <2> QED
    BY <2>1, <2>2
<1> QED
  BY DecoderInit, <1>1, PTL DEF Spec

(* Every write of amrProcessRxBit stays inside its buffer, for every bit    *)
(* stream and all sizes of messages and headers that fit.                  *)
THEOREM DecoderTypes == Spec => []TypeOK
<1>1. IInv => TypeOK
  BY DEF IInv, TypeInv
<1> QED
  BY <1>1, DecoderInvariant, PTL

(* Of a message on the air alone, in either alignment and at any bit       *)
(* offset, whatever the bits before it were, amrProcessRxBit pushes an SCM  *)
(* exactly when one was received, and intact; an IDM or SCM+ exactly when   *)
(* received and intact if the bit that overwrites its first one is the      *)
(* same, and all but that bit intact otherwise.                            *)
THEOREM DecoderAlone == Spec => []AloneIsExact
<1>1. IInv => AloneIsExact
  BY AloneNow DEF IInv
<1> QED
  BY <1>1, DecoderInvariant, PTL

(* amrProcessRxBit pushes an SCM intact even right after other SCMs: the    *)
(* header it writes for one never lands in the next.                       *)
THEOREM DecoderScms == Spec => []ScmAfterScm
<1>1. IInv => ScmAfterScm
  BY DEF IInv
<1> QED
  BY <1>1, DecoderInvariant, PTL

=============================================================================
