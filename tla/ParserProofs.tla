--------------------------- MODULE ParserProofs ---------------------------
(***************************************************************************)
(* Theorems of Parsers.  A struct is compared with the layout of its        *)
(* message bit by bit: every conversion is described by the bits it lets    *)
(* through, the loops of extractBits and of the checksums by induction over *)
(* their turns.  A checksum is linear, so an error shows in any message if  *)
(* it shows in the message of zeros.                                        *)
(***************************************************************************)
EXTENDS Parsers, TLAPS, WellFoundedInduction, FiniteSetTheorems

-----------------------------------------------------------------------------
(* A set of natural numbers has a least element: the intervals below its
   elements are finite sets, which strict inclusion orders well. *)
LEMMA Least ==
  ASSUME NEW T \in SUBSET Nat, T # {}
  PROVE  \E x \in T : \A y \in T : x <= y
<1> DEFINE Upto(x) == 0..x
           R == StrictSubsetOrdering(Nat)
           Cs == {Upto(x) : x \in T}
<1>1. IsWellFoundedOn(R, FiniteSubsetsOf(Nat))
  BY FS_StrictSubsetOrderingWellFounded, Zenon
<1>2. Cs \subseteq FiniteSubsetsOf(Nat)
  <2>1. \A x \in T : IsFiniteSet(0..x) /\ 0..x \in SUBSET Nat
    BY FS_Interval
  <2> QED
    BY <2>1 DEF FiniteSubsetsOf
<1>3. Cs # {}
  OBVIOUS
<1>4. PICK c \in Cs : \A d \in Cs : <<d, c>> \notin R
  <2> HIDE DEF R, Cs
  <2> QED
    BY <1>1, <1>2, <1>3, WFMin
<1>5. PICK x \in T : c = 0..x
  BY <1>4
<1>6. ASSUME NEW y \in T, y < x PROVE FALSE
  <2>1. 0..y \in Cs /\ 0..y \subseteq 0..x /\ 0..y # 0..x
    BY <1>6
  <2>2. 0..y \in SUBSET Nat /\ 0..x \in SUBSET Nat
    OBVIOUS
  <2>3. <<0..y, 0..x>> \in R
    BY <2>1, <2>2 DEF StrictSubsetOrdering
  <2> QED
    BY <2>1, <2>3, <1>4, <1>5
<1> QED
  BY <1>6

(* A set that holds zero and, with a number, the next holds all of them. *)
LEMMA Induction ==
  ASSUME NEW S, 0 \in S, \A n \in Nat : n \in S => n + 1 \in S
  PROVE  Nat \subseteq S
<1> SUFFICES ASSUME Nat \ S # {} PROVE FALSE
  OBVIOUS
<1>1. PICK x \in Nat \ S : \A y \in Nat \ S : x <= y
  <2> DEFINE T == Nat \ S
  <2>1. T \in SUBSET Nat /\ T # {}
    OBVIOUS
  <2> HIDE DEF T
  <2>2. \E x \in T : \A y \in T : x <= y
    BY <2>1, Least
  <2> QED
    BY <2>2 DEF T
<1>2. x # 0 /\ x - 1 \in Nat /\ x - 1 \in S
  BY <1>1
<1> QED
  BY <1>1, <1>2

-----------------------------------------------------------------------------
(* Numbers as sets of bits, element by element. *)

(* The bits of v << n, of v >> n, of a byte and of a number as it was sent. *)
LEMMA LeftIn ==
  ASSUME NEW v \in SUBSET Int, NEW n \in Int, NEW w \in Int, NEW x
  PROVE  x \in Left(v, n, w) <=> x \in Low(w) /\ x - n \in v
  BY DEF Left, Low

LEMMA RightIn ==
  ASSUME NEW v \in SUBSET Int, NEW n \in Int, NEW x
  PROVE  x \in Right(v, n) <=> x \in Nat /\ x + n \in v
  BY DEF Right

LEMMA ByteIn ==
  ASSUME NEW m \in SUBSET Int, NEW i \in Int, NEW x
  PROVE  x \in Byte(m, i) <=> x \in 0..7 /\ 8 * i + 7 - x \in m
  BY DEF Byte, Low

LEMMA SentIn ==
  ASSUME NEW m \in SUBSET Int, NEW p \in Int, NEW w \in Int, NEW x
  PROVE  x \in Sent(m, p, w) <=> x \in Low(w) /\ p + w - 1 - x \in m
  BY DEF Sent, Low

(* A byte is the eight bits sent there. *)
LEMMA ByteSent ==
  ASSUME NEW m \in SUBSET Int, NEW i \in Int
  PROVE  Byte(m, i) = Sent(m, 8 * i, 8)
<1>1. \A x : x \in Sent(m, 8 * i, 8) <=> x \in 0..7 /\ 8 * i + 8 - 1 - x \in m
  BY SentIn DEF Low
<1> QED
  BY <1>1, ByteIn

(* The bits of an integer that memcpy has put together on a little-endian  *)
(* host.                                                                   *)
LEMMA MemcpyIn ==
  ASSUME NEW m \in SUBSET Int, NEW i \in Int, NEW n \in 1..4,
         NEW k \in 0..3, NEW y \in 0..7
  PROVE  8 * k + y \in memcpy(m, i, n) <=> k < n /\ 8 * (i + k) + 7 - y \in m
<1>1. \A j \in Int : Byte(m, i + j) \in SUBSET Int
  BY ByteIn
<1>2. \A j \in Low(n) : 8 * k + y \in Left(Byte(m, i + j), 8 * j, 32) <=>
                          j = k /\ 8 * (i + k) + 7 - y \in m
  <2> TAKE j \in Low(n)
  <2>1. j \in 0..3
    BY DEF Low
  <2>2. 8 * k + y \in Left(Byte(m, i + j), 8 * j, 32) <=>
          8 * k + y \in Low(32) /\ 8 * k + y - 8 * j \in Byte(m, i + j)
    BY <1>1, <2>1, LeftIn
  <2>3. 8 * k + y - 8 * j \in Byte(m, i + j) <=>
          8 * k + y - 8 * j \in 0..7 /\ 8 * (i + j) + 7 - (8 * k + y - 8 * j) \in m
    BY <2>1, ByteIn
  <2> QED
    BY <2>1, <2>2, <2>3 DEF Low
<1> QED
  BY <1>2 DEF memcpy, Low

(* It has 32 bits at most. *)
LEMMA MemcpyBits ==
  ASSUME NEW m \in SUBSET Int, NEW i \in Int, NEW n \in 1..4
  PROVE  memcpy(m, i, n) \subseteq 0..31
<1>1. \A j \in Int : Byte(m, i + j) \in SUBSET Int
  BY ByteIn
<1> QED
  BY <1>1, LeftIn DEF memcpy, Low

(* Two numbers are the same if their bytes are. *)
LEMMA SameBytes ==
  ASSUME NEW n \in 1..4, NEW u, NEW v, u \subseteq 0..(8 * n - 1), v \subseteq 0..(8 * n - 1),
         \A k \in 0..(n - 1) : \A y \in 0..7 : 8 * k + y \in u <=> 8 * k + y \in v
  PROVE  u = v
<1>1. ASSUME NEW x \in 0..(8 * n - 1) PROVE x \in u <=> x \in v
  <2>1. PICK k \in 0..(n - 1), y \in 0..7 : x = 8 * k + y
    <3>1. x \div 8 \in 0..(n - 1) /\ x % 8 \in 0..7 /\ x = 8 * (x \div 8) + (x % 8)
      OBVIOUS
    <3> QED
      BY <3>1
  <2> QED
    BY <2>1
<1> QED
  BY <1>1

(* The bits of a number of whole bytes as it was sent, byte by byte. *)
LEMMA SentBytes ==
  ASSUME NEW m \in SUBSET Int, NEW i \in Int, NEW n \in 1..4
  PROVE  /\ Sent(m, 8 * i, 8 * n) \subseteq 0..(8 * n - 1)
         /\ \A k \in 0..(n - 1) : \A y \in 0..7 :
              8 * k + y \in Sent(m, 8 * i, 8 * n) <=> 8 * (i + n - 1 - k) + 7 - y \in m
<1>1. \A x : x \in Sent(m, 8 * i, 8 * n)
               <=> x \in 0..(8 * n - 1) /\ 8 * i + 8 * n - 1 - x \in m
  BY SentIn DEF Low
<1>2. ASSUME NEW k \in 0..(n - 1), NEW y \in 0..7
      PROVE  /\ 8 * k + y \in 0..(8 * n - 1)
             /\ 8 * i + 8 * n - 1 - (8 * k + y) = 8 * (i + n - 1 - k) + 7 - y
  OBVIOUS
<1> QED
  BY <1>1, <1>2

(* Integers in the order of the network, as they were sent. *)
LEMMA Net16 ==
  ASSUME NEW m \in SUBSET Int, NEW i \in Int
  PROVE  NTOH_16BIT(memcpy(m, i, 2)) = Sent(m, 8 * i, 16)
<1> DEFINE v == memcpy(m, i, 2)
           u == NTOH_16BIT(v)
           s == Sent(m, 8 * i, 8 * 2)
<1>1. v \in SUBSET Int
  BY MemcpyBits
<1>2. \A k \in 0..3 : \A y \in 0..7 : 8 * k + y \in v <=> k < 2 /\ 8 * (i + k) + 7 - y \in m
  BY MemcpyIn
<1> HIDE DEF v
<1>3. \A x : x \in u <=> \/ x \in 0..15 /\ x - 8 \in v
                         \/ x \in 0..7 /\ x + 8 \in v
  <2>1. \A x : /\ x \in Left(v, 8, 16) <=> x \in 0..15 /\ x - 8 \in v
               /\ x \in Right(v, 8) <=> x \in Nat /\ x + 8 \in v
    BY <1>1, LeftIn, RightIn DEF Low
  <2> QED
    BY <2>1 DEF NTOH_16BIT, Low
<1> HIDE DEF u
<1>4. v \subseteq 0..31
  BY MemcpyBits DEF v
<1>5. ASSUME NEW y \in 0..7 PROVE /\ 8 * 0 + y \in u <=> 8 * 1 + y \in v
                                  /\ 8 * 1 + y \in u <=> 8 * 0 + y \in v
  <2>1. /\ 8 * 0 + y = y /\ 8 * 1 + y = y + 8
        /\ (y + 8) - 8 = y /\ y - 8 \notin v
    BY <1>4
  <2> QED
    BY <1>3, <2>1
<1>6. \A k \in 0..1 : \A y \in 0..7 : 8 * k + y \in u <=> 8 * (i + 1 - k) + 7 - y \in m
  BY <1>2, <1>5
<1> DEFINE n == 2
<1>7. n \in 1..4 /\ u \subseteq 0..(8 * n - 1)
  BY <1>3
<1>8. /\ s \subseteq 0..(8 * n - 1)
      /\ \A k \in 0..(n - 1) : \A y \in 0..7 :
           8 * k + y \in s <=> 8 * (i + n - 1 - k) + 7 - y \in m
  BY <1>7, SentBytes
<1> HIDE DEF s
<1>9. \A k \in 0..(n - 1) : \A y \in 0..7 : 8 * k + y \in u <=> 8 * k + y \in s
  BY <1>6, <1>8
<1> HIDE DEF n
<1>10. u = s
  BY <1>7, <1>8, <1>9, SameBytes
<1> QED
  BY <1>10 DEF u, s, v

(* The same for four bytes. *)
LEMMA Net32 ==
  ASSUME NEW m \in SUBSET Int, NEW i \in Int
  PROVE  NTOH_32BIT(memcpy(m, i, 4)) = Sent(m, 8 * i, 32)
<1> DEFINE v == memcpy(m, i, 4)
           u == NTOH_32BIT(v)
           s == Sent(m, 8 * i, 8 * 4)
<1>1. v \in SUBSET Int
  BY MemcpyBits
<1>2. \A k \in 0..3 : \A y \in 0..7 : 8 * k + y \in v <=> k < 4 /\ 8 * (i + k) + 7 - y \in m
  BY MemcpyIn
<1> HIDE DEF v
<1>3. \A x : x \in u <=> \/ x \in 0..7 /\ x + 24 \in v
                         \/ x \in 8..15 /\ x + 8 \in v
                         \/ x \in 16..23 /\ x - 8 \in v
                         \/ x \in 24..31 /\ x - 24 \in v
  <2>1. \A x : /\ x \in Left(v, 8, 32) <=> x \in 0..31 /\ x - 8 \in v
               /\ x \in Left(v, 24, 32) <=> x \in 0..31 /\ x - 24 \in v
    BY <1>1, LeftIn DEF Low
  <2>2. \A x : /\ x \in Right(v, 8) <=> x \in Nat /\ x + 8 \in v
               /\ x \in Right(v, 24) <=> x \in Nat /\ x + 24 \in v
    BY <1>1, RightIn
  <2> QED
    BY <2>1, <2>2 DEF NTOH_32BIT, Low
<1> HIDE DEF u
<1>4. ASSUME NEW y \in 0..7 PROVE /\ 8 * 0 + y \in u <=> 8 * 3 + y \in v
                                  /\ 8 * 1 + y \in u <=> 8 * 2 + y \in v
                                  /\ 8 * 2 + y \in u <=> 8 * 1 + y \in v
                                  /\ 8 * 3 + y \in u <=> 8 * 0 + y \in v
  <2>1. /\ 8 * 0 + y = y /\ 8 * 1 + y = y + 8 /\ 8 * 2 + y = y + 16 /\ 8 * 3 + y = y + 24
        /\ (y + 8) + 8 = y + 16 /\ (y + 16) - 8 = y + 8 /\ (y + 24) - 24 = y
    OBVIOUS
  <2> QED
    BY <1>3, <2>1
<1>5. \A k \in 0..3 : \A y \in 0..7 : 8 * k + y \in u <=> 8 * (i + 3 - k) + 7 - y \in m
  BY <1>2, <1>4
<1> DEFINE n == 4
<1>6. n \in 1..4 /\ u \subseteq 0..(8 * n - 1)
  BY <1>3
<1>7. /\ s \subseteq 0..(8 * n - 1)
      /\ \A k \in 0..(n - 1) : \A y \in 0..7 :
           8 * k + y \in s <=> 8 * (i + n - 1 - k) + 7 - y \in m
  BY <1>6, SentBytes
<1> HIDE DEF s
<1>8. \A k \in 0..(n - 1) : \A y \in 0..7 : 8 * k + y \in u <=> 8 * k + y \in s
  BY <1>5, <1>7
<1> HIDE DEF n
<1>9. u = s
  BY <1>6, <1>7, <1>8, SameBytes
<1> QED
  BY <1>9 DEF u, s, v

-----------------------------------------------------------------------------
(* extractBits. *)

(* What the loop has after k turns: the bits up to there, the last 32.      *)
LEMMA TakesBytes ==
  ASSUME NEW m \in SUBSET Int, NEW i \in Int, NEW unused \in 1..8, NEW more \in Nat \ {0}
  PROVE  TakeBytes(m, i, Sent(m, 8 * (i + 1) - unused, unused), more)
           = Sent(m, 8 * (i + 1) - unused, unused + more) \cap 0..31
<1> DEFINE p == 8 * (i + 1) - unused
           start == Sent(m, p, unused)
           turns == (more + 7) \div 8
           bits(k) == IF 8 * k <= more THEN 8 * k ELSE more
           Upto(k) == Sent(m, p, unused + bits(k)) \cap 0..31
           Turn(out, k) == TakeByte(out, Byte(m, i + k), more - 8 * (k - 1))
           out == CHOOSE f :
                    f = [k \in 0..turns |-> IF k = 0 THEN start ELSE Turn(f[k - 1], k)]
<1>1. turns \in Nat /\ 8 * turns >= more /\ 8 * (turns - 1) < more
  OBVIOUS
<1>2. p \in Int /\ start = Upto(0)
  <2>1. \A x : x \in start <=> x \in 0..(unused - 1) /\ p + unused - 1 - x \in m
    BY SentIn DEF Low
  <2>2. \A x : x \in Upto(0) <=> x \in 0..(unused - 1) /\ p + unused - 1 - x \in m
    BY SentIn DEF Low
  <2> QED
    BY <2>1, <2>2
<1>3. ASSUME NEW k \in 1..turns PROVE Turn(Upto(k - 1), k) = Upto(k)
  <2> DEFINE left == more - 8 * (k - 1)
             byte == Byte(m, i + k)
  <2>1. /\ left \in Nat \ {0} /\ k \in Int /\ bits(k - 1) = 8 * (k - 1)
        /\ bits(k) = IF left <= 8 THEN 8 * (k - 1) + left ELSE 8 * (k - 1) + 8
    BY <1>1
  <2>2. \A x : x \in Upto(k - 1) <=>
               /\ x \in 0..31 /\ x \in 0..(unused + 8 * (k - 1) - 1)
               /\ p + unused + 8 * (k - 1) - 1 - x \in m
    BY <1>2, <2>1, SentIn DEF Low
  <2>3. \A x : x \in Upto(k) <=>
               /\ x \in 0..31 /\ x \in 0..(unused + bits(k) - 1)
               /\ p + unused + bits(k) - 1 - x \in m
    BY <1>2, <2>1, SentIn DEF Low
  <2>4. \A x : x \in byte <=> x \in 0..7 /\ 8 * (i + k) + 7 - x \in m
    BY ByteIn
  <2>5. 8 * (i + k) = p + unused + 8 * (k - 1)
    OBVIOUS
  <2> DEFINE base == p + unused + 8 * (k - 1)
             old == Upto(k - 1)
             most == unused + 8 * (k - 1)
  <2>6. base \in Int /\ most \in Nat /\ most > 0
    BY <1>2, <2>1
  <2>7. /\ \A x : x \in old <=> x \in 0..31 /\ x \in 0..(most - 1) /\ base - 1 - x \in m
        /\ \A x : x \in byte <=> x \in 0..7 /\ base + 7 - x \in m
    BY <2>2, <2>4, <2>5
  <2>8. CASE left <= 8
    <3>1. \A x : x \in Upto(k) <=>
                 x \in 0..31 /\ x \in 0..(most + left - 1) /\ base + left - 1 - x \in m
      BY <2>1, <2>3, <2>8
    <3>2. Turn(old, k) = Left(old, left, 32) \cup Right(byte, 8 - left)
      BY <2>8 DEF TakeByte
    <3> HIDE DEF left, byte, base, old, most, Upto, Turn
    <3>3. ASSUME NEW x PROVE x \in Left(old, left, 32) <=>
                               /\ x \in 0..31 /\ x - left \in 0..(most - 1) /\ x - left >= 0
                               /\ base + left - 1 - x \in m
      <4>1. x \in Left(old, left, 32) <=> x \in 0..31 /\ x - left \in old
        BY <2>1, <2>7, LeftIn DEF Low
      <4>2. x \in 0..31 /\ x - left >= 0 =>
              x - left \in 0..31 /\ base - 1 - (x - left) = base + left - 1 - x
        BY <2>1, <2>6
      <4> QED
        BY <2>7, <4>1, <4>2
    <3>4. ASSUME NEW x
          PROVE  x \in Right(byte, 8 - left)
                   <=> x \in 0..(left - 1) /\ base + left - 1 - x \in m
      <4>1. x \in Right(byte, 8 - left) <=> x \in Nat /\ x + (8 - left) \in byte
        BY <2>1, <2>7, RightIn
      <4>2. x \in Nat => base + 7 - (x + (8 - left)) = base + left - 1 - x
        BY <2>1, <2>6
      <4>3. x \in Nat => (x + (8 - left) \in 0..7 <=> x \in 0..(left - 1))
        BY <2>1, <2>8
      <4> QED
        BY <2>1, <2>7, <4>1, <4>2, <4>3
    <3>5. \A x : x \in 0..31 /\ x \in 0..(most + left - 1) <=>
                  \/ x \in 0..31 /\ x - left \in 0..(most - 1) /\ x - left >= 0
                  \/ x \in 0..(left - 1)
      BY <2>1, <2>6, <2>8
    <3>6. Turn(old, k) = Upto(k)
      BY <3>1, <3>2, <3>3, <3>4, <3>5
    <3> QED
      BY <3>6 DEF old
  <2>9. CASE left > 8
    <3>1. \A x : x \in Upto(k) <=> x \in 0..31 /\ x \in 0..(most + 7) /\ base + 7 - x \in m
      BY <2>1, <2>3, <2>9
    <3>2. Turn(old, k) = Left(old, 8, 32) \cup byte
      BY <2>1, <2>9 DEF TakeByte
    <3> HIDE DEF left, byte, base, old, most, Upto, Turn
    <3>3. ASSUME NEW x PROVE x \in Left(old, 8, 32) <=>
                               /\ x \in 0..31 /\ x - 8 \in 0..(most - 1) /\ base + 7 - x \in m
      <4>1. x \in Left(old, 8, 32) <=> x \in 0..31 /\ x - 8 \in old
        BY <2>1, <2>7, LeftIn DEF Low
      <4>2. x \in 0..31 => base - 1 - (x - 8) = base + 7 - x
        BY <2>1, <2>6
      <4> QED
        BY <2>6, <2>7, <4>1, <4>2
    <3>4. \A x : x \in 0..31 /\ x \in 0..(most + 7) <=>
                  \/ x \in 0..31 /\ x - 8 \in 0..(most - 1)
                  \/ x \in 0..7
      BY <2>6
    <3>5. Turn(old, k) = Upto(k)
      BY <2>7, <3>1, <3>2, <3>3, <3>4
    <3> QED
      BY <3>5 DEF old
  <2> QED
    BY <2>1, <2>8, <2>9
<1>4. \E f : f = [k \in 0..turns |-> IF k = 0 THEN start ELSE Turn(f[k - 1], k)]
  <2> DEFINE f == [k \in 0..turns |-> Upto(k)]
  <2>1. f = [k \in 0..turns |-> IF k = 0 THEN start ELSE Turn(f[k - 1], k)]
    <3>1. \A k \in 0..turns : Upto(k) = IF k = 0 THEN start ELSE Turn(f[k - 1], k)
      <4>1. \A k \in 1..turns : k - 1 \in 0..turns /\ f[k - 1] = Upto(k - 1)
        BY <1>1
      <4> HIDE DEF f, Upto, Turn
      <4> QED
        BY <1>2, <1>3, <4>1
    <3> QED
      BY <3>1
  <2> QED
    BY <2>1
<1>5. out = [k \in 0..turns |-> IF k = 0 THEN start ELSE Turn(out[k - 1], k)]
  BY <1>4
<1>6. TakeBytes(m, i, start, more) = out[turns]
  BY DEF TakeBytes, out
<1>7. bits(turns) = more
  BY <1>1
<1> HIDE DEF out, Turn, Upto, turns
<1>8. Nat \subseteq {k \in Nat : k <= turns => out[k] = Upto(k)}
  <2> DEFINE S == {k \in Nat : k <= turns => out[k] = Upto(k)}
  <2>1. 0 \in S
    BY <1>1, <1>2, <1>5
  <2>2. ASSUME NEW k \in Nat, k \in S PROVE k + 1 \in S
    <3> SUFFICES ASSUME k + 1 <= turns PROVE out[k + 1] = Upto(k + 1)
      OBVIOUS
    <3>1. out[k + 1] = Turn(out[k], k + 1) /\ out[k] = Upto(k)
      BY <1>1, <1>5, <2>2
    <3> QED
      BY <1>1, <1>3, <3>1
  <2> HIDE DEF S
  <2>3. Nat \subseteq S
    BY <2>1, <2>2, Induction
  <2> QED
    BY <2>3 DEF S
<1>9. out[turns] = Upto(turns)
  BY <1>1, <1>8
<1> QED
  BY <1>6, <1>7, <1>9 DEF Upto

(* extractBits gives the bits it is asked for, the last 32 of them.         *)
LEMMA Extracts ==
  ASSUME NEW m \in SUBSET Int, NEW first \in Nat, NEW offset \in Nat, NEW len \in Nat
  PROVE  extractBits(m, first, offset, len) = Sent(m, 8 * first + offset, len) \cap 0..31
<1> DEFINE i == first + (offset \div 8)
           unused == 8 - (offset % 8)
           more == len - unused
           start == Byte(m, i) \cap Low(unused)
           p == 8 * (i + 1) - unused
<1>1. i \in Nat /\ unused \in 1..8 /\ more \in Int /\ p = 8 * first + offset
  OBVIOUS
<1>2. extractBits(m, first, offset, len) =
        IF more <= 0 THEN Right(start, unused - len) ELSE TakeBytes(m, i, start, more)
  BY DEF extractBits
<1>3. len = unused + more
  BY <1>1
<1> HIDE DEF i, unused, more
<1>4. start = Sent(m, p, unused)
  <2>1. \A x : x \in start <=> x \in 0..7 /\ x \in 0..(unused - 1) /\ 8 * i + 7 - x \in m
    BY <1>1, ByteIn DEF Low
  <2>2. \A x : x \in Sent(m, p, unused) <=> x \in 0..(unused - 1) /\ p + unused - 1 - x \in m
    BY <1>1, SentIn DEF Low
  <2>3. \A x \in 0..(unused - 1) : x \in 0..7 /\ p + unused - 1 - x = 8 * i + 7 - x
    BY <1>1
  <2> QED
    BY <2>1, <2>2, <2>3
<1>5. CASE more <= 0
  <2>1. \A x : x \in Right(start, unused - len) <=> x \in Nat /\ x + (unused - len) \in start
    BY <1>1, <1>4, RightIn, SentIn DEF Low
  <2>2. \A x : x \in start <=> x \in 0..(unused - 1) /\ p + unused - 1 - x \in m
    BY <1>1, <1>4, SentIn DEF Low
  <2>3. \A x : x \in Sent(m, p, len) <=> x \in 0..(len - 1) /\ p + len - 1 - x \in m
    BY <1>1, SentIn DEF Low
  <2>4. \A x \in Nat : /\ x + (unused - len) \in 0..(unused - 1) <=> x \in 0..(len - 1)
                       /\ p + unused - 1 - (x + (unused - len)) = p + len - 1 - x
    BY <1>1, <1>3, <1>5
  <2>5. \A x \in 0..(len - 1) : x \in 0..31
    BY <1>1, <1>3, <1>5
  <2> HIDE DEF start, p
  <2>6. ASSUME NEW x PROVE x \in Right(start, unused - len)
                             <=> x \in Sent(m, p, len) /\ x \in 0..31
    <3>1. CASE x \in Nat
      <4>1. x \in Right(start, unused - len) <=> x + (unused - len) \in start
        BY <2>1, <3>1
      <4>2. x + (unused - len) \in start
              <=> x \in 0..(len - 1) /\ p + unused - 1 - (x + (unused - len)) \in m
        BY <2>2, <2>4, <3>1
      <4>3. p + unused - 1 - (x + (unused - len)) = p + len - 1 - x
        BY <2>4, <3>1
      <4> QED
        BY <2>3, <2>5, <4>1, <4>2, <4>3
    <3>2. CASE x \notin Nat
      BY <2>1, <2>3, <3>2
    <3> QED
      BY <3>1, <3>2
  <2>7. Right(start, unused - len) = Sent(m, p, len) \cap 0..31
    BY <2>6
  <2> QED
    BY <1>1, <1>2, <1>5, <2>7
<1>6. CASE more > 0
  <2>1. TakeBytes(m, i, start, more) = Sent(m, p, unused + more) \cap 0..31
    <3>1. more \in Nat \ {0} /\ i \in Int /\ unused \in 1..8
      BY <1>1, <1>6
    <3>2. TakeBytes(m, i, Sent(m, p, unused), more) = Sent(m, p, unused + more) \cap 0..31
      <4>1. \A j \in Int, un \in 1..8, mo \in Nat \ {0} :
              TakeBytes(m, j, Sent(m, 8 * (j + 1) - un, un), mo)
                = Sent(m, 8 * (j + 1) - un, un + mo) \cap 0..31
        BY TakesBytes
      <4> QED
        BY <3>1, <4>1
    <3> QED
      BY <1>4, <3>2
  <2> HIDE DEF start, p
  <2> QED
    BY <1>1, <1>2, <1>3, <1>6, <2>1
<1> QED
  BY <1>1, <1>5, <1>6

-----------------------------------------------------------------------------
(* The fields of an SCM and of an SCM+. *)

(* Shifted, a part of what was sent is a part of a longer field.           *)
LEMMA BytesTogether ==
  ASSUME NEW m \in SUBSET Int, NEW i \in Int
  PROVE  /\ Left(Byte(m, i), 8, 16) \cup Byte(m, i + 1) = Sent(m, 8 * i, 16)
         /\ Left(Byte(m, i), 16, 32) \cup Left(Byte(m, i + 1), 8, 32) \cup Byte(m, i + 2)
              = Sent(m, 8 * i, 24)
<1>1. \A j \in Int : Byte(m, j) \in SUBSET Int
  BY ByteIn
<1>2. \A x : x \in Byte(m, i) <=> x \in 0..7 /\ 8 * i + 7 - x \in m
  BY ByteIn
<1>3. \A x : x \in Byte(m, i + 1) <=> x \in 0..7 /\ 8 * i + 15 - x \in m
  <2>1. \A x : x \in Byte(m, i + 1) <=> x \in 0..7 /\ 8 * (i + 1) + 7 - x \in m
    BY ByteIn
  <2>2. \A x \in Int : 8 * (i + 1) + 7 - x = 8 * i + 15 - x
    OBVIOUS
  <2> QED
    BY <2>1, <2>2
<1>4. \A x : x \in Byte(m, i + 2) <=> x \in 0..7 /\ 8 * i + 23 - x \in m
  <2>1. \A x : x \in Byte(m, i + 2) <=> x \in 0..7 /\ 8 * (i + 2) + 7 - x \in m
    BY ByteIn
  <2>2. \A x \in Int : 8 * (i + 2) + 7 - x = 8 * i + 23 - x
    OBVIOUS
  <2> QED
    BY <2>1, <2>2
<1>5. \A x : /\ x \in Left(Byte(m, i), 8, 16) <=> x \in 8..15 /\ 8 * i + 15 - x \in m
             /\ x \in Left(Byte(m, i), 16, 32) <=> x \in 16..23 /\ 8 * i + 23 - x \in m
             /\ x \in Left(Byte(m, i + 1), 8, 32) <=> x \in 8..15 /\ 8 * i + 23 - x \in m
  <2>1. \A x : /\ x \in Left(Byte(m, i), 8, 16) <=> x \in 0..15 /\ x - 8 \in Byte(m, i)
               /\ x \in Left(Byte(m, i), 16, 32) <=> x \in 0..31 /\ x - 16 \in Byte(m, i)
               /\ x \in Left(Byte(m, i + 1), 8, 32) <=> x \in 0..31 /\ x - 8 \in Byte(m, i + 1)
    BY <1>1, LeftIn DEF Low
  <2>2. \A x \in Int : /\ 8 * i + 7 - (x - 8) = 8 * i + 15 - x
                       /\ 8 * i + 7 - (x - 16) = 8 * i + 23 - x
                       /\ 8 * i + 15 - (x - 8) = 8 * i + 23 - x
    OBVIOUS
  <2> QED
    BY <1>2, <1>3, <2>1, <2>2
<1>6. \A x : /\ x \in Sent(m, 8 * i, 16) <=> x \in 0..15 /\ 8 * i + 15 - x \in m
             /\ x \in Sent(m, 8 * i, 24) <=> x \in 0..23 /\ 8 * i + 23 - x \in m
  BY SentIn DEF Low
<1>7. Left(Byte(m, i), 8, 16) \cup Byte(m, i + 1) = Sent(m, 8 * i, 16)
  BY <1>3, <1>5, <1>6
<1>8. Left(Byte(m, i), 16, 32) \cup Left(Byte(m, i + 1), 8, 32) \cup Byte(m, i + 2)
        = Sent(m, 8 * i, 24)
  BY <1>4, <1>5, <1>6
<1> QED
  BY <1>7, <1>8

(* Every field of the struct of an SCM is what was sent at its place. *)
LEMMA ScmFields ==
  ASSUME NEW m \in SUBSET Int
  PROVE  /\ scmOf(m).id = Left(Sent(m, 21, 2), 24, 32) \cup Sent(m, 56, 24)
         /\ scmOf(m).consumption = Sent(m, 32, 24)
         /\ scmOf(m).type = Sent(m, 26, 4)
         /\ scmOf(m).tamper_phy = Sent(m, 24, 2)
         /\ scmOf(m).tamper_enc = Sent(m, 30, 2)
         /\ scmOf(m).crc = Sent(m, 80, 16)
<1>1. Left(Byte(m, 2) \cap {1, 2}, 23, 32) = Left(Sent(m, 21, 2), 24, 32)
  <2>1. \A x : x \in Byte(m, 2) \cap {1, 2} <=> x \in 1..2 /\ 23 - x \in m
    BY ByteIn
  <2>2. \A x : x \in Sent(m, 21, 2) <=> x \in 0..1 /\ 22 - x \in m
    BY SentIn DEF Low
  <2>3. \A x : /\ x \in Left(Byte(m, 2) \cap {1, 2}, 23, 32)
                    <=> x \in 0..31 /\ x - 23 \in Byte(m, 2) \cap {1, 2}
               /\ x \in Left(Sent(m, 21, 2), 24, 32)
                    <=> x \in 0..31 /\ x - 24 \in Sent(m, 21, 2)
    BY <2>1, <2>2, LeftIn DEF Low
  <2> QED
    BY <2>1, <2>2, <2>3
<1>2. Left(Byte(m, 7), 16, 32) \cup Left(Byte(m, 8), 8, 32) \cup Byte(m, 9) = Sent(m, 56, 24)
  BY BytesTogether
<1>3. Left(Byte(m, 4), 16, 32) \cup Left(Byte(m, 5), 8, 32) \cup Byte(m, 6) = Sent(m, 32, 24)
  BY BytesTogether
<1>4. Left(Byte(m, 10), 8, 16) \cup Byte(m, 11) = Sent(m, 80, 16)
  BY BytesTogether
<1>5. \A x : x \in Byte(m, 3) <=> x \in 0..7 /\ 31 - x \in m
  BY ByteIn
<1>6. \A x : /\ x \in Right(Byte(m, 3), 2) <=> x \in Nat /\ x + 2 \in Byte(m, 3)
             /\ x \in Right(Byte(m, 3), 6) <=> x \in Nat /\ x + 6 \in Byte(m, 3)
  BY <1>5, RightIn
<1>7. \A x : /\ x \in Sent(m, 26, 4) <=> x \in 0..3 /\ 29 - x \in m
             /\ x \in Sent(m, 24, 2) <=> x \in 0..1 /\ 25 - x \in m
             /\ x \in Sent(m, 30, 2) <=> x \in 0..1 /\ 31 - x \in m
  BY SentIn DEF Low
<1>8. Right(Byte(m, 3), 2) \cap Low(4) = Sent(m, 26, 4)
  BY <1>5, <1>6, <1>7 DEF Low
<1>9. Right(Byte(m, 3), 6) \cap Low(2) = Sent(m, 24, 2)
  BY <1>5, <1>6, <1>7 DEF Low
<1>10. Byte(m, 3) \cap Low(2) = Sent(m, 30, 2)
  BY <1>5, <1>7 DEF Low
<1>11. scmOf(m).id = Left(Byte(m, 2) \cap {1, 2}, 23, 32)
         \cup (Left(Byte(m, 7), 16, 32) \cup Left(Byte(m, 8), 8, 32) \cup Byte(m, 9))
  BY DEF scmOf
<1> QED
  BY <1>1, <1>2, <1>3, <1>4, <1>8, <1>9, <1>10, <1>11 DEF scmOf

(* The same for an SCM+. *)
LEMMA ScmPlusFields ==
  ASSUME NEW m \in SUBSET Int
  PROVE  /\ scmPlusOf(m).frameSync = Sent(m, 0, 16)
         /\ scmPlusOf(m).protocolId = Sent(m, 16, 8)
         /\ scmPlusOf(m).endpointType = Sent(m, 24, 8)
         /\ scmPlusOf(m).endpointId = Sent(m, 32, 32)
         /\ scmPlusOf(m).consumption = Sent(m, 64, 32)
         /\ scmPlusOf(m).tamper = Sent(m, 96, 16)
         /\ scmPlusOf(m).crc = Sent(m, 112, 16)
<1>1. \A i \in Int : /\ Byte(m, i) = Sent(m, 8 * i, 8)
                     /\ NTOH_16BIT(memcpy(m, i, 2)) = Sent(m, 8 * i, 16)
                     /\ NTOH_32BIT(memcpy(m, i, 4)) = Sent(m, 8 * i, 32)
  BY ByteSent, Net16, Net32
<1> QED
  BY <1>1 DEF scmPlusOf

-----------------------------------------------------------------------------
(* The fields of an IDM. *)

(* So many bits fit an integer: none is lost. *)
LEMMA Extracts32 ==
  ASSUME NEW m \in SUBSET Int, NEW first \in Nat, NEW offset \in Nat, NEW len \in 0..32
  PROVE  extractBits(m, first, offset, len) = Sent(m, 8 * first + offset, len)
<1>1. extractBits(m, first, offset, len) = Sent(m, 8 * first + offset, len) \cap 0..31
  BY Extracts
<1>2. \A x : x \in Sent(m, 8 * first + offset, len) => x \in 0..31
  BY SentIn DEF Low
<1> QED
  BY <1>1, <1>2

(* An array of bytes is the bytes sent there. *)
LEMMA ArraySent ==
  ASSUME NEW m \in SUBSET Int, NEW i \in Int, NEW n \in Nat
  PROVE  Array(m, i, n) = SentArray(m, 8 * i, 8, n)
<1>1. \A k \in Low(n) : Byte(m, i + k) = Sent(m, 8 * i + k * 8, 8)
  <2> TAKE k \in Low(n)
  <2>1. k \in Int /\ 8 * (i + k) = 8 * i + k * 8
    BY DEF Low
  <2>2. Byte(m, i + k) = Sent(m, 8 * (i + k), 8)
    BY <2>1, ByteSent
  <2> QED
    BY <2>1, <2>2
<1> QED
  BY <1>1 DEF Array, SentArray

(* The fields of an IDM outside the union, and those of its two layouts. *)
LEMMA IdmFields ==
  ASSUME NEW m \in SUBSET Int
  PROVE  /\ idmOf(m).preamble = Sent(m, 0, 32)
         /\ idmOf(m).packetTypeID = Sent(m, 32, 8)
         /\ idmOf(m).packetLength = Sent(m, 40, 8)
         /\ idmOf(m).hammingCode = Sent(m, 48, 8)
         /\ idmOf(m).appVersion = Sent(m, 56, 8)
         /\ idmOf(m).ertType = Sent(m, 64, 8)
         /\ idmOf(m).ertId = Sent(m, 72, 32)
         /\ idmOf(m).consumptionIntervalCount = Sent(m, 104, 8)
         /\ idmOf(m).txTimeOffset = Sent(m, 688, 16)
         /\ idmOf(m).serialNumberCRC = Sent(m, 704, 16)
         /\ idmOf(m).pktCRC = Sent(m, 720, 16)
<1>1. \A i \in Int : /\ Byte(m, i) = Sent(m, 8 * i, 8)
                     /\ NTOH_16BIT(memcpy(m, i, 2)) = Sent(m, 8 * i, 16)
                     /\ NTOH_32BIT(memcpy(m, i, 4)) = Sent(m, 8 * i, 32)
  BY ByteSent, Net16, Net32
<1> QED
  BY <1>1 DEF idmOf

LEMMA StdFields ==
  ASSUME NEW m \in SUBSET Int
  PROVE  LET std == stdOf(m, 14)
         IN  /\ std.moduleProgrammingState = Sent(m, 112, 8)
             /\ std.tamperCounters = SentArray(m, 120, 8, 6)
             /\ std.asyncCnt = Sent(m, 168, 16)
             /\ std.powerOutageFlags = SentArray(m, 184, 8, 6)
             /\ std.lastConsumption = Sent(m, 232, 32)
             /\ std.differentialConsumption = SentArray(m, 264, 9, 47)
<1>1. \A i \in Int : /\ Byte(m, i) = Sent(m, 8 * i, 8)
                     /\ NTOH_16BIT(memcpy(m, i, 2)) = Sent(m, 8 * i, 16)
                     /\ NTOH_32BIT(memcpy(m, i, 4)) = Sent(m, 8 * i, 32)
  BY ByteSent, Net16, Net32
<1>2. /\ Array(m, 15, 6) = SentArray(m, 120, 8, 6)
      /\ Array(m, 23, 6) = SentArray(m, 184, 8, 6)
  BY ArraySent
<1>3. \A k \in Low(47) : extractBits(m, 33, k * 9, 9) = Sent(m, 264 + k * 9, 9)
  BY Extracts32 DEF Low
<1>4. [k \in Low(47) |-> extractBits(m, 33, k * 9, 9)] = SentArray(m, 264, 9, 47)
  BY <1>3 DEF SentArray
<1> QED
  BY <1>1, <1>2, <1>4 DEF stdOf

LEMMA X18Fields ==
  ASSUME NEW m \in SUBSET Int
  PROVE  LET x18 == x18Of(m, 14)
         IN  /\ x18.unknown = SentArray(m, 112, 8, 10)
             /\ x18.lastConsumption = Sent(m, 192, 32)
             /\ x18.lastConsumptionHighRes = Sent(m, 272, 32)
             /\ x18.differentialConsumption = SentArray(m, 304, 14, 27)
<1>1. \A i \in Int : NTOH_32BIT(memcpy(m, i, 4)) = Sent(m, 8 * i, 32)
  BY Net32
<1>2. Array(m, 14, 10) = SentArray(m, 112, 8, 10)
  BY ArraySent
<1>3. \A k \in Low(27) : extractBits(m, 38, k * 14, 14) = Sent(m, 304 + k * 14, 14)
  BY Extracts32 DEF Low
<1>4. [k \in Low(27) |-> extractBits(m, 38, k * 14, 14)] = SentArray(m, 304, 14, 27)
  BY <1>3 DEF SentArray
<1> QED
  BY <1>1, <1>2, <1>4 DEF x18Of

-----------------------------------------------------------------------------
(* Where the fields are on the air. *)

(* Fields back to back: the only places that add up are the places. *)
LEMMA PlacesAre ==
  ASSUME NEW wire, Len(wire) \in Nat \ {0}, NEW p,
         p = [k \in 1..Len(wire) |-> IF k = 1 THEN 0 ELSE p[k - 1] + Width(wire[k - 1])]
  PROVE  Places(wire) = p
<1> DEFINE place == CHOOSE q : q = [k \in 1..Len(wire) |->
                                     IF k = 1 THEN 0 ELSE q[k - 1] + Width(wire[k - 1])]
<1>1. Places(wire) = place
  BY DEF Places
<1>2. place = [k \in 1..Len(wire) |-> IF k = 1 THEN 0 ELSE place[k - 1] + Width(wire[k - 1])]
  OBVIOUS
<1> HIDE DEF place
<1> DEFINE S == {k \in Nat : k + 1 <= Len(wire) => place[k + 1] = p[k + 1]}
<1>3. 0 \in S
  BY <1>2
<1>4. ASSUME NEW k \in Nat, k \in S PROVE k + 1 \in S
  <2> SUFFICES ASSUME k + 2 <= Len(wire) PROVE place[k + 2] = p[k + 2]
    OBVIOUS
  <2>1. place[k + 1] = p[k + 1]
    BY <1>4
  <2>2. k + 2 \in 1..Len(wire) /\ k + 2 # 1 /\ (k + 2) - 1 = k + 1
    OBVIOUS
  <2>3. /\ place[k + 2] = place[k + 1] + Width(wire[k + 1])
        /\ p[k + 2] = p[k + 1] + Width(wire[k + 1])
    BY <1>2, <2>2
  <2> QED
    BY <2>1, <2>3
<1> HIDE DEF S
<1>5. Nat \subseteq S
  BY <1>3, <1>4, Induction
<1>6. \A k \in 1..Len(wire) : place[k] = p[k]
  <2> TAKE k \in 1..Len(wire)
  <2>1. k - 1 \in Nat /\ (k - 1) + 1 = k
    OBVIOUS
  <2> QED
    BY <1>5, <2>1 DEF S
<1> QED
  BY <1>1, <1>2, <1>6

(* The places of the fields of an SCM and of an SCM+. *)
LEMMA ScmPlaces ==
  Len(ScmWire) = 9 /\ Places(ScmWire) = <<0, 21, 23, 24, 26, 30, 32, 56, 80>>
<1> DEFINE p == <<0, 21, 23, 24, 26, 30, 32, 56, 80>>
<1>1. /\ Len(ScmWire) = 9
      /\ Width(ScmWire[1]) = 21 /\ Width(ScmWire[2]) = 2 /\ Width(ScmWire[3]) = 1
      /\ Width(ScmWire[4]) = 2 /\ Width(ScmWire[5]) = 4 /\ Width(ScmWire[6]) = 2
      /\ Width(ScmWire[7]) = 24 /\ Width(ScmWire[8]) = 24
  BY DEF ScmWire, Width
<1>2. p = [k \in 1..Len(ScmWire) |-> IF k = 1 THEN 0 ELSE p[k - 1] + Width(ScmWire[k - 1])]
  BY <1>1
<1> HIDE DEF p
<1>3. Len(ScmWire) \in Nat \ {0}
  BY <1>1
<1>4. Places(ScmWire) = p
  BY <1>2, <1>3, PlacesAre
<1> QED
  BY <1>1, <1>4 DEF p

LEMMA ScmPlusPlaces ==
  Len(ScmPlusWire) = 7 /\ Places(ScmPlusWire) = <<0, 16, 24, 32, 64, 96, 112>>
<1> DEFINE p == <<0, 16, 24, 32, 64, 96, 112>>
<1>1. /\ Len(ScmPlusWire) = 7
      /\ Width(ScmPlusWire[1]) = 16 /\ Width(ScmPlusWire[2]) = 8
      /\ Width(ScmPlusWire[3]) = 8 /\ Width(ScmPlusWire[4]) = 32
      /\ Width(ScmPlusWire[5]) = 32 /\ Width(ScmPlusWire[6]) = 16
  BY DEF ScmPlusWire, Width
<1>2. p = [k \in 1..Len(ScmPlusWire) |->
             IF k = 1 THEN 0 ELSE p[k - 1] + Width(ScmPlusWire[k - 1])]
  BY <1>1
<1> HIDE DEF p
<1>3. Len(ScmPlusWire) \in Nat \ {0}
  BY <1>1
<1>4. Places(ScmPlusWire) = p
  BY <1>2, <1>3, PlacesAre
<1> QED
  BY <1>1, <1>4 DEF p

(* The struct agrees with the layout: an SCM, an SCM+. *)
LEMMA ScmAsSent == ASSUME NEW m \in SUBSET Int PROVE AsSent("scm", m, scmOf(m))
<1> DEFINE got == scmOf(m)
<1>1. /\ Fields(got) = got
      /\ DOMAIN got = {"id", "consumption", "type", "tamper_phy", "tamper_enc", "crc"}
  BY DEF Fields, scmOf
<1>2. /\ got.id = Left(Sent(m, 21, 2), 24, 32) \cup Sent(m, 56, 24)
      /\ got["consumption"] = Sent(m, 32, 24)
      /\ got["type"] = Sent(m, 26, 4)
      /\ got["tamper_phy"] = Sent(m, 24, 2)
      /\ got["tamper_enc"] = Sent(m, 30, 2)
      /\ got["crc"] = Sent(m, 80, 16)
  BY ScmFields
<1> HIDE DEF got
<1> DEFINE place == Places(ScmWire)
<1>3. /\ place[2] = 21 /\ place[4] = 24 /\ place[5] = 26 /\ place[6] = 30
      /\ place[7] = 32 /\ place[8] = 56 /\ place[9] = 80
  BY ScmPlaces
<1> HIDE DEF place
<1>4. ASSUME NEW k \in DOMAIN ScmWire, ScmWire[k][1] \in DOMAIN got
      PROVE  got[ScmWire[k][1]] = SentField(m, ScmWire[k], place[k])
  <2>1. k \in 1..9
    BY ScmPlaces DEF ScmWire
  <2>2. k \in {4, 5, 6, 7, 9}
    BY <1>1, <1>4, <2>1 DEF ScmWire
  <2>3. /\ ScmWire[4] = <<"tamper_phy", 2>> /\ ScmWire[5] = <<"type", 4>>
        /\ ScmWire[6] = <<"tamper_enc", 2>> /\ ScmWire[7] = <<"consumption", 24>>
        /\ ScmWire[9] = <<"crc", 16>>
    BY DEF ScmWire
  <2> QED
    BY <1>2, <1>3, <2>2, <2>3 DEF SentField
<1>5. WireOf("scm", m) = ScmWire
  BY DEF WireOf
<1> QED
  BY <1>1, <1>2, <1>3, <1>4, <1>5 DEF AsSent, place, got

LEMMA ScmPlusAsSent ==
  ASSUME NEW m \in SUBSET Int PROVE AsSent("scmPlus", m, scmPlusOf(m))
<1> DEFINE got == scmPlusOf(m)
<1>1. Fields(got) = got
  BY DEF Fields, scmPlusOf
<1>2. /\ got["frameSync"] = Sent(m, 0, 16)
      /\ got["protocolId"] = Sent(m, 16, 8)
      /\ got["endpointType"] = Sent(m, 24, 8)
      /\ got["endpointId"] = Sent(m, 32, 32)
      /\ got["consumption"] = Sent(m, 64, 32)
      /\ got["tamper"] = Sent(m, 96, 16)
      /\ got["crc"] = Sent(m, 112, 16)
  BY ScmPlusFields
<1> HIDE DEF got
<1> DEFINE place == Places(ScmPlusWire)
<1>3. /\ place[1] = 0 /\ place[2] = 16 /\ place[3] = 24 /\ place[4] = 32
      /\ place[5] = 64 /\ place[6] = 96 /\ place[7] = 112
  BY ScmPlusPlaces
<1> HIDE DEF place
<1>4. ASSUME NEW k \in DOMAIN ScmPlusWire
      PROVE  got[ScmPlusWire[k][1]] = SentField(m, ScmPlusWire[k], place[k])
  <2>1. k \in 1..7
    BY ScmPlusPlaces DEF ScmPlusWire
  <2>2. /\ ScmPlusWire[1] = <<"frameSync", 16>> /\ ScmPlusWire[2] = <<"protocolId", 8>>
        /\ ScmPlusWire[3] = <<"endpointType", 8>> /\ ScmPlusWire[4] = <<"endpointId", 32>>
        /\ ScmPlusWire[5] = <<"consumption", 32>> /\ ScmPlusWire[6] = <<"tamper", 16>>
        /\ ScmPlusWire[7] = <<"crc", 16>>
    BY DEF ScmPlusWire
  <2> QED
    BY <1>2, <1>3, <2>1, <2>2 DEF SentField
<1>5. WireOf("scmPlus", m) = ScmPlusWire
  BY DEF WireOf
<1> QED
  BY <1>1, <1>4, <1>5 DEF AsSent, place, got

(* The layout of an IDM that is no interval meter's, and its places. *)
LEMMA StdWireIs ==
  LET wire == IdmWire(StdWire)
  IN  /\ Len(wire) = 18 /\ DOMAIN wire = 1..18
      /\ wire[1] = <<"preamble", 32>>
      /\ wire[2] = <<"packetTypeID", 8>>
      /\ wire[3] = <<"packetLength", 8>>
      /\ wire[4] = <<"hammingCode", 8>>
      /\ wire[5] = <<"appVersion", 8>>
      /\ wire[6] = <<"ertType", 8>>
      /\ wire[7] = <<"ertId", 32>>
      /\ wire[8] = <<"consumptionIntervalCount", 8>>
      /\ wire[9] = <<"moduleProgrammingState", 8>>
      /\ wire[10] = <<"tamperCounters", 8, 6>>
      /\ wire[11] = <<"asyncCnt", 16>>
      /\ wire[12] = <<"powerOutageFlags", 8, 6>>
      /\ wire[13] = <<"lastConsumption", 32>>
      /\ wire[14] = <<"differentialConsumption", 9, 47>>
      /\ wire[15] = <<"pad", 1>>
      /\ wire[16] = <<"txTimeOffset", 16>>
      /\ wire[17] = <<"serialNumberCRC", 16>>
      /\ wire[18] = <<"pktCRC", 16>>
  BY DEF IdmWire, StdWire

LEMMA StdPlaces ==
  Places(IdmWire(StdWire)) =
    <<0, 32, 40, 48, 56, 64, 72, 104, 112,
      120, 168, 184, 232, 264, 687, 688, 704, 720>>
<1> DEFINE wire == IdmWire(StdWire)
           p == <<0, 32, 40, 48, 56, 64, 72, 104, 112,
                  120, 168, 184, 232, 264, 687, 688, 704, 720>>
<1>1. Len(wire) = 18
  BY StdWireIs
<1>2. /\ Width(wire[1]) = 32 /\ Width(wire[2]) = 8 /\ Width(wire[3]) = 8
      /\ Width(wire[4]) = 8 /\ Width(wire[5]) = 8 /\ Width(wire[6]) = 8
      /\ Width(wire[7]) = 32 /\ Width(wire[8]) = 8 /\ Width(wire[9]) = 8
      /\ Width(wire[10]) = 48 /\ Width(wire[11]) = 16 /\ Width(wire[12]) = 48
      /\ Width(wire[13]) = 32 /\ Width(wire[14]) = 423 /\ Width(wire[15]) = 1
      /\ Width(wire[16]) = 16 /\ Width(wire[17]) = 16
  BY StdWireIs DEF Width
<1> HIDE DEF wire
<1>3. Len(wire) \in Nat \ {0}
  BY <1>1
<1>4. p = [k \in 1..Len(wire) |-> IF k = 1 THEN 0 ELSE p[k - 1] + Width(wire[k - 1])]
  BY <1>1, <1>2
<1> HIDE DEF p
<1>5. Places(wire) = p
  BY <1>3, <1>4, PlacesAre
<1> QED
  BY <1>5 DEF p, wire

(* The same for an interval meter. *)
LEMMA X18WireIs ==
  LET wire == IdmWire(X18Wire)
  IN  /\ Len(wire) = 18 /\ DOMAIN wire = 1..18
      /\ wire[1] = <<"preamble", 32>>
      /\ wire[2] = <<"packetTypeID", 8>>
      /\ wire[3] = <<"packetLength", 8>>
      /\ wire[4] = <<"hammingCode", 8>>
      /\ wire[5] = <<"appVersion", 8>>
      /\ wire[6] = <<"ertType", 8>>
      /\ wire[7] = <<"ertId", 32>>
      /\ wire[8] = <<"consumptionIntervalCount", 8>>
      /\ wire[9] = <<"unknown", 8, 10>>
      /\ wire[10] = <<"lastConsumption", 32>>
      /\ wire[11] = <<"lastExcess", 24>>
      /\ wire[12] = <<"lastResidual", 24>>
      /\ wire[13] = <<"lastConsumptionHighRes", 32>>
      /\ wire[14] = <<"differentialConsumption", 14, 27>>
      /\ wire[15] = <<"pad", 6>>
      /\ wire[16] = <<"txTimeOffset", 16>>
      /\ wire[17] = <<"serialNumberCRC", 16>>
      /\ wire[18] = <<"pktCRC", 16>>
  BY DEF IdmWire, X18Wire

LEMMA X18Places ==
  Places(IdmWire(X18Wire)) =
    <<0, 32, 40, 48, 56, 64, 72, 104, 112,
      192, 224, 248, 272, 304, 682, 688, 704, 720>>
<1> DEFINE wire == IdmWire(X18Wire)
           p == <<0, 32, 40, 48, 56, 64, 72, 104, 112,
                  192, 224, 248, 272, 304, 682, 688, 704, 720>>
<1>1. Len(wire) = 18
  BY X18WireIs
<1>2. /\ Width(wire[1]) = 32 /\ Width(wire[2]) = 8 /\ Width(wire[3]) = 8
      /\ Width(wire[4]) = 8 /\ Width(wire[5]) = 8 /\ Width(wire[6]) = 8
      /\ Width(wire[7]) = 32 /\ Width(wire[8]) = 8 /\ Width(wire[9]) = 80
      /\ Width(wire[10]) = 32 /\ Width(wire[11]) = 24 /\ Width(wire[12]) = 24
      /\ Width(wire[13]) = 32 /\ Width(wire[14]) = 378 /\ Width(wire[15]) = 6
      /\ Width(wire[16]) = 16 /\ Width(wire[17]) = 16
  BY X18WireIs DEF Width
<1> HIDE DEF wire
<1>3. Len(wire) \in Nat \ {0}
  BY <1>1
<1>4. p = [k \in 1..Len(wire) |-> IF k = 1 THEN 0 ELSE p[k - 1] + Width(wire[k - 1])]
  BY <1>1, <1>2
<1> HIDE DEF p
<1>5. Places(wire) = p
  BY <1>3, <1>4, PlacesAre
<1> QED
  BY <1>5 DEF p, wire

(* A field, and an array of fields, at its place. *)
LEMMA PlainField ==
  ASSUME NEW m, NEW name, NEW w, NEW p
  PROVE  SentField(m, <<name, w>>, p) = Sent(m, p, w)
  BY DEF SentField

LEMMA ArrayField ==
  ASSUME NEW m, NEW name, NEW w, NEW n, NEW p
  PROVE  SentField(m, <<name, w, n>>, p) = SentArray(m, p, w, n)
  BY DEF SentField

(* The struct of an IDM and, within it, the union of its two layouts. *)
LEMMA IdmGot ==
  ASSUME NEW m \in SUBSET Int, NEW got, got = Fields(idmOf(m)),
         NEW data, data = idmOf(m).data
  PROVE  /\ DOMAIN data \subseteq DOMAIN got
         /\ \A f \in DOMAIN data : got[f] = data[f]
         /\ "pad" \notin DOMAIN got
         /\ got["preamble"] = Sent(m, 0, 32)
         /\ got["packetTypeID"] = Sent(m, 32, 8)
         /\ got["packetLength"] = Sent(m, 40, 8)
         /\ got["hammingCode"] = Sent(m, 48, 8)
         /\ got["appVersion"] = Sent(m, 56, 8)
         /\ got["ertType"] = Sent(m, 64, 8)
         /\ got["ertId"] = Sent(m, 72, 32)
         /\ got["consumptionIntervalCount"] = Sent(m, 104, 8)
         /\ got["txTimeOffset"] = Sent(m, 688, 16)
         /\ got["serialNumberCRC"] = Sent(m, 704, 16)
         /\ got["pktCRC"] = Sent(m, 720, 16)
<1> DEFINE msg == idmOf(m)
<1>1. DOMAIN msg = {"preamble", "packetTypeID", "packetLength", "hammingCode", "appVersion",
                    "ertType", "ertId", "consumptionIntervalCount", "data", "txTimeOffset",
                    "serialNumberCRC", "pktCRC"}
  BY DEF idmOf
<1>2. \/ DOMAIN msg.data = {"unknown", "lastConsumption", "lastExcess", "lastResidual",
                           "lastConsumptionHighRes", "differentialConsumption"}
      \/ DOMAIN msg.data = {"moduleProgrammingState", "tamperCounters", "asyncCnt",
                           "powerOutageFlags", "lastConsumption", "differentialConsumption"}
  <2>1. msg.data = x18Of(m, 14) \/ msg.data = stdOf(m, 14)
    BY DEF idmOf
  <2>2. DOMAIN x18Of(m, 14) = {"unknown", "lastConsumption", "lastExcess", "lastResidual",
                              "lastConsumptionHighRes", "differentialConsumption"}
    BY DEF x18Of
  <2>3. DOMAIN stdOf(m, 14) = {"moduleProgrammingState", "tamperCounters", "asyncCnt",
                              "powerOutageFlags", "lastConsumption", "differentialConsumption"}
    BY DEF stdOf
  <2> HIDE DEF msg
  <2> QED
    BY <2>1, <2>2, <2>3
<1>3. /\ msg["preamble"] = Sent(m, 0, 32)
      /\ msg["packetTypeID"] = Sent(m, 32, 8)
      /\ msg["packetLength"] = Sent(m, 40, 8)
      /\ msg["hammingCode"] = Sent(m, 48, 8)
      /\ msg["appVersion"] = Sent(m, 56, 8)
      /\ msg["ertType"] = Sent(m, 64, 8)
      /\ msg["ertId"] = Sent(m, 72, 32)
      /\ msg["consumptionIntervalCount"] = Sent(m, 104, 8)
      /\ msg["txTimeOffset"] = Sent(m, 688, 16)
      /\ msg["serialNumberCRC"] = Sent(m, 704, 16)
      /\ msg["pktCRC"] = Sent(m, 720, 16)
  BY IdmFields
<1>4. got = Fields(msg)
  OBVIOUS
<1> HIDE DEF msg
<1>5. got = [f \in DOMAIN msg \cup DOMAIN msg.data |->
               IF f \in DOMAIN msg THEN msg[f] ELSE msg.data[f]]
  BY <1>1, <1>4 DEF Fields
<1>6. DOMAIN msg.data \cap DOMAIN msg = {} /\ "pad" \notin DOMAIN msg \cup DOMAIN msg.data
  BY <1>1, <1>2
<1>7. DOMAIN got = DOMAIN msg \cup DOMAIN msg.data
  BY <1>5
<1>8. \A f \in DOMAIN msg.data : got[f] = msg.data[f]
  BY <1>5, <1>6
<1>9. \A f \in DOMAIN msg : got[f] = msg[f]
  BY <1>5
<1>10. /\ got["preamble"] = Sent(m, 0, 32)
       /\ got["packetTypeID"] = Sent(m, 32, 8)
       /\ got["packetLength"] = Sent(m, 40, 8)
       /\ got["hammingCode"] = Sent(m, 48, 8)
       /\ got["appVersion"] = Sent(m, 56, 8)
       /\ got["ertType"] = Sent(m, 64, 8)
       /\ got["ertId"] = Sent(m, 72, 32)
       /\ got["consumptionIntervalCount"] = Sent(m, 104, 8)
       /\ got["txTimeOffset"] = Sent(m, 688, 16)
       /\ got["serialNumberCRC"] = Sent(m, 704, 16)
       /\ got["pktCRC"] = Sent(m, 720, 16)
  BY <1>1, <1>3, <1>9
<1> QED
  BY <1>6, <1>7, <1>8, <1>10 DEF msg

(* The struct agrees with the layout: either sort of IDM. *)
LEMMA StdAsSent ==
  ASSUME NEW m \in SUBSET Int, ~IsX18(m) PROVE AsSent("idm", m, idmOf(m))
<1> DEFINE got == Fields(idmOf(m))
           data == stdOf(m, 14)
           wire == IdmWire(StdWire)
           place == Places(wire)
<1>1. idmOf(m).data = data
  BY DEF idmOf
<1>2. /\ DOMAIN data \subseteq DOMAIN got
      /\ \A f \in DOMAIN data : got[f] = data[f]
      /\ "pad" \notin DOMAIN got
  <2> HIDE DEF data, got
  <2>1. got = Fields(idmOf(m)) /\ data = idmOf(m).data
    BY <1>1 DEF got
  <2>2. DOMAIN data \subseteq DOMAIN got /\ "pad" \notin DOMAIN got
    BY <2>1, IdmGot
  <2>3. ASSUME NEW f \in DOMAIN data PROVE got[f] = data[f]
    BY <2>1, IdmGot
  <2> QED
    BY <2>2, <2>3
<1>3. DOMAIN data = {"moduleProgrammingState", "tamperCounters",
                  "asyncCnt", "powerOutageFlags", "lastConsumption", "differentialConsumption"}
  BY DEF stdOf
<1>4. /\ data["moduleProgrammingState"] = Sent(m, 112, 8)
      /\ data["tamperCounters"] = SentArray(m, 120, 8, 6)
      /\ data["asyncCnt"] = Sent(m, 168, 16)
      /\ data["powerOutageFlags"] = SentArray(m, 184, 8, 6)
      /\ data["lastConsumption"] = Sent(m, 232, 32)
      /\ data["differentialConsumption"] = SentArray(m, 264, 9, 47)
  BY StdFields
<1> HIDE DEF data
<1>5. /\ got["moduleProgrammingState"] = Sent(m, 112, 8)
      /\ got["tamperCounters"] = SentArray(m, 120, 8, 6)
      /\ got["asyncCnt"] = Sent(m, 168, 16)
      /\ got["powerOutageFlags"] = SentArray(m, 184, 8, 6)
      /\ got["lastConsumption"] = Sent(m, 232, 32)
      /\ got["differentialConsumption"] = SentArray(m, 264, 9, 47)
  BY <1>2, <1>3, <1>4
<1>6. /\ got["preamble"] = Sent(m, 0, 32)
      /\ got["packetTypeID"] = Sent(m, 32, 8)
      /\ got["packetLength"] = Sent(m, 40, 8)
      /\ got["hammingCode"] = Sent(m, 48, 8)
      /\ got["appVersion"] = Sent(m, 56, 8)
      /\ got["ertType"] = Sent(m, 64, 8)
      /\ got["ertId"] = Sent(m, 72, 32)
      /\ got["consumptionIntervalCount"] = Sent(m, 104, 8)
      /\ got["txTimeOffset"] = Sent(m, 688, 16)
      /\ got["serialNumberCRC"] = Sent(m, 704, 16)
      /\ got["pktCRC"] = Sent(m, 720, 16)
  <2> HIDE DEF data, got
  <2>1. got = Fields(idmOf(m))
    BY DEF got
  <2> QED
    BY <1>1, <2>1, IdmGot
<1> HIDE DEF got
<1>7. /\ place[1] = 0 /\ place[2] = 32 /\ place[3] = 40 /\ place[4] = 48 /\ place[5] = 56
      /\ place[6] = 64 /\ place[7] = 72 /\ place[8] = 104 /\ place[9] = 112 /\ place[10] = 120
      /\ place[11] = 168 /\ place[12] = 184 /\ place[13] = 232 /\ place[14] = 264
      /\ place[15] = 687
      /\ place[16] = 688 /\ place[17] = 704 /\ place[18] = 720
  BY StdPlaces
<1> HIDE DEF place
<1>8. /\ DOMAIN wire = 1..18
      /\ wire[1] = <<"preamble", 32>>
      /\ wire[2] = <<"packetTypeID", 8>>
      /\ wire[3] = <<"packetLength", 8>>
      /\ wire[4] = <<"hammingCode", 8>>
      /\ wire[5] = <<"appVersion", 8>>
      /\ wire[6] = <<"ertType", 8>>
      /\ wire[7] = <<"ertId", 32>>
      /\ wire[8] = <<"consumptionIntervalCount", 8>>
      /\ wire[9] = <<"moduleProgrammingState", 8>>
      /\ wire[10] = <<"tamperCounters", 8, 6>>
      /\ wire[11] = <<"asyncCnt", 16>>
      /\ wire[12] = <<"powerOutageFlags", 8, 6>>
      /\ wire[13] = <<"lastConsumption", 32>>
      /\ wire[14] = <<"differentialConsumption", 9, 47>>
      /\ wire[15] = <<"pad", 1>>
      /\ wire[16] = <<"txTimeOffset", 16>>
      /\ wire[17] = <<"serialNumberCRC", 16>>
      /\ wire[18] = <<"pktCRC", 16>>
  BY StdWireIs
<1>9. WireOf("idm", m) = wire
  BY DEF WireOf
<1> HIDE DEF wire
<1>10. ASSUME NEW k \in DOMAIN wire, wire[k][1] \in DOMAIN got \ {"lastExcess", "lastResidual"}
       PROVE  got[wire[k][1]] = SentField(m, wire[k], place[k])
  <2>1. k \in {1, 2, 3, 4, 5, 6, 7, 8, 9, 10, 11, 12, 13, 14, 16, 17, 18}
    BY <1>2, <1>8, <1>10
  <2>2. CASE k \in {1, 2, 3, 4}
    <3>1. /\ wire[1] = <<"preamble", 32>>
          /\ got["preamble"] = Sent(m, place[1], 32)
          /\ wire[2] = <<"packetTypeID", 8>>
          /\ got["packetTypeID"] = Sent(m, place[2], 8)
          /\ wire[3] = <<"packetLength", 8>>
          /\ got["packetLength"] = Sent(m, place[3], 8)
          /\ wire[4] = <<"hammingCode", 8>>
          /\ got["hammingCode"] = Sent(m, place[4], 8)
      BY <1>6, <1>7, <1>8
    <3>2. /\ got[wire[1][1]] = SentField(m, wire[1], place[1])
          /\ got[wire[2][1]] = SentField(m, wire[2], place[2])
          /\ got[wire[3][1]] = SentField(m, wire[3], place[3])
          /\ got[wire[4][1]] = SentField(m, wire[4], place[4])
      BY <3>1, PlainField
    <3> QED
      BY <2>2, <3>2
  <2>3. CASE k \in {5, 6, 7, 8}
    <3>1. /\ wire[5] = <<"appVersion", 8>>
          /\ got["appVersion"] = Sent(m, place[5], 8)
          /\ wire[6] = <<"ertType", 8>>
          /\ got["ertType"] = Sent(m, place[6], 8)
          /\ wire[7] = <<"ertId", 32>>
          /\ got["ertId"] = Sent(m, place[7], 32)
          /\ wire[8] = <<"consumptionIntervalCount", 8>>
          /\ got["consumptionIntervalCount"] = Sent(m, place[8], 8)
      BY <1>6, <1>7, <1>8
    <3>2. /\ got[wire[5][1]] = SentField(m, wire[5], place[5])
          /\ got[wire[6][1]] = SentField(m, wire[6], place[6])
          /\ got[wire[7][1]] = SentField(m, wire[7], place[7])
          /\ got[wire[8][1]] = SentField(m, wire[8], place[8])
      BY <3>1, PlainField
    <3> QED
      BY <2>3, <3>2
  <2>4. CASE k \in {9, 11, 13}
    <3>1. /\ wire[9] = <<"moduleProgrammingState", 8>>
          /\ got["moduleProgrammingState"] = Sent(m, place[9], 8)
          /\ wire[11] = <<"asyncCnt", 16>>
          /\ got["asyncCnt"] = Sent(m, place[11], 16)
          /\ wire[13] = <<"lastConsumption", 32>>
          /\ got["lastConsumption"] = Sent(m, place[13], 32)
      BY <1>5, <1>7, <1>8
    <3>2. /\ got[wire[9][1]] = SentField(m, wire[9], place[9])
          /\ got[wire[11][1]] = SentField(m, wire[11], place[11])
          /\ got[wire[13][1]] = SentField(m, wire[13], place[13])
      BY <3>1, PlainField
    <3> QED
      BY <2>4, <3>2
  <2>5. CASE k \in {10, 12, 14}
    <3>1. /\ wire[10] = <<"tamperCounters", 8, 6>>
          /\ got["tamperCounters"] = SentArray(m, place[10], 8, 6)
          /\ wire[12] = <<"powerOutageFlags", 8, 6>>
          /\ got["powerOutageFlags"] = SentArray(m, place[12], 8, 6)
          /\ wire[14] = <<"differentialConsumption", 9, 47>>
          /\ got["differentialConsumption"] = SentArray(m, place[14], 9, 47)
      BY <1>5, <1>7, <1>8
    <3>2. /\ got[wire[10][1]] = SentField(m, wire[10], place[10])
          /\ got[wire[12][1]] = SentField(m, wire[12], place[12])
          /\ got[wire[14][1]] = SentField(m, wire[14], place[14])
      BY <3>1, ArrayField
    <3> QED
      BY <2>5, <3>2
  <2>6. CASE k \in {16, 17, 18}
    <3>1. /\ wire[16] = <<"txTimeOffset", 16>>
          /\ got["txTimeOffset"] = Sent(m, place[16], 16)
          /\ wire[17] = <<"serialNumberCRC", 16>>
          /\ got["serialNumberCRC"] = Sent(m, place[17], 16)
          /\ wire[18] = <<"pktCRC", 16>>
          /\ got["pktCRC"] = Sent(m, place[18], 16)
      BY <1>6, <1>7, <1>8
    <3>2. /\ got[wire[16][1]] = SentField(m, wire[16], place[16])
          /\ got[wire[17][1]] = SentField(m, wire[17], place[17])
          /\ got[wire[18][1]] = SentField(m, wire[18], place[18])
      BY <3>1, PlainField
    <3> QED
      BY <2>6, <3>2
  <2> QED
    BY <2>1, <2>2, <2>3, <2>4, <2>5, <2>6
<1> QED
  BY <1>9, <1>10 DEF AsSent, got, place

LEMMA X18AsSent ==
  ASSUME NEW m \in SUBSET Int, IsX18(m) PROVE AsSent("idm", m, idmOf(m))
<1> DEFINE got == Fields(idmOf(m))
           data == x18Of(m, 14)
           wire == IdmWire(X18Wire)
           place == Places(wire)
<1>1. idmOf(m).data = data
  BY DEF idmOf
<1>2. /\ DOMAIN data \subseteq DOMAIN got
      /\ \A f \in DOMAIN data : got[f] = data[f]
      /\ "pad" \notin DOMAIN got
  <2> HIDE DEF data, got
  <2>1. got = Fields(idmOf(m)) /\ data = idmOf(m).data
    BY <1>1 DEF got
  <2>2. DOMAIN data \subseteq DOMAIN got /\ "pad" \notin DOMAIN got
    BY <2>1, IdmGot
  <2>3. ASSUME NEW f \in DOMAIN data PROVE got[f] = data[f]
    BY <2>1, IdmGot
  <2> QED
    BY <2>2, <2>3
<1>3. DOMAIN data = {"unknown", "lastConsumption", "lastExcess", "lastResidual",
                  "lastConsumptionHighRes", "differentialConsumption"}
  BY DEF x18Of
<1>4. /\ data["unknown"] = SentArray(m, 112, 8, 10)
      /\ data["lastConsumption"] = Sent(m, 192, 32)
      /\ data["lastConsumptionHighRes"] = Sent(m, 272, 32)
      /\ data["differentialConsumption"] = SentArray(m, 304, 14, 27)
  BY X18Fields
<1> HIDE DEF data
<1>5. /\ got["unknown"] = SentArray(m, 112, 8, 10)
      /\ got["lastConsumption"] = Sent(m, 192, 32)
      /\ got["lastConsumptionHighRes"] = Sent(m, 272, 32)
      /\ got["differentialConsumption"] = SentArray(m, 304, 14, 27)
  BY <1>2, <1>3, <1>4
<1>6. /\ got["preamble"] = Sent(m, 0, 32)
      /\ got["packetTypeID"] = Sent(m, 32, 8)
      /\ got["packetLength"] = Sent(m, 40, 8)
      /\ got["hammingCode"] = Sent(m, 48, 8)
      /\ got["appVersion"] = Sent(m, 56, 8)
      /\ got["ertType"] = Sent(m, 64, 8)
      /\ got["ertId"] = Sent(m, 72, 32)
      /\ got["consumptionIntervalCount"] = Sent(m, 104, 8)
      /\ got["txTimeOffset"] = Sent(m, 688, 16)
      /\ got["serialNumberCRC"] = Sent(m, 704, 16)
      /\ got["pktCRC"] = Sent(m, 720, 16)
  <2> HIDE DEF data, got
  <2>1. got = Fields(idmOf(m))
    BY DEF got
  <2> QED
    BY <1>1, <2>1, IdmGot
<1> HIDE DEF got
<1>7. /\ place[1] = 0 /\ place[2] = 32 /\ place[3] = 40 /\ place[4] = 48 /\ place[5] = 56
      /\ place[6] = 64 /\ place[7] = 72 /\ place[8] = 104 /\ place[9] = 112 /\ place[10] = 192
      /\ place[11] = 224 /\ place[12] = 248 /\ place[13] = 272 /\ place[14] = 304
      /\ place[15] = 682
      /\ place[16] = 688 /\ place[17] = 704 /\ place[18] = 720
  BY X18Places
<1> HIDE DEF place
<1>8. /\ DOMAIN wire = 1..18
      /\ wire[1] = <<"preamble", 32>>
      /\ wire[2] = <<"packetTypeID", 8>>
      /\ wire[3] = <<"packetLength", 8>>
      /\ wire[4] = <<"hammingCode", 8>>
      /\ wire[5] = <<"appVersion", 8>>
      /\ wire[6] = <<"ertType", 8>>
      /\ wire[7] = <<"ertId", 32>>
      /\ wire[8] = <<"consumptionIntervalCount", 8>>
      /\ wire[9] = <<"unknown", 8, 10>>
      /\ wire[10] = <<"lastConsumption", 32>>
      /\ wire[11] = <<"lastExcess", 24>>
      /\ wire[12] = <<"lastResidual", 24>>
      /\ wire[13] = <<"lastConsumptionHighRes", 32>>
      /\ wire[14] = <<"differentialConsumption", 14, 27>>
      /\ wire[15] = <<"pad", 6>>
      /\ wire[16] = <<"txTimeOffset", 16>>
      /\ wire[17] = <<"serialNumberCRC", 16>>
      /\ wire[18] = <<"pktCRC", 16>>
  BY X18WireIs
<1>9. WireOf("idm", m) = wire
  BY DEF WireOf
<1> HIDE DEF wire
<1>10. ASSUME NEW k \in DOMAIN wire, wire[k][1] \in DOMAIN got \ {"lastExcess", "lastResidual"}
       PROVE  got[wire[k][1]] = SentField(m, wire[k], place[k])
  <2>1. k \in {1, 2, 3, 4, 5, 6, 7, 8, 9, 10, 13, 14, 16, 17, 18}
    BY <1>2, <1>8, <1>10
  <2>2. CASE k \in {1, 2, 3, 4}
    <3>1. /\ wire[1] = <<"preamble", 32>>
          /\ got["preamble"] = Sent(m, place[1], 32)
          /\ wire[2] = <<"packetTypeID", 8>>
          /\ got["packetTypeID"] = Sent(m, place[2], 8)
          /\ wire[3] = <<"packetLength", 8>>
          /\ got["packetLength"] = Sent(m, place[3], 8)
          /\ wire[4] = <<"hammingCode", 8>>
          /\ got["hammingCode"] = Sent(m, place[4], 8)
      BY <1>6, <1>7, <1>8
    <3>2. /\ got[wire[1][1]] = SentField(m, wire[1], place[1])
          /\ got[wire[2][1]] = SentField(m, wire[2], place[2])
          /\ got[wire[3][1]] = SentField(m, wire[3], place[3])
          /\ got[wire[4][1]] = SentField(m, wire[4], place[4])
      BY <3>1, PlainField
    <3> QED
      BY <2>2, <3>2
  <2>3. CASE k \in {5, 6, 7, 8}
    <3>1. /\ wire[5] = <<"appVersion", 8>>
          /\ got["appVersion"] = Sent(m, place[5], 8)
          /\ wire[6] = <<"ertType", 8>>
          /\ got["ertType"] = Sent(m, place[6], 8)
          /\ wire[7] = <<"ertId", 32>>
          /\ got["ertId"] = Sent(m, place[7], 32)
          /\ wire[8] = <<"consumptionIntervalCount", 8>>
          /\ got["consumptionIntervalCount"] = Sent(m, place[8], 8)
      BY <1>6, <1>7, <1>8
    <3>2. /\ got[wire[5][1]] = SentField(m, wire[5], place[5])
          /\ got[wire[6][1]] = SentField(m, wire[6], place[6])
          /\ got[wire[7][1]] = SentField(m, wire[7], place[7])
          /\ got[wire[8][1]] = SentField(m, wire[8], place[8])
      BY <3>1, PlainField
    <3> QED
      BY <2>3, <3>2
  <2>4. CASE k \in {10, 13}
    <3>1. /\ wire[10] = <<"lastConsumption", 32>>
          /\ got["lastConsumption"] = Sent(m, place[10], 32)
          /\ wire[13] = <<"lastConsumptionHighRes", 32>>
          /\ got["lastConsumptionHighRes"] = Sent(m, place[13], 32)
      BY <1>5, <1>7, <1>8
    <3>2. /\ got[wire[10][1]] = SentField(m, wire[10], place[10])
          /\ got[wire[13][1]] = SentField(m, wire[13], place[13])
      BY <3>1, PlainField
    <3> QED
      BY <2>4, <3>2
  <2>5. CASE k \in {9, 14}
    <3>1. /\ wire[9] = <<"unknown", 8, 10>>
          /\ got["unknown"] = SentArray(m, place[9], 8, 10)
          /\ wire[14] = <<"differentialConsumption", 14, 27>>
          /\ got["differentialConsumption"] = SentArray(m, place[14], 14, 27)
      BY <1>5, <1>7, <1>8
    <3>2. /\ got[wire[9][1]] = SentField(m, wire[9], place[9])
          /\ got[wire[14][1]] = SentField(m, wire[14], place[14])
      BY <3>1, ArrayField
    <3> QED
      BY <2>5, <3>2
  <2>6. CASE k \in {16, 17, 18}
    <3>1. /\ wire[16] = <<"txTimeOffset", 16>>
          /\ got["txTimeOffset"] = Sent(m, place[16], 16)
          /\ wire[17] = <<"serialNumberCRC", 16>>
          /\ got["serialNumberCRC"] = Sent(m, place[17], 16)
          /\ wire[18] = <<"pktCRC", 16>>
          /\ got["pktCRC"] = Sent(m, place[18], 16)
      BY <1>6, <1>7, <1>8
    <3>2. /\ got[wire[16][1]] = SentField(m, wire[16], place[16])
          /\ got[wire[17][1]] = SentField(m, wire[17], place[17])
          /\ got[wire[18][1]] = SentField(m, wire[18], place[18])
      BY <3>1, PlainField
    <3> QED
      BY <2>6, <3>2
  <2> QED
    BY <2>1, <2>2, <2>3, <2>4, <2>5, <2>6
<1> QED
  BY <1>9, <1>10 DEF AsSent, got, place

LEMMA IdmAsSent == ASSUME NEW m \in SUBSET Int PROVE AsSent("idm", m, idmOf(m))
  BY StdAsSent, X18AsSent

-----------------------------------------------------------------------------
(* Transmissions. *)

(* What will arrive are transmissions of messages with right checksums. *)
LEMMA AirSent ==
  ASSUME NEW type \in Types, NEW a \in Airs(type)
  PROVE  a \in Seq({t \in Transmission : Accepts(t.type, t.sent)})
<1>1. a \in Seq(Transmission)
  BY AirsAssumption
<1>2. \A i \in DOMAIN a : Accepts(a[i].type, a[i].sent)
  BY SealedAssumption
<1> QED
  BY <1>1, <1>2

(* The first of them and the rest are such transmissions. *)
LEMMA HeadTail ==
  ASSUME NEW S, air \in Seq(S), air # <<>>
  PROVE  Head(air) \in S /\ Tail(air) \in Seq(S)
  OBVIOUS

(* A bit is one in a sum if it is in exactly one of the numbers. *)
LEMMA XorIn ==
  ASSUME NEW u, NEW v, NEW x
  PROVE  x \in Xor(u, v) <=> ((x \in u) # (x \in v))
  BY DEF Xor

-----------------------------------------------------------------------------
(* Types. *)

(* Every field fits its width. *)
LEMMA SentTyped ==
  ASSUME NEW m \in SUBSET Int, NEW p \in Int, NEW w \in Int
  PROVE  Sent(m, p, w) \subseteq Low(w)
  BY SentIn

LEMMA ScmTyped ==
  ASSUME NEW m \in SUBSET Int
  PROVE  /\ scmOf(m).id \subseteq Low(26) /\ scmOf(m).consumption \subseteq Low(24)
         /\ scmOf(m).type \subseteq Low(4)
         /\ scmOf(m).tamper_phy \subseteq Low(2) /\ scmOf(m).tamper_enc \subseteq Low(2)
<1>1. Sent(m, 21, 2) \subseteq Low(2) /\ Sent(m, 56, 24) \subseteq Low(24)
  BY SentTyped
<1>2. Left(Sent(m, 21, 2), 24, 32) \subseteq Low(26)
  BY <1>1 DEF Left, Low
<1>3. Low(24) \subseteq Low(26)
  BY DEF Low
<1>4. /\ Sent(m, 32, 24) \subseteq Low(24) /\ Sent(m, 26, 4) \subseteq Low(4)
      /\ Sent(m, 24, 2) \subseteq Low(2) /\ Sent(m, 30, 2) \subseteq Low(2)
  BY SentTyped
<1> QED
  BY <1>1, <1>2, <1>3, <1>4, ScmFields

LEMMA ScmPlusTyped ==
  ASSUME NEW m \in SUBSET Int
  PROVE  /\ \A f \in {"frameSync", "tamper", "crc"} : scmPlusOf(m)[f] \subseteq Low(16)
         /\ \A f \in {"endpointId", "consumption"} : scmPlusOf(m)[f] \subseteq Low(32)
<1>1. /\ Sent(m, 0, 16) \subseteq Low(16) /\ Sent(m, 96, 16) \subseteq Low(16)
      /\ Sent(m, 112, 16) \subseteq Low(16)
      /\ Sent(m, 32, 32) \subseteq Low(32) /\ Sent(m, 64, 32) \subseteq Low(32)
  BY SentTyped
<1> QED
  BY <1>1, ScmPlusFields

LEMMA IdmTyped ==
  ASSUME NEW m \in SUBSET Int
  PROVE  IF idmOf(m).ertType = Bits(\h18)
           THEN idmOf(m).data.differentialConsumption \in [Low(27) -> SUBSET Low(14)]
           ELSE idmOf(m).data.differentialConsumption \in [Low(47) -> SUBSET Low(9)]
<1>1. idmOf(m).ertType = Byte(m, 8)
  BY DEF idmOf
<1>2. CASE IsX18(m)
  <2>1. idmOf(m).data = x18Of(m, 14)
    BY <1>2 DEF idmOf
  <2>2. \A k \in Low(27) : Sent(m, 304 + k * 14, 14) \subseteq Low(14)
    BY SentTyped DEF Low
  <2>3. x18Of(m, 14).differentialConsumption = SentArray(m, 304, 14, 27)
    BY X18Fields
  <2>4. SentArray(m, 304, 14, 27) \in [Low(27) -> SUBSET Low(14)]
    BY <2>2 DEF SentArray
  <2> QED
    BY <1>1, <1>2, <2>1, <2>3, <2>4 DEF IsX18
<1>3. CASE ~IsX18(m)
  <2>1. idmOf(m).data = stdOf(m, 14)
    BY <1>3 DEF idmOf
  <2>2. \A k \in Low(47) : Sent(m, 264 + k * 9, 9) \subseteq Low(9)
    BY SentTyped DEF Low
  <2>3. stdOf(m, 14).differentialConsumption = SentArray(m, 264, 9, 47)
    BY StdFields
  <2>4. SentArray(m, 264, 9, 47) \in [Low(47) -> SUBSET Low(9)]
    BY <2>2 DEF SentArray
  <2> QED
    BY <1>1, <1>3, <2>1, <2>3, <2>4 DEF IsX18
<1> QED
  BY <1>2, <1>3

-----------------------------------------------------------------------------
(* Checksums are linear when their tables are. *)

Words == SUBSET Low(16)

(* Is crc what the loop has after each of the bytes? *)
Computes(crc, entries, init, m, first, len) ==
  /\ crc \in [0..len -> Words]
  /\ crc[0] = init /\ Crc(entries, init, m, first, len) = crc[len]
  /\ \A i \in 1..len :
       crc[i] = Xor(Left(crc[i - 1], 8, 16),
                    entries[Xor(Right(crc[i - 1], 8), Byte(m, first + i - 1))])

(* Such a function exists: the loop never leaves the 16 bits. *)
LEMMA CrcSteps ==
  ASSUME NEW entries, Linear(entries), NEW init \in Words, NEW m \in SUBSET Int,
         NEW first \in Int, NEW len \in Nat
  PROVE  \E crc : Computes(crc, entries, init, m, first, len)
<1> DEFINE turn == [s \in (SUBSET Low(16)) \X (SUBSET Low(8)) |->
                      Xor(Left(s[1], 8, 16), entries[Xor(Right(s[1], 8), s[2])])]
           Step(f, i) == turn[<<f[i - 1], Byte(m, first + i - 1)>>]
           Runs(f, n) == f = [i \in 0..n |-> IF i = 0 THEN init ELSE Step(f, i)]
           crc == CHOOSE f : Runs(f, len)
<1>1. Crc(entries, init, m, first, len) = crc[len]
  BY DEF Crc
<1>2. \A i \in Int : Byte(m, i) \in SUBSET Low(8)
  BY ByteIn DEF Low
<1>3. \A c \in Words, b \in SUBSET Low(8) :
        /\ turn[<<c, b>>] = Xor(Left(c, 8, 16), entries[Xor(Right(c, 8), b)])
        /\ turn[<<c, b>>] \in Words
  <2> SUFFICES ASSUME NEW c \in Words, NEW b \in SUBSET Low(8)
               PROVE  /\ turn[<<c, b>>] = Xor(Left(c, 8, 16), entries[Xor(Right(c, 8), b)])
                      /\ turn[<<c, b>>] \in Words
    OBVIOUS
  <2>1. turn[<<c, b>>] = Xor(Left(c, 8, 16), entries[Xor(Right(c, 8), b)])
    BY DEF Words
  <2>2. Right(c, 8) \in SUBSET Low(8)
    BY DEF Words, Right, Low
  <2>3. Xor(Right(c, 8), b) \in SUBSET Low(8)
    BY <2>2 DEF Xor
  <2>4. entries[Xor(Right(c, 8), b)] \subseteq Low(16)
    BY <2>3 DEF Linear
  <2>5. Left(c, 8, 16) \subseteq Low(16)
    BY DEF Left
  <2>6. Xor(Left(c, 8, 16), entries[Xor(Right(c, 8), b)]) \in Words
    BY <2>4, <2>5 DEF Xor, Words
  <2> QED
    BY <2>1, <2>6
<1> HIDE DEF turn
<1>4. Nat \subseteq {n \in Nat : \E f : Runs(f, n)}
  <2> DEFINE S == {n \in Nat : \E f : Runs(f, n)}
  <2>1. 0 \in S
    <3> DEFINE f == [i \in 0..0 |-> init]
    <3>1. f = [i \in 0..0 |-> IF i = 0 THEN init ELSE Step(f, i)]
      OBVIOUS
    <3> QED
      BY <3>1
  <2>2. ASSUME NEW n \in Nat, n \in S PROVE n + 1 \in S
    <3>1. PICK f : Runs(f, n)
      BY <2>2
    <3> DEFINE g == [i \in 0..(n + 1) |-> IF i <= n THEN f[i] ELSE Step(f, i)]
    <3>2. \A i \in 0..(n + 1) : g[i] = IF i = 0 THEN init ELSE Step(g, i)
      <4> TAKE i \in 0..(n + 1)
      <4>1. CASE i = 0
        BY <3>1, <4>1
      <4>2. CASE i # 0
        <5>1. i - 1 \in 0..n /\ g[i - 1] = f[i - 1]
          BY <4>2
        <5>2. Step(g, i) = Step(f, i)
          BY <5>1
        <5>3. i \in 0..n => f[i] = Step(f, i)
          <6> HIDE DEF Step
          <6> QED
            BY <3>1, <4>2
        <5>4. g[i] = Step(f, i)
          <6> HIDE DEF Step
          <6> QED
            BY <4>2, <5>3
        <5> HIDE DEF g, Step
        <5> QED
          BY <4>2, <5>2, <5>4
      <4> QED
        BY <4>1, <4>2
    <3>3. g = [i \in 0..(n + 1) |-> IF i = 0 THEN init ELSE Step(g, i)]
      BY <3>2
    <3>4. n + 1 \in Nat /\ Runs(g, n + 1)
      BY <3>3
    <3> HIDE DEF g, Runs
    <3> QED
      BY <3>4
  <2> HIDE DEF S
  <2>3. Nat \subseteq S
    BY <2>1, <2>2, Induction
  <2> QED
    BY <2>3 DEF S
<1>5. Runs(crc, len)
  <2>1. \E f : Runs(f, len)
    BY <1>4
  <2> QED
    BY <2>1
<1>6. /\ crc[0] = init /\ DOMAIN crc = 0..len
      /\ \A i \in 1..len : crc[i] = turn[<<crc[i - 1], Byte(m, first + i - 1)>>]
      /\ crc = [i \in 0..len |-> crc[i]]
  <2>1. crc = [i \in 0..len |-> IF i = 0 THEN init ELSE Step(crc, i)]
    BY <1>5
  <2> HIDE DEF crc
  <2>2. DOMAIN crc = 0..len /\ crc = [i \in 0..len |-> crc[i]]
    BY <2>1
  <2>3. crc[0] = init
    BY <2>1
  <2>4. \A i \in 1..len : crc[i] = Step(crc, i)
    <3> HIDE DEF Step
    <3> QED
      BY <2>1
  <2> QED
    BY <2>2, <2>3, <2>4
<1> HIDE DEF crc
<1>7. Nat \subseteq {n \in Nat : n <= len => crc[n] \in Words}
  <2> DEFINE S == {n \in Nat : n <= len => crc[n] \in Words}
  <2>1. 0 \in S
    BY <1>6
  <2>2. ASSUME NEW n \in Nat, n \in S PROVE n + 1 \in S
    <3> SUFFICES ASSUME n + 1 <= len PROVE crc[n + 1] \in Words
      OBVIOUS
    <3>1. n + 1 \in 1..len /\ (n + 1) - 1 = n /\ crc[n] \in Words
      BY <2>2
    <3>2. crc[n + 1] = turn[<<crc[n], Byte(m, first + (n + 1) - 1)>>]
      BY <1>6, <3>1
    <3>3. first + (n + 1) - 1 \in Int
      OBVIOUS
    <3> QED
      BY <1>2, <1>3, <3>1, <3>2, <3>3
  <2> HIDE DEF S
  <2>3. Nat \subseteq S
    BY <2>1, <2>2, Induction
  <2> QED
    BY <2>3 DEF S
<1>8. crc \in [0..len -> Words]
  BY <1>6, <1>7
<1>9. ASSUME NEW i \in 1..len
      PROVE  crc[i] = Xor(Left(crc[i - 1], 8, 16),
                          entries[Xor(Right(crc[i - 1], 8), Byte(m, first + i - 1))])
  <2>1. i - 1 \in 0..len /\ first + i - 1 \in Int
    OBVIOUS
  <2> QED
    BY <1>2, <1>3, <1>6, <1>8, <2>1
<1> QED
  BY <1>1, <1>6, <1>8, <1>9 DEF Computes

(* Shifts and bytes of a sum are the sums of shifts and bytes. *)
LEMMA XorMoves ==
  ASSUME NEW u \in SUBSET Int, NEW v \in SUBSET Int
  PROVE  /\ Left(Xor(u, v), 8, 16) = Xor(Left(u, 8, 16), Left(v, 8, 16))
         /\ Right(Xor(u, v), 8) = Xor(Right(u, 8), Right(v, 8))
         /\ \A i \in Int : Byte(Xor(u, v), i) = Xor(Byte(u, i), Byte(v, i))
<1>1. Xor(u, v) \in SUBSET Int
  BY DEF Xor
<1>2. \A x : x \in Left(Xor(u, v), 8, 16) <=> x \in Xor(Left(u, 8, 16), Left(v, 8, 16))
  BY <1>1, LeftIn, XorIn
<1>3. \A x : x \in Right(Xor(u, v), 8) <=> x \in Xor(Right(u, 8), Right(v, 8))
  BY <1>1, RightIn, XorIn
<1>4. \A i \in Int : \A x : x \in Byte(Xor(u, v), i) <=> x \in Xor(Byte(u, i), Byte(v, i))
  BY <1>1, ByteIn, XorIn
<1> QED
  BY <1>2, <1>3, <1>4

(* In a sum of sums the order does not matter. *)
LEMMA XorOfXors ==
  ASSUME NEW a, NEW b, NEW c, NEW d
  PROVE  Xor(Xor(a, b), Xor(c, d)) = Xor(Xor(a, c), Xor(b, d))
<1>1. \A x : x \in Xor(Xor(a, b), Xor(c, d)) <=> x \in Xor(Xor(a, c), Xor(b, d))
  BY XorIn
<1> QED
  BY <1>1

(* One turn of the loop, on the sum of two checksums and of two bytes, gives *)
(* the sum of what it gives on each.                                         *)
LEMMA TurnLinear ==
  ASSUME NEW entries, Linear(entries), NEW c \in Words, NEW d \in Words,
         NEW p \in SUBSET Low(8), NEW q \in SUBSET Low(8)
  PROVE  Xor(Left(Xor(c, d), 8, 16), entries[Xor(Right(Xor(c, d), 8), Xor(p, q))])
           = Xor(Xor(Left(c, 8, 16), entries[Xor(Right(c, 8), p)]),
                 Xor(Left(d, 8, 16), entries[Xor(Right(d, 8), q)]))
<1> DEFINE u == Xor(Right(c, 8), p)
           v == Xor(Right(d, 8), q)
<1>1. c \in SUBSET Int /\ d \in SUBSET Int
  BY DEF Words, Low
<1>2. /\ Left(Xor(c, d), 8, 16) = Xor(Left(c, 8, 16), Left(d, 8, 16))
      /\ Right(Xor(c, d), 8) = Xor(Right(c, 8), Right(d, 8))
  BY <1>1, XorMoves
<1>3. Xor(Right(Xor(c, d), 8), Xor(p, q)) = Xor(u, v)
  BY <1>2, XorOfXors
<1>4. Right(c, 8) \in SUBSET Low(8) /\ Right(d, 8) \in SUBSET Low(8)
  BY DEF Words, Right, Low
<1>5. u \in SUBSET Low(8) /\ v \in SUBSET Low(8)
  BY <1>4 DEF Xor
<1>6. entries[Xor(u, v)] = Xor(entries[u], entries[v])
  BY <1>5 DEF Linear
<1> HIDE DEF u, v
<1>7. Xor(Left(Xor(c, d), 8, 16), entries[Xor(Right(Xor(c, d), 8), Xor(p, q))])
        = Xor(Xor(Left(c, 8, 16), Left(d, 8, 16)), Xor(entries[u], entries[v]))
  BY <1>2, <1>3, <1>6
<1>8. Xor(Xor(Left(c, 8, 16), Left(d, 8, 16)), Xor(entries[u], entries[v]))
        = Xor(Xor(Left(c, 8, 16), entries[u]), Xor(Left(d, 8, 16), entries[v]))
  BY XorOfXors
<1> QED
  BY <1>7, <1>8 DEF u, v

(* The checksum of a sum is the sum of the checksums. *)
LEMMA CrcLinear ==
  ASSUME NEW entries, Linear(entries), NEW a \in Words, NEW b \in Words,
         NEW m \in SUBSET Int, NEW e \in SUBSET Int, NEW first \in Int, NEW len \in Nat
  PROVE  Crc(entries, Xor(a, b), Xor(m, e), first, len)
           = Xor(Crc(entries, a, m, first, len), Crc(entries, b, e, first, len))
<1> DEFINE Turn(c, p) == Xor(Left(c, 8, 16), entries[Xor(Right(c, 8), p)])
<1>1. Xor(a, b) \in Words /\ Xor(m, e) \in SUBSET Int
  BY DEF Words, Xor
<1>2. PICK c : Computes(c, entries, a, m, first, len)
  BY CrcSteps
<1>3. PICK d : Computes(d, entries, b, e, first, len)
  BY CrcSteps
<1>4. PICK s : Computes(s, entries, Xor(a, b), Xor(m, e), first, len)
  BY <1>1, CrcSteps
<1>5. \A i \in Int : /\ Byte(m, i) \in SUBSET Low(8) /\ Byte(e, i) \in SUBSET Low(8)
                     /\ Byte(Xor(m, e), i) = Xor(Byte(m, i), Byte(e, i))
  <2>1. \A i \in Int : Byte(m, i) \in SUBSET Low(8) /\ Byte(e, i) \in SUBSET Low(8)
    BY ByteIn DEF Low
  <2>2. \A i \in Int : Byte(Xor(m, e), i) = Xor(Byte(m, i), Byte(e, i))
    BY XorMoves
  <2> QED
    BY <2>1, <2>2
<1>6. \A x, y \in Words, p, q \in SUBSET Low(8) :
        Turn(Xor(x, y), Xor(p, q)) = Xor(Turn(x, p), Turn(y, q))
  BY TurnLinear
<1>7. /\ c \in [0..len -> Words] /\ c[0] = a /\ d \in [0..len -> Words] /\ d[0] = b
      /\ s[0] = Xor(a, b)
      /\ Crc(entries, Xor(a, b), Xor(m, e), first, len) = s[len]
      /\ Crc(entries, a, m, first, len) = c[len]
      /\ Crc(entries, b, e, first, len) = d[len]
  BY <1>2, <1>3, <1>4 DEF Computes
<1>8. ASSUME NEW i \in 1..len
      PROVE  /\ s[i] = Turn(s[i - 1], Byte(Xor(m, e), first + i - 1))
             /\ c[i] = Turn(c[i - 1], Byte(m, first + i - 1))
             /\ d[i] = Turn(d[i - 1], Byte(e, first + i - 1))
  BY <1>2, <1>3, <1>4 DEF Computes
<1> HIDE DEF Turn
<1>9. Nat \subseteq {i \in Nat : i <= len => s[i] = Xor(c[i], d[i])}
  <2> DEFINE S == {i \in Nat : i <= len => s[i] = Xor(c[i], d[i])}
  <2>1. 0 \in S
    BY <1>7
  <2>2. ASSUME NEW i \in Nat, i \in S PROVE i + 1 \in S
    <3> SUFFICES ASSUME i + 1 <= len PROVE s[i + 1] = Xor(c[i + 1], d[i + 1])
      OBVIOUS
    <3> DEFINE at == first + (i + 1) - 1
    <3>1. i + 1 \in 1..len /\ (i + 1) - 1 = i /\ i \in 0..len /\ at \in Int
      OBVIOUS
    <3>2. s[i] = Xor(c[i], d[i]) /\ c[i] \in Words /\ d[i] \in Words
      <4>1. \A j \in 0..len : c[j] \in Words /\ d[j] \in Words
        BY <1>7
      <4> QED
        BY <2>2, <3>1, <4>1
    <3>3. /\ s[i + 1] = Turn(s[i], Byte(Xor(m, e), at))
          /\ c[i + 1] = Turn(c[i], Byte(m, at))
          /\ d[i + 1] = Turn(d[i], Byte(e, at))
      BY <1>8, <3>1
    <3> HIDE DEF at
    <3> QED
      BY <1>5, <1>6, <3>1, <3>2, <3>3
  <2> HIDE DEF S
  <2>3. Nat \subseteq S
    BY <2>1, <2>2, Induction
  <2> QED
    BY <2>3 DEF S
<1>10. s[len] = Xor(c[len], d[len])
  BY <1>9
<1> QED
  BY <1>7, <1>10

(* The errors that turn one right message into another leave no remainder.  *)
LEMMA ErrorRemainder ==
  ASSUME NEW entries, Linear(entries), NEW init \in Words, NEW m \in SUBSET Int,
         NEW e \in SUBSET Int, NEW first \in Int, NEW len \in Nat,
         Crc(entries, init, m, first, len) = Crc(entries, init, Xor(m, e), first, len)
  PROVE  Crc(entries, {}, e, first, len) = {}
<1>1. {} \in Words /\ Xor(init, {}) = init
  BY DEF Words, Xor
<1>2. Crc(entries, Xor(init, {}), Xor(m, e), first, len)
        = Xor(Crc(entries, init, m, first, len), Crc(entries, {}, e, first, len))
  BY <1>1, CrcLinear
<1>3. \A u, v : u = Xor(u, v) => v = {}
  <2> SUFFICES ASSUME NEW u, NEW v, u = Xor(u, v), NEW x \in v PROVE FALSE
    OBVIOUS
  <2>1. x \in Xor(u, v) <=> ((x \in u) # (x \in v))
    BY XorIn
  <2> QED
    BY <2>1
<1> QED
  BY <1>1, <1>2, <1>3

(* So do errors that a checksum does not see. *)
LEMMA Undetected ==
  ASSUME Linear(BCHEntries), Linear(CCITTEntries), NEW type \in Types,
         NEW m \in SUBSET Int, NEW e \in SUBSET Int,
         Accepts(type, m), Accepts(type, Xor(m, e))
  PROVE  RemainderOf(type, e) = {}
<1>1. {} \in Words /\ Low(16) \in Words
  BY DEF Words
<1>2. CASE type = "scm"
  <2>1. Crc(BCHEntries, {}, m, 2, 10) = Crc(BCHEntries, {}, Xor(m, e), 2, 10)
    BY <1>2 DEF Accepts, computeBCHCRC
  <2>2. Crc(BCHEntries, {}, e, 2, 10) = {}
    BY <1>1, <2>1, ErrorRemainder
  <2> QED
    BY <1>2, <2>2 DEF RemainderOf
<1>3. CASE type = "scmPlus"
  <2>1. Crc(CCITTEntries, Low(16), m, 2, 14) = Crc(CCITTEntries, Low(16), Xor(m, e), 2, 14)
    BY <1>3 DEF Accepts, computeCCITTCRC
  <2>2. Crc(CCITTEntries, {}, e, 2, 14) = {}
    BY <1>1, <2>1, ErrorRemainder
  <2> QED
    BY <1>3, <2>2 DEF RemainderOf
<1>4. CASE type = "idm"
  <2>1. Crc(CCITTEntries, Low(16), m, 4, 88) = Crc(CCITTEntries, Low(16), Xor(m, e), 4, 88)
    BY <1>4 DEF Accepts, computeCCITTCRC
  <2>2. Crc(CCITTEntries, {}, e, 4, 88) = {}
    BY <1>1, <2>1, ErrorRemainder
  <2> QED
    BY <1>4, <2>2 DEF RemainderOf
<1> QED
  BY <1>2, <1>3, <1>4 DEF Types

-----------------------------------------------------------------------------
(* Errors that show. *)

(* The loop after a byte. *)
Turn(entries, c, b) == Xor(Left(c, 8, 16), entries[Xor(Right(c, 8), b)])

LEMMA XorEmpty ==
  ASSUME NEW u, NEW v PROVE (Xor(u, v) = {}) <=> (u = v)
  BY DEF Xor

(* An entry of a linear table for no bits has none. *)
LEMMA NoEntry ==
  ASSUME NEW entries, Linear(entries) PROVE entries[{}] = {}
<1>1. {} \in SUBSET Low(8) /\ Xor({}, {}) = {}
  BY DEF Xor
<1>2. entries[{}] = Xor(entries[{}], entries[{}])
  BY <1>1 DEF Linear
<1> QED
  BY <1>2, XorEmpty

(* A byte leaves nothing only if it was all that the checksum held.         *)
LEMMA TurnEmpty ==
  ASSUME NEW entries, Linear(entries), LowestStays(entries), NEW c \in Words,
         NEW b \in SUBSET Low(8), Turn(entries, c, b) = {}
  PROVE  c = Left(b, 8, 16)
<1> DEFINE w == Xor(Right(c, 8), b)
<1>1. c \in SUBSET Int /\ b \in SUBSET Int /\ Right(c, 8) \in SUBSET Low(8)
  BY DEF Words, Right, Low
<1>2. w \in SUBSET Low(8)
  BY <1>1 DEF Xor
<1>3. entries[w] = Left(c, 8, 16)
  BY XorEmpty DEF Turn
<1>4. Left(c, 8, 16) \cap Low(8) = {}
  BY <1>1, LeftIn DEF Words, Low
<1>5. w = {}
  <2>1. entries[w] \cap Low(8) = {}
    BY <1>3, <1>4
  <2> HIDE DEF w
  <2> QED
    BY <1>2, <2>1 DEF LowestStays
<1>6. Right(c, 8) = b
  BY <1>5, XorEmpty
<1>7. Left(c, 8, 16) = {}
  BY <1>3, <1>5, NoEntry
<1>8. ASSUME NEW x PROVE x \in c <=> x \in Left(b, 8, 16)
  <2>1. x \in c => x \in 0..15
    BY DEF Words, Low
  <2>2. x \in c => x \notin 0..7
    <3>1. x + 8 \in Left(c, 8, 16) <=> x + 8 \in Low(16) /\ (x + 8) - 8 \in c
      BY <1>1, LeftIn
    <3> QED
      BY <1>7, <3>1 DEF Low
  <2>3. x \in 8..15 => (x \in c <=> x - 8 \in b)
    <3> SUFFICES ASSUME x \in 8..15 PROVE x \in c <=> x - 8 \in b
      OBVIOUS
    <3>1. x - 8 \in Right(c, 8) <=> x - 8 \in Nat /\ (x - 8) + 8 \in c
      BY <1>1, RightIn
    <3> QED
      BY <1>6, <3>1
  <2>4. x \in Left(b, 8, 16) <=> x \in 0..15 /\ x - 8 \in b
    BY <1>1, LeftIn DEF Low
  <2> QED
    BY <1>1, <2>1, <2>2, <2>3, <2>4 DEF Low
<1> QED
  BY <1>8

(* Nor does a byte without bits. *)
LEMMA TurnIdle ==
  ASSUME NEW entries, Linear(entries), LowestStays(entries), NEW c \in Words
  PROVE  (Turn(entries, c, {}) = {}) <=> (c = {})
<1>1. ASSUME Turn(entries, c, {}) = {} PROVE c = {}
  <2>1. c = Left({}, 8, 16)
    BY <1>1, TurnEmpty
  <2> QED
    BY <2>1 DEF Left
<1>2. ASSUME c = {} PROVE Turn(entries, c, {}) = {}
  <2>1. Left(c, 8, 16) = {} /\ Xor(Right(c, 8), {}) = {}
    BY <1>2 DEF Left, Right, Xor
  <2>2. Xor({}, {}) = {}
    BY XorEmpty
  <2> QED
    BY <2>1, <2>2, NoEntry DEF Turn
<1> QED
  BY <1>1, <1>2

(* Errors within three bytes show, if those in the first lie below those in  *)
(* the third.  The loop holds nothing before and, for there to be nothing at *)
(* the end, nothing behind them; so the second and third byte have to take   *)
(* all that the first leaves, but the lowest of it stays.                    *)
LEMMA ThreeBytes ==
  ASSUME NEW entries, Linear(entries), LowestStays(entries), NEW e \in SUBSET Int,
         NEW first \in Int, NEW len \in Nat, NEW i \in Int,
         first <= i, i + 2 < first + len, e \subseteq (8 * i)..(8 * i + 23),
         NEW n \in 0..8, Byte(e, i) \subseteq Low(n), Byte(e, i + 2) \cap Low(n) = {},
         Crc(entries, {}, e, first, len) = {}
  PROVE  e = {}
<1> DEFINE k == i - first
           b1 == Byte(e, i)
           b2 == Byte(e, i + 1)
           b3 == Byte(e, i + 2)
<1>1. PICK c : Computes(c, entries, {}, e, first, len)
  <2>1. {} \in Words
    BY DEF Words
  <2> QED
    BY <2>1, CrcSteps
<1>2. k \in Nat /\ k + 3 \in 0..len
  OBVIOUS
<1>3. c[0] = {} /\ c[len] = {} /\ \A j \in 0..len : c[j] \in Words
  BY <1>1 DEF Computes
<1>4. \A j \in 1..len : c[j] = Turn(entries, c[j - 1], Byte(e, first + j - 1))
  BY <1>1 DEF Computes, Turn
<1>5. \A j \in Int : j < i \/ j > i + 2 => Byte(e, j) = {}
  <2> SUFFICES ASSUME NEW j \in Int, j < i \/ j > i + 2, NEW x \in Byte(e, j) PROVE FALSE
    OBVIOUS
  <2>1. x \in 0..7 /\ 8 * j + 7 - x \in e
    BY ByteIn
  <2>2. 8 * j + 7 - x \in (8 * i)..(8 * i + 23)
    BY <2>1
  <2> QED
    BY <2>1, <2>2
<1>6. b1 \in SUBSET Low(8) /\ b2 \in SUBSET Low(8) /\ b3 \in SUBSET Low(8)
  BY ByteIn DEF Low
<1>7. c[k] = {}
  <2> DEFINE S == {j \in Nat : j <= k => c[j] = {}}
  <2>1. 0 \in S
    BY <1>3
  <2>2. ASSUME NEW j \in Nat, j \in S PROVE j + 1 \in S
    <3> SUFFICES ASSUME j + 1 <= k PROVE c[j + 1] = {}
      OBVIOUS
    <3>1. j + 1 \in 1..len /\ (j + 1) - 1 = j /\ j \in 0..len /\ c[j] = {}
      BY <1>2, <2>2
    <3>2. first + (j + 1) - 1 \in Int /\ first + (j + 1) - 1 < i
      OBVIOUS
    <3>3. Byte(e, first + (j + 1) - 1) = {}
      BY <1>5, <3>2
    <3>4. c[j + 1] = Turn(entries, c[j], {})
      BY <1>4, <3>1, <3>3
    <3>5. c[j] \in Words
      BY <1>3, <3>1
    <3> QED
      BY <3>1, <3>4, <3>5, TurnIdle
  <2> HIDE DEF S
  <2>3. Nat \subseteq S
    BY <2>1, <2>2, Induction
  <2>4. k \in S
    BY <1>2, <2>3
  <2> QED
    BY <2>4 DEF S
<1>8. c[k + 3] = {}
  <2> DEFINE S == {j \in Nat : j <= len - (k + 3) => c[len - j] = {}}
  <2>1. 0 \in S
    <3>1. len - 0 = len
      OBVIOUS
    <3> QED
      BY <1>3, <3>1
  <2>2. ASSUME NEW j \in Nat, j \in S PROVE j + 1 \in S
    <3> SUFFICES ASSUME j + 1 <= len - (k + 3) PROVE c[len - (j + 1)] = {}
      OBVIOUS
    <3>1. /\ len - j \in 1..len /\ (len - j) - 1 = len - (j + 1)
          /\ len - (j + 1) \in 0..len /\ c[len - j] = {}
      BY <1>2, <2>2
    <3>2. first + (len - j) - 1 \in Int /\ first + (len - j) - 1 > i + 2
      BY <1>2
    <3>3. Byte(e, first + (len - j) - 1) = {}
      BY <1>5, <3>2
    <3>4. c[len - j] = Turn(entries, c[len - (j + 1)], {})
      BY <1>4, <3>1, <3>3
    <3>5. c[len - (j + 1)] \in Words
      BY <1>3, <3>1
    <3> QED
      BY <3>1, <3>4, <3>5, TurnIdle
  <2> HIDE DEF S
  <2>3. Nat \subseteq S
    BY <2>1, <2>2, Induction
  <2>4. len - (k + 3) \in S /\ len - (len - (k + 3)) = k + 3
    BY <1>2, <2>3
  <2> QED
    BY <2>4 DEF S
<1>9. /\ c[k + 1] = Turn(entries, {}, b1)
      /\ c[k + 2] = Turn(entries, c[k + 1], b2)
      /\ Turn(entries, c[k + 2], b3) = {}
  <2>1. /\ k + 1 \in 1..len /\ (k + 1) - 1 = k /\ first + (k + 1) - 1 = i
        /\ k + 2 \in 1..len /\ (k + 2) - 1 = k + 1 /\ first + (k + 2) - 1 = i + 1
        /\ k + 3 \in 1..len /\ (k + 3) - 1 = k + 2 /\ first + (k + 3) - 1 = i + 2
    BY <1>2
  <2>2. /\ c[k + 1] = Turn(entries, c[(k + 1) - 1], Byte(e, first + (k + 1) - 1))
        /\ c[k + 2] = Turn(entries, c[(k + 2) - 1], Byte(e, first + (k + 2) - 1))
        /\ c[k + 3] = Turn(entries, c[(k + 3) - 1], Byte(e, first + (k + 3) - 1))
    BY <1>4, <2>1
  <2> HIDE DEF k
  <2> QED
    BY <1>7, <1>8, <2>1, <2>2
<1>10. c[k + 2] \in Words
  <2>1. k + 2 \in 0..len
    BY <1>2
  <2> QED
    BY <1>3, <2>1
<1> HIDE DEF k, b1, b2, b3
<1>11. c[k + 2] = Left(b3, 8, 16)
  BY <1>6, <1>9, <1>10, TurnEmpty
<1>12. c[k + 1] = entries[b1]
  <2>1. Left({}, 8, 16) = {} /\ Right({}, 8) = {}
    BY DEF Left, Right
  <2>2. Xor({}, b1) = b1 /\ Xor({}, entries[b1]) = entries[b1]
    BY DEF Xor
  <2> QED
    BY <1>9, <2>1, <2>2 DEF Turn
<1>13. entries[b1] \in SUBSET Low(16)
  BY <1>6 DEF Linear
<1> DEFINE w == Xor(Right(entries[b1], 8), b2)
           high == Left(entries[b1], 8, 16)
<1>14. Xor(high, entries[w]) = Left(b3, 8, 16)
  BY <1>9, <1>11, <1>12 DEF Turn
<1>15. w \in SUBSET Low(8)
  <2>1. Right(entries[b1], 8) \in SUBSET Low(8)
    BY <1>13 DEF Right, Low
  <2> QED
    BY <1>6, <2>1 DEF Xor
<1>16. b3 \in SUBSET Int /\ entries[b1] \in SUBSET Int
  BY <1>6, <1>13 DEF Low
<1>17. high \cap Low(8) = {} /\ Left(b3, 8, 16) \cap Low(8) = {}
  <2>1. \A x \in Low(8) : x - 8 \notin b3 /\ x - 8 \notin entries[b1]
    BY <1>6, <1>13 DEF Low
  <2> QED
    BY <1>16, <2>1, LeftIn
<1> HIDE DEF w, high
<1>18. w = {}
  <2>1. entries[w] \cap Low(8) = {}
    BY <1>14, <1>17 DEF Xor
  <2> QED
    BY <1>15, <2>1 DEF LowestStays
<1>19. high = Left(b3, 8, 16)
  <2>1. entries[w] = {}
    BY <1>18, NoEntry
  <2> QED
    BY <1>14, <2>1 DEF Xor
<1>20. \A x \in Low(8) : x \in entries[b1] <=> x \in b3
  <2> TAKE x \in Low(8)
  <2>1. x + 8 \in Low(16) /\ (x + 8) - 8 = x
    BY DEF Low
  <2>2. x + 8 \in high <=> x + 8 \in Low(16) /\ (x + 8) - 8 \in entries[b1]
    BY <1>16, LeftIn DEF high
  <2>3. x + 8 \in Left(b3, 8, 16) <=> x + 8 \in Low(16) /\ (x + 8) - 8 \in b3
    BY <1>16, LeftIn
  <2> QED
    BY <1>19, <2>1, <2>2, <2>3
<1>21. b1 = {}
  <2>1. Low(n) \subseteq Low(8)
    BY DEF Low
  <2>2. entries[b1] \cap Low(n) = {}
    BY <1>20, <2>1 DEF b3
  <2>3. b1 \in SUBSET Low(n)
    BY DEF b1
  <2> QED
    BY <2>2, <2>3 DEF LowestStays
<1>22. entries[b1] = {}
  BY <1>21, NoEntry
<1>23. b3 = {}
  BY <1>6, <1>20, <1>22
<1>24. b2 = {}
  <2>1. Right(entries[b1], 8) = {}
    BY <1>22 DEF Right
  <2> QED
    BY <1>18, <2>1 DEF w, Xor
<1>25. ASSUME NEW x \in e PROVE FALSE
  <2>1. x \in (8 * i)..(8 * i + 23)
    OBVIOUS
  <2>2. CASE x < 8 * i + 8
    <3>1. PICK y \in 0..7 : 8 * i + 7 - y = x
      BY <2>1, <2>2
    <3> QED
      BY <1>21, <3>1, ByteIn DEF b1
  <2>3. CASE x \in (8 * i + 8)..(8 * i + 15)
    <3>1. PICK y \in 0..7 : 8 * (i + 1) + 7 - y = x
      BY <2>3
    <3>2. i + 1 \in Int
      OBVIOUS
    <3> QED
      BY <1>24, <3>1, <3>2, ByteIn DEF b2
  <2>4. CASE x > 8 * i + 15
    <3>1. PICK y \in 0..7 : 8 * (i + 2) + 7 - y = x
      BY <2>1, <2>4
    <3>2. i + 2 \in Int
      OBVIOUS
    <3> QED
      BY <1>23, <3>1, <3>2, ByteIn DEF b3
  <2> QED
    BY <2>1, <2>2, <2>3, <2>4
<1> QED
  BY <1>25

(* So errors within sixteen bits show: they lie in three bytes.             *)
LEMMA BurstShows ==
  ASSUME NEW entries, Linear(entries), LowestStays(entries), NEW e \in SUBSET Int,
         NEW first \in Nat, NEW len \in Nat, len >= 3,
         e \subseteq (8 * first)..(8 * (first + len) - 1),
         NEW p \in e, e \subseteq p..(p + 15)
  PROVE  Crc(entries, {}, e, first, len) # {}
<1> SUFFICES ASSUME Crc(entries, {}, e, first, len) = {} PROVE FALSE
  OBVIOUS
<1>1. p \in Nat /\ p >= 8 * first /\ p < 8 * (first + len)
  OBVIOUS
<1>2. PICK b \in Nat, r \in 0..7 : p = 8 * b + r
  <2>1. p \div 8 \in Nat /\ p % 8 \in 0..7 /\ p = 8 * (p \div 8) + (p % 8)
    BY <1>1
  <2> QED
    BY <2>1
<1>3. b >= first /\ b < first + len
  BY <1>1, <1>2
<1>4. CASE b + 2 < first + len
  <2> DEFINE n == 8 - r
  <2>1. n \in 0..8
    OBVIOUS
  <2>2. e \subseteq (8 * b)..(8 * b + 23)
    BY <1>2
  <2>3. Byte(e, b) \subseteq Low(n)
    <3> SUFFICES ASSUME NEW x \in Byte(e, b) PROVE x \in Low(n)
      OBVIOUS
    <3>1. x \in 0..7 /\ 8 * b + 7 - x \in e
      BY ByteIn
    <3>2. 8 * b + 7 - x >= 8 * b + r
      BY <1>2, <3>1
    <3> QED
      BY <3>1, <3>2 DEF Low
  <2>4. Byte(e, b + 2) \cap Low(n) = {}
    <3> SUFFICES ASSUME NEW x \in Byte(e, b + 2), x \in Low(n) PROVE FALSE
      OBVIOUS
    <3>1. x \in 0..7 /\ 8 * (b + 2) + 7 - x \in e
      BY ByteIn
    <3>2. 8 * (b + 2) + 7 - x <= 8 * b + r + 15
      BY <1>2, <3>1
    <3> QED
      BY <3>1, <3>2 DEF Low
  <2> HIDE DEF n
  <2>5. e = {}
    BY <1>3, <1>4, <2>1, <2>2, <2>3, <2>4, ThreeBytes
  <2> QED
    BY <2>5
<1>5. CASE b + 2 >= first + len
  <2> DEFINE i == first + len - 3
  <2>1. i \in Int /\ first <= i /\ i + 2 < first + len /\ b > i
    BY <1>5
  <2>2. e \subseteq (8 * i)..(8 * i + 23)
    <3> SUFFICES ASSUME NEW x \in e PROVE x \in (8 * i)..(8 * i + 23)
      OBVIOUS
    <3>1. x \in Nat /\ x >= 8 * b + r /\ x < 8 * (first + len)
      BY <1>2
    <3> QED
      BY <2>1, <3>1
  <2>3. Byte(e, i) = {}
    <3> SUFFICES ASSUME NEW x \in Byte(e, i) PROVE FALSE
      OBVIOUS
    <3>1. x \in 0..7 /\ 8 * i + 7 - x \in e
      BY <2>1, ByteIn
    <3>2. 8 * i + 7 - x >= 8 * b + r
      BY <1>2, <3>1
    <3> QED
      BY <2>1, <3>1, <3>2
  <2>4. Low(0) = {} /\ 0 \in 0..8
    BY DEF Low
  <2> HIDE DEF i
  <2>5. Byte(e, i) \subseteq Low(0) /\ Byte(e, i + 2) \cap Low(0) = {}
    BY <2>3, <2>4
  <2>6. e = {}
    BY <2>1, <2>2, <2>4, <2>5, ThreeBytes
  <2> QED
    BY <2>6
<1> QED
  BY <1>3, <1>4, <1>5

(* So do two wrong bits that do not leave the same. *)
LEMMA PairShows ==
  ASSUME NEW entries, Linear(entries), NEW p \in Int, NEW q \in Int,
         NEW first \in Int, NEW len \in Nat,
         p # q => Crc(entries, {}, {p}, first, len) # Crc(entries, {}, {q}, first, len),
         Crc(entries, {}, {p}, first, len) # {}
  PROVE  Crc(entries, {}, {p, q}, first, len) # {}
<1>1. CASE p = q
  BY <1>1
<1>2. CASE p # q
  <2>1. /\ {} \in Words /\ Xor({}, {}) = {} /\ {p, q} = Xor({p}, {q})
        /\ {p} \in SUBSET Int /\ {q} \in SUBSET Int
    BY <1>2 DEF Words, Xor
  <2>2. Crc(entries, Xor({}, {}), Xor({p}, {q}), first, len)
          = Xor(Crc(entries, {}, {p}, first, len), Crc(entries, {}, {q}, first, len))
    BY <2>1, CrcLinear
  <2> QED
    BY <1>2, <2>1, <2>2, XorEmpty
<1> QED
  BY <1>1, <1>2

(* With the tables of amr.c, every error that counts as detectable shows.   *)
LEMMA DetectableShows ==
  ASSUME TablesDetect, NEW type \in Types, NEW err, Detectable(type, err)
  PROVE  RemainderOf(type, err) # {}
<1>1. err \subseteq Covered[type]
  BY DEF Detectable
<1>2. Covered[type] \subseteq Nat
  BY DEF Covered, Types
<1>3. CASE \E p, q \in err : err = {p, q}
  <2>1. PICK p \in err, q \in err : err = {p, q}
    BY <1>3
  <2>2. p \in Covered[type] /\ q \in Covered[type] /\ p \in Int /\ q \in Int
    BY <1>1, <1>2
  <2> DEFINE remainders == {<<x, RemainderOf(type, {x})>> : x \in Covered[type]}
  <2>3. \A r, s \in remainders : r[2] # {} /\ (r[1] # s[1] => r[2] # s[2])
    BY DEF TablesDetect, BitsDiffer
  <2>4. <<p, RemainderOf(type, {p})>> \in remainders
    BY <2>2
  <2>5. <<q, RemainderOf(type, {q})>> \in remainders
    BY <2>2
  <2> HIDE DEF remainders
  <2>6. RemainderOf(type, {p}) # {}
    BY <2>3, <2>4
  <2>7. p # q => RemainderOf(type, {p}) # RemainderOf(type, {q})
    BY <2>3, <2>4, <2>5
  <2>8. CASE type = "scm"
    <3>1. \A e : RemainderOf(type, e) = Crc(BCHEntries, {}, e, 2, 10)
      BY <2>8 DEF RemainderOf
    <3> QED
      BY <2>1, <2>2, <2>6, <2>7, <3>1, PairShows DEF TablesDetect
  <2>9. CASE type = "scmPlus"
    <3>1. \A e : RemainderOf(type, e) = Crc(CCITTEntries, {}, e, 2, 14)
      BY <2>9 DEF RemainderOf
    <3> QED
      BY <2>1, <2>2, <2>6, <2>7, <3>1, PairShows DEF TablesDetect
  <2>10. CASE type = "idm"
    <3>1. \A e : RemainderOf(type, e) = Crc(CCITTEntries, {}, e, 4, 88)
      BY <2>10 DEF RemainderOf
    <3> QED
      BY <2>1, <2>2, <2>6, <2>7, <3>1, PairShows DEF TablesDetect
  <2> QED
    BY <2>8, <2>9, <2>10 DEF Types
<1>4. CASE \E p \in err : err \subseteq p..(p + 15)
  <2>1. PICK p \in err : err \subseteq p..(p + 15)
    BY <1>4
  <2>2. err \in SUBSET Int
    BY <1>1, <1>2
  <2>3. CASE type = "scm"
    <3>1. err \subseteq (8 * 2)..(8 * (2 + 10) - 1)
      BY <1>1, <2>3 DEF Covered
    <3>2. Crc(BCHEntries, {}, err, 2, 10) # {}
      BY <2>1, <2>2, <3>1, BurstShows DEF TablesDetect
    <3> QED
      BY <2>3, <3>2 DEF RemainderOf
  <2>4. CASE type = "scmPlus"
    <3>1. err \subseteq (8 * 2)..(8 * (2 + 14) - 1)
      BY <1>1, <2>4 DEF Covered
    <3>2. Crc(CCITTEntries, {}, err, 2, 14) # {}
      BY <2>1, <2>2, <3>1, BurstShows DEF TablesDetect
    <3> QED
      BY <2>4, <3>2 DEF RemainderOf
  <2>5. CASE type = "idm"
    <3>1. err \subseteq (8 * 4)..(8 * (4 + 88) - 1)
      BY <1>1, <2>5 DEF Covered
    <3>2. 4 \in Nat /\ 88 \in Nat /\ 88 >= 3
      OBVIOUS
    <3>3. Linear(CCITTEntries) /\ LowestStays(CCITTEntries)
      BY DEF TablesDetect
    <3>4. Crc(CCITTEntries, {}, err, 4, 88) # {}
      BY <2>1, <2>2, <3>1, <3>2, <3>3, BurstShows
    <3> QED
      BY <2>5, <3>4 DEF RemainderOf
  <2> QED
    BY <2>3, <2>4, <2>5 DEF Types
<1> QED
  BY <1>3, <1>4 DEF Detectable

-----------------------------------------------------------------------------
(* The specification. *)

Sound == {t \in Transmission : Accepts(t.type, t.sent)}

(* A struct of a type, as its parser fills it in. *)
StructOf(type, m) ==
  CASE type = "scm" -> scmOf(m) [] type = "scmPlus" -> scmPlusOf(m) [] type = "idm" -> idmOf(m)

(* Whatever its type, a struct agrees with the layout. *)
LEMMA StructAsSent ==
  ASSUME NEW type \in Types, NEW m \in SUBSET Int
  PROVE  AsSent(type, m, StructOf(type, m))
<1>1. CASE type = "scm"
  BY <1>1, ScmAsSent DEF StructOf
<1>2. CASE type = "scmPlus"
  BY <1>2, ScmPlusAsSent DEF StructOf
<1>3. CASE type = "idm"
  BY <1>3, IdmAsSent DEF StructOf
<1> QED
  BY <1>1, <1>2, <1>3 DEF Types

(* A struct always holds what its parser makes of some bits; after a message *)
(* without errors, what it makes of that message, which has been handed over.*)
(* An error is only handed over if it leaves no remainder.                   *)
Statics ==
  /\ \E m \in SUBSET Int : scmMsg = scmOf(m)
  /\ \E m \in SUBSET Int : scmPlusMsg = scmPlusOf(m)
  /\ \E m \in SUBSET Int : idmMsg = idmOf(m)
Heard ==
  heard # None =>
    /\ heard.type \in Types /\ heard.sent \in SUBSET Int /\ heard.err \in SUBSET Int
    /\ heard.registered \in BOOLEAN
    /\ Accepts(heard.type, heard.sent)
    /\ heard.err = {} =>
         /\ StaticOf[heard.type] = StructOf(heard.type, heard.sent)
         /\ called = IF heard.registered
                       THEN [type |-> heard.type, msg |-> StaticOf[heard.type]] ELSE None
    /\ called # None => Accepts(heard.type, Xor(heard.sent, heard.err))
ParserInv ==
  /\ air \in Seq(Sound) /\ amrMsgCallback \in BOOLEAN /\ Statics /\ Heard

(* The invariant holds at first, and every parser preserves it: a message
   that is accepted is taken apart and handed over, one that is not had errors. *)
LEMMA InitHolds == Init => ParserInv
<1> SUFFICES ASSUME Init PROVE ParserInv
  OBVIOUS
<1>1. air \in Seq(Sound)
  BY AirSent DEF Init, Sound
<1>2. Statics
  <2>1. {} \in SUBSET Int
    OBVIOUS
  <2> QED
    BY <2>1 DEF Init, Statics
<1>3. Heard
  BY DEF Init, Heard
<1> QED
  BY <1>1, <1>2, <1>3 DEF ParserInv, Init

(* What arrives, and that it is received as it was sent if nothing is wrong. *)
LEMMA Arriving ==
  ASSUME ParserInv, NEW type, Arrives(type)
  PROVE  /\ type \in Types /\ heard' # None /\ heard'.type = type
         /\ heard'.sent \in SUBSET Int /\ heard'.err \in SUBSET Int
         /\ heard'.registered = amrMsgCallback /\ amrMsgCallback' = amrMsgCallback
         /\ Accepts(type, heard'.sent)
         /\ received \in SUBSET Int /\ received = Xor(heard'.sent, heard'.err)
         /\ heard'.err = {} => received = heard'.sent
         /\ air' \in Seq(Sound)
<1>1. Head(air) \in Sound /\ Tail(air) \in Seq(Sound)
  BY HeadTail DEF ParserInv, Arrives
<1>2. /\ Head(air).type \in Types /\ Head(air).sent \in SUBSET Int
      /\ Head(air).err \in SUBSET Int /\ Accepts(Head(air).type, Head(air).sent)
  BY <1>1 DEF Sound, Transmission
<1>3. heard' = [type |-> type, sent |-> Head(air).sent, err |-> Head(air).err,
                registered |-> amrMsgCallback]
  BY DEF Arrives
<1>4. heard' # None
  <2>1. "sent" \in DOMAIN heard' /\ "sent" \notin DOMAIN None
    BY <1>3 DEF None
  <2> QED
    BY <2>1
<1>5. received \in SUBSET Int /\ (Head(air).err = {} => received = Head(air).sent)
  BY <1>2 DEF received, Xor
<1> QED
  BY <1>1, <1>2, <1>3, <1>4, <1>5 DEF Arrives, received

LEMMA ScmStep ==
  ASSUME ParserInv, parseSCMMsg PROVE ParserInv'
<1>1. Arrives("scm")
  BY DEF parseSCMMsg
<1>2. /\ heard' # None /\ heard'.type = "scm"
      /\ heard'.sent \in SUBSET Int /\ heard'.err \in SUBSET Int
      /\ heard'.registered = amrMsgCallback /\ amrMsgCallback' = amrMsgCallback
      /\ Accepts("scm", heard'.sent)
      /\ received \in SUBSET Int /\ received = Xor(heard'.sent, heard'.err)
      /\ heard'.err = {} => received = heard'.sent
      /\ air' \in Seq(Sound)
  BY <1>1, Arriving
<1>3. CASE computeBCHCRC(received, 2, 10)
  <2>1. /\ scmMsg' = scmOf(received) /\ UNCHANGED <<scmPlusMsg, idmMsg>>
        /\ called' = IF amrMsgCallback THEN [type |-> "scm", msg |-> scmMsg'] ELSE None
    BY <1>3 DEF parseSCMMsg, HandOver
  <2>2. Statics'
    BY <1>2, <2>1 DEF ParserInv, Statics
  <2>3. Accepts("scm", received)
    BY <1>3 DEF Accepts
  <2>4. StaticOf'["scm"] = scmOf(received)
    BY <2>1 DEF StaticOf
  <2>5. StructOf("scm", heard'.sent) = scmOf(heard'.sent)
    BY DEF StructOf
  <2>6. Heard'
    BY <1>2, <2>1, <2>3, <2>4, <2>5 DEF ParserInv, Heard, Types
  <2> QED
    BY <1>2, <2>2, <2>6 DEF ParserInv
<1>4. CASE ~computeBCHCRC(received, 2, 10)
  <2>1. UNCHANGED <<scmMsg, scmPlusMsg, idmMsg>> /\ called' = None
    BY <1>4 DEF parseSCMMsg
  <2>2. Statics'
    BY <2>1 DEF ParserInv, Statics
  <2>3. heard'.err # {}
    BY <1>2, <1>4 DEF Accepts
  <2>4. Heard'
    BY <1>2, <2>1, <2>3 DEF ParserInv, Heard, Types
  <2> QED
    BY <1>2, <2>2, <2>4 DEF ParserInv
<1> QED
  BY <1>3, <1>4

LEMMA ScmPlusStep ==
  ASSUME ParserInv, parseSCMPlusMsg PROVE ParserInv'
<1>1. Arrives("scmPlus")
  BY DEF parseSCMPlusMsg
<1>2. /\ heard' # None /\ heard'.type = "scmPlus"
      /\ heard'.sent \in SUBSET Int /\ heard'.err \in SUBSET Int
      /\ heard'.registered = amrMsgCallback /\ amrMsgCallback' = amrMsgCallback
      /\ Accepts("scmPlus", heard'.sent)
      /\ received \in SUBSET Int /\ received = Xor(heard'.sent, heard'.err)
      /\ heard'.err = {} => received = heard'.sent
      /\ air' \in Seq(Sound)
  BY <1>1, Arriving
<1>3. CASE computeCCITTCRC(received, 2, 14)
  <2>1. /\ scmPlusMsg' = scmPlusOf(received) /\ UNCHANGED <<scmMsg, idmMsg>>
        /\ called' = IF amrMsgCallback THEN [type |-> "scmPlus", msg |-> scmPlusMsg'] ELSE None
    BY <1>3 DEF parseSCMPlusMsg, HandOver
  <2>2. Statics'
    BY <1>2, <2>1 DEF ParserInv, Statics
  <2>3. Accepts("scmPlus", received)
    BY <1>3 DEF Accepts
  <2>4. StaticOf'["scmPlus"] = scmPlusOf(received)
    BY <2>1 DEF StaticOf
  <2>5. StructOf("scmPlus", heard'.sent) = scmPlusOf(heard'.sent)
    BY DEF StructOf
  <2>6. Heard'
    BY <1>2, <2>1, <2>3, <2>4, <2>5 DEF ParserInv, Heard, Types
  <2> QED
    BY <1>2, <2>2, <2>6 DEF ParserInv
<1>4. CASE ~computeCCITTCRC(received, 2, 14)
  <2>1. UNCHANGED <<scmPlusMsg, scmMsg, idmMsg>> /\ called' = None
    BY <1>4 DEF parseSCMPlusMsg
  <2>2. Statics'
    BY <2>1 DEF ParserInv, Statics
  <2>3. heard'.err # {}
    BY <1>2, <1>4 DEF Accepts
  <2>4. Heard'
    BY <1>2, <2>1, <2>3 DEF ParserInv, Heard, Types
  <2> QED
    BY <1>2, <2>2, <2>4 DEF ParserInv
<1> QED
  BY <1>3, <1>4

LEMMA IdmStep ==
  ASSUME ParserInv, parseIDMMsg PROVE ParserInv'
<1>1. Arrives("idm")
  BY DEF parseIDMMsg
<1>2. /\ heard' # None /\ heard'.type = "idm"
      /\ heard'.sent \in SUBSET Int /\ heard'.err \in SUBSET Int
      /\ heard'.registered = amrMsgCallback /\ amrMsgCallback' = amrMsgCallback
      /\ Accepts("idm", heard'.sent)
      /\ received \in SUBSET Int /\ received = Xor(heard'.sent, heard'.err)
      /\ heard'.err = {} => received = heard'.sent
      /\ air' \in Seq(Sound)
  BY <1>1, Arriving
<1>3. CASE computeCCITTCRC(received, 4, 88)
  <2>1. /\ idmMsg' = idmOf(received) /\ UNCHANGED <<scmMsg, scmPlusMsg>>
        /\ called' = IF amrMsgCallback THEN [type |-> "idm", msg |-> idmMsg'] ELSE None
    BY <1>3 DEF parseIDMMsg, HandOver
  <2>2. Statics'
    BY <1>2, <2>1 DEF ParserInv, Statics
  <2>3. Accepts("idm", received)
    BY <1>3 DEF Accepts
  <2>4. StaticOf'["idm"] = idmOf(received)
    BY <2>1 DEF StaticOf
  <2>5. StructOf("idm", heard'.sent) = idmOf(heard'.sent)
    BY DEF StructOf
  <2>6. Heard'
    BY <1>2, <2>1, <2>3, <2>4, <2>5 DEF ParserInv, Heard, Types
  <2> QED
    BY <1>2, <2>2, <2>6 DEF ParserInv
<1>4. CASE ~computeCCITTCRC(received, 4, 88)
  <2>1. UNCHANGED <<idmMsg, scmMsg, scmPlusMsg>> /\ called' = None
    BY <1>4 DEF parseIDMMsg
  <2>2. Statics'
    BY <2>1 DEF ParserInv, Statics
  <2>3. heard'.err # {}
    BY <1>2, <1>4 DEF Accepts
  <2>4. Heard'
    BY <1>2, <2>1, <2>3 DEF ParserInv, Heard, Types
  <2> QED
    BY <1>2, <2>2, <2>4 DEF ParserInv
<1> QED
  BY <1>3, <1>4

(* Registering a callback touches nothing of it. *)
LEMMA StepHolds == ParserInv /\ [Next]_vars => ParserInv'
<1> SUFFICES ASSUME ParserInv, [Next]_vars PROVE ParserInv'
  OBVIOUS
<1>1. ASSUME NEW registered \in BOOLEAN, registerAmrMsgCallback(registered)
      PROVE  ParserInv'
  BY <1>1 DEF registerAmrMsgCallback, ParserInv, Statics, Heard, StaticOf
<1>2. CASE UNCHANGED vars
  BY <1>2 DEF vars, ParserInv, Statics, Heard, StaticOf
<1> QED
  BY <1>1, <1>2, ScmStep, ScmPlusStep, IdmStep DEF Next

LEMMA ParserInvariant == Spec => []ParserInv
  BY InitHolds, StepHolds, PTL DEF Spec

(* Every field of the static structs fits its type in amr.h, whatever has    *)
(* been received.                                                            *)
THEOREM ParserTypes == Spec => []TypeOK
<1>1. ParserInv => TypeOK
  <2> SUFFICES ASSUME ParserInv PROVE TypeOK
    OBVIOUS
  <2>1. PICK m \in SUBSET Int : scmMsg = scmOf(m)
    BY DEF ParserInv, Statics
  <2>2. PICK n \in SUBSET Int : scmPlusMsg = scmPlusOf(n)
    BY DEF ParserInv, Statics
  <2>3. PICK p \in SUBSET Int : idmMsg = idmOf(p)
    BY DEF ParserInv, Statics
  <2>4. /\ scmMsg.id \subseteq Low(26) /\ scmMsg.consumption \subseteq Low(24)
        /\ scmMsg.type \subseteq Low(4)
        /\ scmMsg.tamper_phy \subseteq Low(2) /\ scmMsg.tamper_enc \subseteq Low(2)
    BY <2>1, ScmTyped
  <2>5. /\ \A f \in {"frameSync", "tamper", "crc"} : scmPlusMsg[f] \subseteq Low(16)
        /\ \A f \in {"endpointId", "consumption"} : scmPlusMsg[f] \subseteq Low(32)
    BY <2>2, ScmPlusTyped
  <2>6. IF idmMsg.ertType = Bits(\h18)
          THEN idmMsg.data.differentialConsumption \in [Low(27) -> SUBSET Low(14)]
          ELSE idmMsg.data.differentialConsumption \in [Low(47) -> SUBSET Low(9)]
    BY <2>3, IdmTyped
  <2>7. amrMsgCallback \in BOOLEAN
    BY DEF ParserInv
  <2> QED
    BY <2>4, <2>5, <2>6, <2>7 DEF TypeOK
<1> QED
  BY <1>1, ParserInvariant, PTL

(* Of any message that arrives as it was sent, every field that is not left  *)
(* out is handed over as it was sent.                                        *)
THEOREM ParserHandsOver == Spec => []HandsOver
<1>1. ParserInv => HandsOver
  <2> SUFFICES ASSUME ParserInv, heard # None, heard.err = {} PROVE
        /\ called.type = IF heard.registered THEN heard.type ELSE "none"
        /\ called # None => called.msg = StaticOf[heard.type]
        /\ AsSent(heard.type, heard.sent, StaticOf[heard.type])
    BY DEF HandsOver
  <2>1. /\ heard.type \in Types /\ heard.sent \in SUBSET Int
        /\ StaticOf[heard.type] = StructOf(heard.type, heard.sent)
        /\ called = IF heard.registered
                      THEN [type |-> heard.type, msg |-> StaticOf[heard.type]] ELSE None
    BY DEF ParserInv, Heard
  <2>2. AsSent(heard.type, heard.sent, StaticOf[heard.type])
    BY <2>1, StructAsSent
  <2> QED
    BY <2>1, <2>2 DEF None
<1> QED
  BY <1>1, ParserInvariant, PTL

(* extractBits gives the bits it is asked for, of any message at all.        *)
THEOREM ParserExtracts == Spec => []ExtractsBits
<1>1. ParserInv => ExtractsBits
  <2> SUFFICES ASSUME ParserInv, heard # None,
                      NEW offset \in 0..24, NEW len \in 0..40
               PROVE  extractBits(heard.sent, 4, offset, len)
                        = Sent(heard.sent, 32 + offset, len) \cap Low(32)
    BY DEF ExtractsBits
  <2>1. heard.sent \in SUBSET Int
    BY DEF ParserInv, Heard
  <2>2. offset \in Nat /\ len \in Nat /\ 4 \in Nat
    OBVIOUS
  <2>3. extractBits(heard.sent, 4, offset, len)
          = Sent(heard.sent, 8 * 4 + offset, len) \cap 0..31
    BY <2>1, <2>2, Extracts
  <2>4. 8 * 4 + offset = 32 + offset /\ Low(32) = 0..31
    BY DEF Low
  <2> QED
    BY <2>3, <2>4
<1> QED
  BY <1>1, ParserInvariant, PTL

(* One or two wrong bits anywhere among those its checksum covers, and any   *)
(* number of them within sixteen in a row, are detected in every message     *)
(* whatever it says, and whatever came before it stays in its struct.  This  *)
(* rests on facts of the two tables alone.                                   *)
THEOREM ParserDetects ==
  ASSUME TablesDetect PROVE Spec => Detects
<1> USE DEF Types
<1>1. ASSUME NEW type \in Types, Accepts(type, Head(air).sent), Arrives(type),
             Head(air).sent \in SUBSET Int, Head(air).err \in SUBSET Int,
             Detectable(heard'.type, heard'.err)
      PROVE  ~Accepts(type, received)
  <2>1. Detectable(type, Head(air).err)
    BY <1>1 DEF Arrives, Detectable
  <2>2. RemainderOf(type, Head(air).err) # {}
    BY <2>1, DetectableShows
  <2> QED
    BY <1>1, <2>2, Undetected DEF received, TablesDetect
<1>2. ASSUME ParserInv, [Next]_vars, air' # air, Detectable(heard'.type, heard'.err)
      PROVE  called' = None /\ UNCHANGED <<scmMsg, scmPlusMsg, idmMsg>>
  <2>1. parseSCMMsg \/ parseSCMPlusMsg \/ parseIDMMsg
    BY <1>2 DEF Next, vars, registerAmrMsgCallback
  <2>2. ASSUME NEW type \in Types, Arrives(type) PROVE ~Accepts(type, received)
    <3>1. /\ heard'.type = type
          /\ heard'.sent \in SUBSET Int /\ heard'.err \in SUBSET Int
          /\ Accepts(type, heard'.sent)
      BY <1>2, <2>2, Arriving
    <3>2. heard'.sent = Head(air).sent /\ heard'.err = Head(air).err
      BY <2>2 DEF Arrives
    <3> QED
      BY <1>1, <1>2, <2>2, <3>1, <3>2
  <2>3. CASE parseSCMMsg
    <3>1. ~computeBCHCRC(received, 2, 10)
      BY <2>2, <2>3 DEF parseSCMMsg, Accepts
    <3> QED
      BY <2>3, <3>1 DEF parseSCMMsg
  <2>4. CASE parseSCMPlusMsg
    <3>1. ~computeCCITTCRC(received, 2, 14)
      BY <2>2, <2>4 DEF parseSCMPlusMsg, Accepts
    <3> QED
      BY <2>4, <3>1 DEF parseSCMPlusMsg
  <2>5. CASE parseIDMMsg
    <3>1. ~computeCCITTCRC(received, 4, 88)
      BY <2>2, <2>5 DEF parseIDMMsg, Accepts
    <3> QED
      BY <2>5, <3>1 DEF parseIDMMsg
  <2> QED
    BY <2>1, <2>3, <2>4, <2>5
<1>3. ParserInv /\ [Next]_vars =>
        [air' # air /\ Detectable(heard'.type, heard'.err) =>
           called' = None /\ UNCHANGED <<scmMsg, scmPlusMsg, idmMsg>>]_vars
  BY <1>2
<1> QED
  BY <1>3, ParserInvariant, PTL DEF Spec, Detects

=============================================================================
