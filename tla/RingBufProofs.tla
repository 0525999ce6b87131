--------------------------- MODULE RingBufProofs ---------------------------
(***************************************************************************)
(* Proofs about RingBuf for every buffer length, every set of message      *)
(* sizes and every bound.                                                  *)
(***************************************************************************)
EXTENDS RingBuf, TLAPS

-----------------------------------------------------------------------------
(* The ranges of RingMem, in the form the steps below use.                 *)

(* Membership of an interval that starts at 0.                             *)
LEMMA RangeMembers == \A k \in Nat : \A x : x \in 0..(k - 1) <=> x \in Nat /\ x < k
  OBVIOUS

(* The values of a uint8_t.                                                *)
LEMMA ByteMembers == \A x : x \in Byte <=> x \in Nat /\ x < 256
<1>1. ByteRange \in Nat
  BY DEF ByteRange
<1>2. \A x : x \in Byte <=> x \in Nat /\ x < ByteRange
  BY <1>1, RangeMembers DEF Byte
<1> QED
  BY <1>2 DEF ByteRange

(* The values of a RingPos_t.                                              *)
LEMMA PosMembers == \A x : x \in Pos <=> x \in Nat /\ x < 65536
<1>1. PosRange \in Nat
  BY DEF PosRange
<1>2. \A x : x \in Pos <=> x \in Nat /\ x < PosRange
  BY <1>1, RangeMembers DEF Pos
<1> QED
  BY <1>2 DEF PosRange

(* The length of the buffer is a number: the fact most steps need.         *)
LEMMA SizeNat == Size \in Nat
  BY SizeAssumption

(* What ringInit accepts as the length of the buffer.                      *)
LEMMA SizeFacts == Size \in Nat /\ 2 < Size /\ Size < 65536
  BY SizeAssumption DEF PosRange, SizeofPos

(* The indices into the buffer.                                            *)
LEMMA AddrMembers ==
  /\ Size \in Nat /\ 2 < Size /\ Size < 65536
  /\ \A x : x \in Addr <=> x \in Nat /\ x < Size
  BY SizeFacts DEF Addr

(* The sizes of the messages pushed.                                       *)
LEMMA SizeMembers == \A s \in Sizes : s \in Pos /\ s \in Nat /\ s > 0 /\ s < 65536
  BY SizesAssumption, PosMembers

(* A number and the two bytes it is stored as.                             *)
LEMMA TwoBytes ==
  ASSUME NEW n \in Nat, n < 65536
  PROVE  /\ n = (n % 256) + 256 * (n \div 256)
         /\ n % 256 \in Byte /\ n \div 256 \in Byte
         /\ n < 256 => n % 256 = n
<1>1. /\ n = (n % 256) + 256 * (n \div 256)
      /\ n % 256 \in Nat /\ n % 256 < 256 /\ (n < 256 => n % 256 = n)
      /\ n \div 256 \in Nat /\ n \div 256 < 256
  OBVIOUS
<1> QED
  BY <1>1, ByteMembers

-----------------------------------------------------------------------------
(* Facts about the memory operators of RingMem.                            *)

(* Writing an element inside the buffer stores its size and its payload    *)
(* and leaves every other byte alone (the two memcpy calls of ringPush).   *)
LEMMA PutElementBytes ==
  ASSUME NEW mem \in [Addr -> Byte], NEW p \in Nat, NEW n \in Nat, n > 0,
         NEW t \in Byte, p + 2 + n <= Size,
         NEW new, new = PutElement(mem, p, n, t)
  PROVE  /\ new \in [Addr -> Byte]
         /\ new[p] = n % ByteRange /\ new[p + 1] = n \div ByteRange
         /\ \A a \in Addr : p + 2 <= a /\ a < p + 2 + n => new[a] = t
         /\ \A a \in Addr : a < p \/ a >= p + 2 + n => new[a] = mem[a]
<1> DEFINE sized == PutSize(mem, p, n)
<1>1. Size \in Nat /\ p \in Addr /\ p + 1 \in Addr /\ p # p + 1 /\ n < 65536
  BY AddrMembers
<1>2. n % ByteRange \in Byte /\ n \div ByteRange \in Byte
  BY <1>1, TwoBytes DEF ByteRange
<1>3. /\ sized \in [Addr -> Byte]
      /\ sized[p] = n % ByteRange /\ sized[p + 1] = n \div ByteRange
      /\ \A a \in Addr : a # p /\ a # p + 1 => sized[a] = mem[a]
  BY <1>1, <1>2 DEF PutSize
<1>4. new = [a \in Addr |-> IF a \in (p + 2)..(p + 2 + n - 1)
                              THEN t ELSE sized[a]]
  BY DEF PutElement, SizeofPos
<1> HIDE DEF sized
<1>5. \A a \in Addr : new[a] = IF a \in (p + 2)..(p + 2 + n - 1)
                                 THEN t ELSE sized[a]
  BY <1>4
<1>6. new \in [Addr -> Byte]
  BY <1>3, <1>4
<1> QED
  BY <1>1, <1>3, <1>5, <1>6, AddrMembers

(* Writing a wrap marker zeroes a size field, if one fits, and nothing     *)
(* else (the memset of ringPush).                                          *)
LEMMA PutMarkerBytes ==
  ASSUME NEW mem \in [Addr -> Byte], NEW p \in Addr,
         NEW new, new = PutMarker(mem, p)
  PROVE  /\ new \in [Addr -> Byte]
         /\ p + 1 \in Addr => new[p] = 0 /\ new[p + 1] = 0
         /\ \A a \in Addr : a < p \/ a > p + 1 => new[a] = mem[a]
<1>1. p \in Nat /\ p # p + 1 /\ (p + 1 \in Addr <=> p + 2 <= Size)
  BY AddrMembers
<1>2. 0 % ByteRange = 0 /\ 0 \div ByteRange = 0 /\ 0 \in Byte
  BY ByteMembers DEF ByteRange
<1>3. new = IF p + 2 <= Size THEN [mem EXCEPT ![p] = 0, ![p + 1] = 0] ELSE mem
  BY <1>2 DEF PutMarker, PutSize, SizeofPos
<1> QED
  BY <1>1, <1>2, <1>3, AddrMembers

(* A load of a size field inside the buffer returns the number stored.     *)
LEMMA SizeRead ==
  ASSUME NEW mem \in [Addr -> Byte], NEW p \in Nat, p + 1 \in Addr,
         NEW n \in Nat, n < 65536,
         mem[p] = n % ByteRange, mem[p + 1] = n \div ByteRange
  PROVE  n \in SizesAt(mem, p) /\ \A x \in SizesAt(mem, p) : x = n
<1>1. p \in Addr
  BY AddrMembers
<1>2. BytesAt(mem, p) = {n % 256} /\ BytesAt(mem, p + 1) = {n \div 256}
  BY <1>1 DEF BytesAt, ByteRange
<1>3. n = (n % 256) + 256 * (n \div 256)
  BY TwoBytes
<1>4. \A x : x \in SizesAt(mem, p) <=>
        \E lo \in BytesAt(mem, p), hi \in BytesAt(mem, p + 1) : x = lo + 256 * hi
  BY DEF SizesAt, ByteRange
<1>5. n \in SizesAt(mem, p)
  <2>1. n % 256 \in BytesAt(mem, p) /\ n \div 256 \in BytesAt(mem, p + 1)
    BY <1>2
  <2> QED
    BY <2>1, <1>3, <1>4
<1>6. ASSUME NEW x \in SizesAt(mem, p) PROVE x = n
  <2>1. PICK lo \in BytesAt(mem, p), hi \in BytesAt(mem, p + 1) : x = lo + 256 * hi
    BY <1>4
  <2>2. lo = n % 256 /\ hi = n \div 256
    BY <1>2
  <2> QED
    BY <2>1, <2>2, <1>3
<1> QED
  BY <1>5, <1>6

(* Whatever the memory holds, a load of a size field returns a RingPos_t.  *)
LEMMA SizesAtType ==
  ASSUME NEW mem \in [Addr -> Byte], NEW p \in Nat
  PROVE  SizesAt(mem, p) \subseteq Pos
<1>1. BytesAt(mem, p) \subseteq Byte /\ BytesAt(mem, p + 1) \subseteq Byte
  BY DEF BytesAt
<1>2. \A lo, hi \in Byte : lo + 256 * hi \in Nat /\ lo + 256 * hi < 65536
  BY ByteMembers
<1> QED
  BY <1>1, <1>2, PosMembers DEF SizesAt, ByteRange

-----------------------------------------------------------------------------
(* The inductive invariant.                                                *)

IInv == TypeOK /\ LayoutInv /\ CallInv /\ ViewStable /\ ReportsAreReal

(* The numbers in a typed state, in the form the arithmetic needs.         *)
LEMMA FrameFacts ==
  ASSUME TypeOK
  PROVE  /\ head \in Nat /\ head < Size /\ tail \in Nat /\ tail < Size
         /\ Len(queue) \in Nat
         /\ queue = <<>> <=> Len(queue) = 0
         /\ \A i \in 1..Len(queue) :
              /\ queue[i] \in Frame
              /\ queue[i].at \in Nat /\ queue[i].at < Size
              /\ queue[i].size \in Nat /\ queue[i].size > 0 /\ queue[i].size < 65536
              /\ queue[i].tag \in Byte
              /\ End(queue[i]) = queue[i].at + 2 + queue[i].size
<1>1. head \in Nat /\ head < Size /\ tail \in Nat /\ tail < Size
  BY AddrMembers DEF TypeOK
<1>2. Len(queue) \in Nat /\ (queue = <<>> <=> Len(queue) = 0)
      /\ \A i \in 1..Len(queue) : queue[i] \in Frame
  BY DEF TypeOK
<1>3. \A f \in Frame : /\ f.at \in Nat /\ f.at < Size
                       /\ f.size \in Nat /\ f.size > 0 /\ f.size < 65536
                       /\ f.tag \in Byte
                       /\ End(f) = f.at + 2 + f.size
  BY AddrMembers, SizeMembers, TagsAssumption DEF Frame, End, SizeofPos
<1> QED
  BY <1>1, <1>2, <1>3

(* Unrolling keeps addresses numbers.                                      *)
LEMMA UnrolledNat == \A t, a \in Nat : Unrolled(t, a) \in Nat
  BY SizeNat DEF Unrolled

(* A frame before the tail is one that wrapped: the head is behind the     *)
(* tail and the frame behind the head.                                     *)
LEMMA FramePlace ==
  ASSUME TypeOK, LayoutInv, NEW i \in 1..Len(queue)
  PROVE  /\ queue[i].at >= tail => head < tail \/ End(queue[i]) <= head
         /\ queue[i].at < tail => head < tail /\ End(queue[i]) <= head
<1> DEFINE a == queue[i].at
           n == queue[i].size
<1>1. a \in Nat
  BY FrameFacts
<1>2. n \in Nat
  BY FrameFacts
<1>3. End(queue[i]) = a + 2 + n
  BY FrameFacts
<1>4. Unrolled(tail, a) + 2 + n <= Unrolled(tail, head)
  BY DEF LayoutInv, FramesOrdered, SizeofPos
<1>5. a < Size /\ head \in Nat /\ head < Size /\ tail \in Nat /\ tail < Size
  BY FrameFacts
<1> HIDE DEF a, n
<1>6. /\ a >= tail => head < tail \/ a + 2 + n <= head
      /\ a < tail => head < tail /\ a + 2 + n <= head
  BY <1>1, <1>2, <1>4, <1>5, SizeNat DEF Unrolled
<1> QED
  BY <1>3, <1>6 DEF a

(* When the oldest frame is not at the tail, the tail holds a wrap marker  *)
(* and every frame is at the front.                                        *)
LEMMA TailAtMarker ==
  ASSUME TypeOK, LayoutInv, queue # <<>>, queue[1].at # tail
  PROVE  /\ queue[1].at = 0 /\ Marker(data, tail) /\ queue[1].size < ByteRange
         /\ 0 < tail /\ head < tail
         /\ \A j \in 1..Len(queue) : queue[j].at < tail /\ End(queue[j]) <= head
<1>1. 1 \in 1..Len(queue)
  BY FrameFacts
<1>2. queue[1].at = 0 /\ Marker(data, tail) /\ queue[1].size < ByteRange
  BY DEF LayoutInv, FramesLinked, FoundFrom
<1>3. 0 < tail /\ head < tail /\ Unrolled(tail, queue[1].at) = Size
  BY <1>1, <1>2, FramePlace, FrameFacts, SizeNat, SizeFacts DEF Unrolled
<1>4. ASSUME NEW j \in 1..Len(queue) PROVE queue[j].at < tail
  <2>1. j # 1 => Unrolled(tail, queue[1].at) + 2 + queue[1].size <= Unrolled(tail, queue[j].at)
    BY <1>1, FrameFacts DEF LayoutInv, FramesOrdered, SizeofPos
  <2> QED
    BY <1>1, <1>2, <1>3, <2>1, FrameFacts, SizeNat, SizeFacts DEF Unrolled
<1> QED
  BY <1>2, <1>3, <1>4, FramePlace

(* A frame followed by one at the front is between tail and the end of the *)
(* buffer.                                                                 *)
LEMMA BeforeWrap ==
  ASSUME TypeOK, LayoutInv, NEW i \in 1..(Len(queue) - 1), queue[i + 1].at = 0
  PROVE  0 < tail /\ head < tail /\ tail <= queue[i].at
<1> DEFINE a == queue[i].at
           n == queue[i].size
<1>1. i \in 1..Len(queue) /\ i + 1 \in 1..Len(queue) /\ i < i + 1
  BY FrameFacts
<1>2. a \in Nat
  BY <1>1, FrameFacts
<1>3. n \in Nat
  BY <1>1, FrameFacts
<1>4. a < Size /\ tail \in Nat /\ tail < Size /\ n > 0
  BY <1>1, FrameFacts
<1>5. Unrolled(tail, a) + 2 + n <= Unrolled(tail, 0)
  BY <1>1 DEF LayoutInv, FramesOrdered, SizeofPos
<1>6. 0 < tail => head < tail
  BY <1>1, FramePlace
<1> HIDE DEF a, n
<1>7. 0 < tail /\ tail <= a
  BY <1>2, <1>3, <1>4, <1>5, SizeNat DEF Unrolled
<1> QED
  BY <1>6, <1>7 DEF a

-----------------------------------------------------------------------------
(* What a push has to establish.                                           *)

(* What appending does to a sequence, element by element.                  *)
LEMMA AppendFacts ==
  ASSUME NEW S, NEW q \in Seq(S), NEW e \in S, NEW r, r = Append(q, e)
  PROVE  /\ r \in Seq(S)
         /\ Len(r) = Len(q) + 1
         /\ r # <<>>
         /\ \A i \in 1..Len(q) : r[i] = q[i]
         /\ r[Len(q) + 1] = e
         /\ q # <<>> => r[1] = q[1] /\ Tail(r) = Append(Tail(q), e)
  OBVIOUS

(* What a push has to show of the frame it writes, be it behind the head    *)
(* or at the front, for the inductive invariant to hold afterwards.         *)
LEMMA AcceptFrame ==
  ASSUME IInv, NEW f \in Frame,
         queue' = Append(queue, f),
         data' \in [Addr -> Byte], head' \in Addr, head' # Size - 1,
         UNCHANGED <<tail, overflow, pc, size, want, bytes, cnt, view, out, unreported>>,
         \A i \in 1..Len(queue) : Stored(data', queue[i]),
         Stored(data', f), End(f) = head', head' < Size,
         queue = <<>> => FoundFrom(data', tail, f),
         queue # <<>> => FoundFrom(data', tail, queue[1]),
         queue # <<>> => FoundFrom(data', End(queue[Len(queue)]), f),
         \A i \in 1..(Len(queue) - 1) :
           FoundFrom(data', End(queue[i]), queue[i + 1]),
         \A i, j \in 1..Len(queue) : i < j =>
           Unrolled(tail, queue[i].at) + 2 + queue[i].size
             <= Unrolled(tail, queue[j].at),
         \A i \in 1..Len(queue) :
           Unrolled(tail, queue[i].at) + 2 + queue[i].size <= Unrolled(tail, f.at),
         Unrolled(tail, f.at) + 2 + f.size <= Unrolled(tail, head'),
         Unrolled(tail, head) <= Unrolled(tail, head')
  PROVE  IInv'
<1> DEFINE n == Len(queue)
<1>0. TypeOK /\ LayoutInv /\ CallInv /\ ViewStable /\ ReportsAreReal
  BY DEF IInv
<1>1. n \in Nat
  BY <1>0 DEF TypeOK
<1>2. /\ queue' \in Seq(Frame) /\ Len(queue') = n + 1 /\ queue' # <<>>
      /\ \A i \in 1..n : queue'[i] = queue[i]
      /\ queue'[n + 1] = f
  BY <1>0, AppendFacts DEF TypeOK
<1>3. queue = <<>> <=> n = 0
  BY <1>0, FrameFacts
<1> HIDE DEF n
<1>4. TypeOK'
  BY <1>0, <1>2 DEF TypeOK
<1>5. FramesStored'
  <2>1. ASSUME NEW i \in 1..(n + 1)
        PROVE  Stored(data', queue'[i]) /\ End(queue'[i]) < Size
    <3>1. CASE i = n + 1
      BY <3>1, <1>2
    <3>2. CASE i # n + 1
      <4>1. i \in 1..n
        BY <3>2, <1>1
      <4> QED
        BY <4>1, <1>0, <1>2 DEF n, LayoutInv, FramesStored
    <3> QED
      BY <3>1, <3>2
  <2> QED
    BY <2>1, <1>2 DEF FramesStored
<1>6. FramesLinked'
  <2>1. FoundFrom(data', tail', queue'[1])
    <3>1. CASE n = 0
      BY <3>1, <1>2, <1>3
    <3>2. CASE n # 0
      <4>1. 1 \in 1..n
        BY <3>2, <1>1
      <4> QED
        BY <4>1, <3>2, <1>2, <1>3
    <3> QED
      BY <3>1, <3>2
  <2>2. ASSUME NEW i \in 1..n
        PROVE  FoundFrom(data', End(queue'[i]), queue'[i + 1])
    <3>1. CASE i = n
      BY <3>1, <1>1, <1>2, <1>3 DEF n
    <3>2. CASE i # n
      <4>1. i \in 1..(n - 1) /\ i + 1 \in 1..n
        BY <3>2, <1>1
      <4> QED
        BY <4>1, <1>2 DEF n
    <3> QED
      BY <3>1, <3>2
  <2>3. End(queue'[Len(queue')]) = head'
    BY <1>2
  <2> QED
    BY <2>1, <2>2, <2>3, <1>1, <1>2 DEF FramesLinked
<1>7. FramesOrdered'
  <2> DEFINE F(q, i) == Unrolled(tail, q[i].at)
             N(q, i) == F(q, i) + 2 + q[i].size
  <2>1. ASSUME NEW i \in 1..(n + 1), NEW j \in 1..(n + 1), i < j
        PROVE  N(queue', i) <= F(queue', j)
    <3>1. i \in 1..n
      BY <2>1, <1>1
    <3>2. CASE j = n + 1
      BY <3>1, <3>2, <1>2 DEF n
    <3>3. CASE j # n + 1
      <4>1. j \in 1..n
        BY <3>3, <1>1
      <4> QED
        BY <2>1, <3>1, <4>1, <1>2 DEF n
    <3> QED
      BY <3>2, <3>3
  <2>2. ASSUME NEW i \in 1..(n + 1)
        PROVE  N(queue', i) <= Unrolled(tail, head')
    <3>1. CASE i = n + 1
      BY <3>1, <1>2
    <3>2. CASE i # n + 1
      <4>1. i \in 1..n
        BY <3>2, <1>1
      <4> DEFINE u == N(queue, i)
                 v == Unrolled(tail, head)
                 w == Unrolled(tail, head')
      <4>2. u <= v
        BY <4>1, <1>0 DEF n, LayoutInv, FramesOrdered, SizeofPos
      <4>3. v <= w
        OBVIOUS
      <4>4. u \in Nat
        <5>1. queue[i].at \in Nat /\ queue[i].size \in Nat /\ tail \in Nat
          BY <4>1, <1>0, FrameFacts DEF n
        <5>2. Unrolled(tail, queue[i].at) \in Nat
          BY <5>1, UnrolledNat
        <5> QED
          BY <5>1, <5>2
      <4>5. v \in Nat /\ w \in Nat
        <5>1. tail \in Nat /\ head \in Nat /\ head' \in Nat
          BY <1>0, FrameFacts, AddrMembers
        <5> QED
          BY <5>1, UnrolledNat
      <4>6. N(queue', i) = u
        BY <4>1, <1>2
      <4> HIDE DEF u, v, w
      <4>7. u <= w
        BY <4>2, <4>3, <4>4, <4>5
      <4> QED
        BY <4>6, <4>7 DEF w
    <3> QED
      BY <3>1, <3>2
  <2> QED
    BY <2>1, <2>2, <1>2 DEF FramesOrdered, SizeofPos
<1>8. n > 0 => queue'[1] = queue[1]
  BY <1>1, <1>2
<1>9. CallInv'
  BY <1>0, <1>1, <1>2, <1>3, <1>8 DEF CallInv, copySize
<1>10. ViewStable'
  <2>1. view.size > 0 => n > 0 /\ 1 \in 1..n
    BY <1>0, <1>1, <1>3 DEF ViewStable
  <2> QED
    BY <2>1, <1>0, <1>2, <1>8 DEF ViewStable, n
<1>11. ReportsAreReal'
  BY <1>0 DEF ReportsAreReal
<1> QED
  BY <1>4, <1>5, <1>6, <1>7, <1>9, <1>10, <1>11 DEF IInv, LayoutInv

-----------------------------------------------------------------------------
(* What ringFree promises, outside the cases Clear excludes.               *)

(* Behind a wrapped head there is room up to the tail, with a byte to      *)
(* spare.                                                                  *)
LEMMA RoomInGap ==
  ASSUME NEW h \in Nat, NEW t \in Nat, NEW s \in Nat, s > 0,
         h < t, t < Size, t # h + 2, s <= ringFree(h, t)
  PROVE  h + 2 + s < t
<1>1. t < 65536
  BY SizeNat, SizeFacts
<1>2. t >= h + 2 => (t - h - 3) \in Nat /\ (t - h - 3) < 65536
  BY <1>1
<1>3. t >= h + 2 => (t - h - 3) % 65536 = t - h - 3
  BY <1>2
<1>4. ringFree(h, t) = IF t >= h + 2 THEN (t - h - 3) % 65536 ELSE 0
  <2>1. ~ (h >= t) /\ t - h - 2 - 1 = t - h - 3
    OBVIOUS
  <2> QED
    BY <2>1 DEF ringFree, FreeBack, FreeFront, FreeGap, SizeofPos, PosRange
<1> QED
  BY <1>3, <1>4

(* When an element does not fit behind the head, it fits in front of the   *)
(* tail, with a byte to spare.                                             *)
LEMMA RoomInFront ==
  ASSUME NEW h \in Nat, NEW t \in Nat, NEW s \in Nat, s > 0,
         t <= h, h < Size, s <= ringFree(h, t), h + 2 + s >= Size,
         h + 2 + s = Size => s + 3 <= t
  PROVE  s + 3 <= t
<1> DEFINE avail == IF t = 0 THEN Size - 1 ELSE Size
           back  == IF h + 2 <= avail THEN avail - 2 - h ELSE 0
           front == IF t >= 3 THEN t - 3 ELSE 0
<1>1. ringFree(h, t) = IF back >= front THEN back ELSE front
  <2>1. (t >= 2 + 1 <=> t >= 3) /\ t - 2 - 1 = t - 3
    OBVIOUS
  <2> QED
    BY <2>1 DEF ringFree, FreeBack, FreeFront, FreeGap, Larger, SizeofPos
<1> QED
  BY <1>1, SizeNat

-----------------------------------------------------------------------------
(* The two ways a push is accepted.                                        *)

(* Bytes nobody wrote keep a stored frame and a marker.                    *)
LEMMA StoredKept ==
  ASSUME NEW mem, NEW new, NEW f \in Frame, End(f) < Size, Stored(mem, f),
         \A a \in Addr : f.at <= a /\ a < End(f) => new[a] = mem[a]
  PROVE  Stored(new, f)
<1>1. f.at \in Nat /\ f.size \in Nat /\ f.size > 0
      /\ End(f) = f.at + 2 + f.size
  BY AddrMembers, SizeMembers DEF Frame, End, SizeofPos
<1>2. f.at \in Addr /\ f.at + 1 \in Addr /\ f.at + 1 < End(f)
  BY <1>1, AddrMembers
<1>3. new[f.at] = mem[f.at] /\ new[f.at + 1] = mem[f.at + 1]
  BY <1>1, <1>2
<1>4. \A a \in Addr : f.at + 2 <= a => f.at <= a
  BY <1>1, AddrMembers
<1> QED
  BY <1>3, <1>4 DEF Stored, SizeofPos

(* A message accepted behind the head keeps the inductive invariant.       *)
LEMMA PushBackInv ==
  ASSUME IInv, NEW s \in Sizes, NEW t \in Tags, Clear(s), PushBack(s, t)
  PROVE  IInv'
<1> DEFINE f == [at |-> head, size |-> s, tag |-> t]
<1>0. TypeOK /\ LayoutInv /\ CallInv /\ ViewStable /\ ReportsAreReal
  BY DEF IInv
<1>1. head \in Nat
  BY <1>0, FrameFacts
<1>2. tail \in Nat
  BY <1>0, FrameFacts
<1>3. s \in Nat
  BY SizeMembers
<1>4. head < Size /\ tail < Size /\ s > 0 /\ t \in Byte
  BY <1>0, FrameFacts, SizeMembers, TagsAssumption
<1>5. head' = head + 2 + s /\ head + 2 + s < Size /\ head + 2 + s # Size - 1
  <2>1. head + 2 + s < 65536 /\ head + 2 + s # Size - 1
    BY DEF Clear, SizeofPos, PosRange
  <2>2. newHead(s) = head + 2 + s
    BY <2>1, <1>1, <1>3 DEF newHead, SizeofPos, PosRange
  <2> QED
    BY <2>1, <2>2 DEF PushBack
<1>6. head < tail => head + 2 + s < tail
  <2>1. s <= ringFree(head, tail) /\ tail # head + 2
    BY DEF PushBack, Clear, SizeofPos
  <2> QED
    BY <2>1, <1>1, <1>2, <1>3, <1>4, RoomInGap
<1>7. f \in Frame /\ End(f) = head + 2 + s
  BY <1>1, <1>4, AddrMembers DEF Frame, End, SizeofPos
<1>8. /\ data' \in [Addr -> Byte]
      /\ data'[head] = s % ByteRange /\ data'[head + 1] = s \div ByteRange
      /\ \A a \in Addr : head + 2 <= a /\ a < head + 2 + s => data'[a] = t
      /\ \A a \in Addr : a < head \/ a >= head + 2 + s => data'[a] = data[a]
  <2>1. data' = PutElement(data, head, s, t) /\ data \in [Addr -> Byte]
        /\ head + 2 + s <= Size
    BY <1>0, <1>1, <1>3, <1>5, SizeNat DEF PushBack, TypeOK
  <2> QED
    BY <2>1, <1>1, <1>3, <1>4, PutElementBytes
<1>9. Stored(data', f)
  BY <1>7, <1>8 DEF Stored, SizeofPos
<1>10. \A i \in 1..Len(queue) : Stored(data', queue[i])
  <2> SUFFICES ASSUME NEW i \in 1..Len(queue) PROVE Stored(data', queue[i])
    OBVIOUS
  <2> DEFINE a == queue[i].at
             e == End(queue[i])
  <2>1. a \in Nat
    BY <1>0, FrameFacts
  <2>2. e \in Nat
    BY <1>0, FrameFacts
  <2>3. e <= head \/ head + 2 + s <= a
    <3>1. (a >= tail => head < tail \/ e <= head) /\ (a < tail => e <= head)
      BY <1>0, FramePlace
    <3> HIDE DEF a, e
    <3> QED
      BY <3>1, <2>1, <2>2, <1>1, <1>2, <1>3, <1>6
  <2>4. Stored(data, queue[i]) /\ e < Size /\ queue[i] \in Frame
    BY <1>0, FrameFacts DEF LayoutInv, FramesStored
  <2>5. \A b \in Addr : a <= b /\ b < e => data'[b] = data[b]
    <3> HIDE DEF a, e
    <3> QED
      BY <2>1, <2>2, <2>3, <1>1, <1>3, <1>8, AddrMembers
  <2> QED
    BY <2>4, <2>5, StoredKept
<1>11. \A p \in Nat : p >= tail /\ head < tail /\ Marker(data, p) => Marker(data', p)
  <2> SUFFICES ASSUME NEW p \in Nat, p >= tail, head < tail, Marker(data, p)
               PROVE  Marker(data', p)
    OBVIOUS
  <2>1. p + 1 \in Addr /\ p \in Addr
    BY AddrMembers DEF Marker
  <2>2. p >= head + 2 + s /\ p + 1 >= head + 2 + s
    BY <1>1, <1>2, <1>3, <1>6
  <2> QED
    BY <2>1, <2>2, <1>8 DEF Marker
<1>12. queue = <<>> => FoundFrom(data', tail, f)
  BY <1>0 DEF LayoutInv, FramesLinked, FoundFrom
<1>13. queue # <<>> => FoundFrom(data', tail, queue[1])
  <2>1. CASE queue # <<>> /\ queue[1].at # tail
    BY <2>1, <1>0, <1>2, <1>11, TailAtMarker DEF FoundFrom
  <2> QED
    BY <2>1 DEF FoundFrom
<1>14. queue # <<>> => FoundFrom(data', End(queue[Len(queue)]), f)
  BY <1>0 DEF LayoutInv, FramesLinked, FoundFrom
<1>15. \A i \in 1..(Len(queue) - 1) :
         FoundFrom(data', End(queue[i]), queue[i + 1])
  <2> SUFFICES ASSUME NEW i \in 1..(Len(queue) - 1)
               PROVE  FoundFrom(data', End(queue[i]), queue[i + 1])
    OBVIOUS
  <2>1. FoundFrom(data, End(queue[i]), queue[i + 1])
    BY <1>0 DEF LayoutInv, FramesLinked
  <2>2. CASE queue[i + 1].at = 0
    <3>1. head < tail /\ tail <= queue[i].at
      BY <2>2, <1>0, BeforeWrap
    <3>2. End(queue[i]) \in Nat /\ queue[i].at \in Nat /\ queue[i].at <= End(queue[i])
      <4>1. i \in 1..Len(queue)
        BY <1>0, FrameFacts
      <4> QED
        BY <4>1, <1>0, FrameFacts
    <3>3. End(queue[i]) >= tail
      BY <3>1, <3>2, <1>2
    <3> QED
      BY <3>1, <3>2, <3>3, <2>1, <1>11 DEF FoundFrom
  <2> QED
    BY <2>1, <2>2 DEF FoundFrom
<1>16. \A i, j \in 1..Len(queue) : i < j =>
         Unrolled(tail, queue[i].at) + 2 + queue[i].size <= Unrolled(tail, queue[j].at)
  BY <1>0 DEF LayoutInv, FramesOrdered, SizeofPos
<1>17. \A i \in 1..Len(queue) :
         Unrolled(tail, queue[i].at) + 2 + queue[i].size <= Unrolled(tail, f.at)
  BY <1>0 DEF LayoutInv, FramesOrdered, SizeofPos
<1>18. /\ Unrolled(tail, f.at) + 2 + f.size <= Unrolled(tail, head')
       /\ Unrolled(tail, head) <= Unrolled(tail, head')
  <2>1. /\ Unrolled(tail, head) + 2 + s <= Unrolled(tail, head + 2 + s)
        /\ Unrolled(tail, head) <= Unrolled(tail, head + 2 + s)
    BY <1>1, <1>2, <1>3, <1>6, SizeNat DEF Unrolled
  <2> QED
    BY <2>1, <1>5
<1>19. head' \in Addr /\ head' < Size /\ head' # Size - 1 /\ End(f) = head'
  BY <1>1, <1>3, <1>5, <1>7, AddrMembers
<1>20. /\ queue' = Append(queue, f)
       /\ UNCHANGED <<tail, overflow, pc, size, want, bytes, cnt, view, out, unreported>>
  BY DEF PushBack, locals
<1> HIDE DEF f
<1> QED
  BY <1>7, <1>8, <1>9, <1>10, <1>12, <1>13, <1>14, <1>15, <1>16, <1>17, <1>18,
     <1>19, <1>20, AcceptFrame

(* A message accepted at the front keeps the inductive invariant.          *)
LEMMA PushWrapInv ==
  ASSUME IInv, NEW s \in Sizes, NEW t \in Tags, Clear(s), PushWrap(s, t)
  PROVE  IInv'
<1> DEFINE f == [at |-> 0, size |-> s, tag |-> t]
           marked == PutMarker(data, head)
<1>0. TypeOK /\ LayoutInv /\ CallInv /\ ViewStable /\ ReportsAreReal
  BY DEF IInv
<1>1. head \in Nat
  BY <1>0, FrameFacts
<1>2. tail \in Nat
  BY <1>0, FrameFacts
<1>3. s \in Nat
  BY SizeMembers
<1>4. head < Size /\ tail < Size /\ s > 0 /\ t \in Byte
  BY <1>0, FrameFacts, SizeMembers, TagsAssumption
<1>5. /\ head + 2 + s >= Size /\ s < ByteRange /\ head' = 2 + s
      /\ s <= ringFree(head, tail) /\ tail # head + 2
      /\ head + 2 + s = Size => s + 3 <= tail
  <2>1. head + 2 + s < 65536
    BY DEF Clear, SizeofPos, PosRange
  <2>2. newHead(s) = head + 2 + s
    BY <2>1, <1>1, <1>3 DEF newHead, SizeofPos, PosRange
  <2> QED
    BY <2>2, <1>1, <1>2, <1>3 DEF PushWrap, Clear, SizeofPos
<1>6. tail <= head
  <2>1. CASE head < tail
    <3>1. head + 2 + s < tail
      BY <2>1, <1>1, <1>2, <1>3, <1>4, <1>5, RoomInGap
    <3> QED
      BY <3>1, <1>1, <1>2, <1>3, <1>4, <1>5, SizeNat
  <2> QED
    BY <2>1, <1>1, <1>2
<1>7. s + 3 <= tail
  BY <1>1, <1>2, <1>3, <1>4, <1>5, <1>6, RoomInFront
<1>8. f \in Frame /\ End(f) = 2 + s
  BY <1>1, <1>3, <1>4, AddrMembers DEF Frame, End, SizeofPos
<1>9. /\ marked \in [Addr -> Byte]
      /\ head + 1 \in Addr /\ marked[head] = 0 /\ marked[head + 1] = 0
      /\ \A a \in Addr : a < head => marked[a] = data[a]
  <2>1. head # Size - 1 /\ data \in [Addr -> Byte]
    BY <1>0 DEF LayoutInv, TypeOK
  <2>2. head \in Addr /\ head + 1 \in Addr
    BY <2>1, <1>1, <1>4, SizeNat, AddrMembers
  <2>3. \A a \in Addr : a < head => a < head \/ a > head + 1
    OBVIOUS
  <2> QED
    BY <2>1, <2>2, <2>3, PutMarkerBytes
<1>10. /\ data' \in [Addr -> Byte]
       /\ data'[0] = s % ByteRange /\ data'[0 + 1] = s \div ByteRange
       /\ \A a \in Addr : 0 + 2 <= a /\ a < 0 + 2 + s => data'[a] = t
       /\ \A a \in Addr : a < 0 \/ a >= 0 + 2 + s => data'[a] = marked[a]
  <2>1. data' = PutElement(marked, 0, s, t) /\ 0 + 2 + s <= Size
    BY <1>1, <1>2, <1>3, <1>4, <1>7, SizeNat DEF PushWrap
  <2> HIDE DEF marked
  <2> QED
    BY <2>1, <1>3, <1>4, <1>9, PutElementBytes
<1> HIDE DEF marked
<1>11. Stored(data', f)
  <2>1. /\ data'[0] = s % ByteRange /\ data'[0 + 1] = s \div ByteRange
        /\ \A a \in Addr : 0 + 2 <= a /\ a < End(f) => data'[a] = t
    BY <1>8, <1>10
  <2> QED
    BY <2>1 DEF Stored, SizeofPos
<1>12. /\ \A a \in Addr : tail <= a /\ a < head => data'[a] = data[a]
       /\ head + 1 \in Addr /\ data'[head] = 0 /\ data'[head + 1] = 0
  <2>1. \A a \in Addr : a >= tail => data'[a] = marked[a]
    BY <1>2, <1>3, <1>7, <1>10, AddrMembers
  <2>2. head \in Addr /\ head + 1 >= tail
    BY <1>1, <1>2, <1>4, <1>6, AddrMembers
  <2> QED
    BY <2>1, <2>2, <1>6, <1>9
<1>13. \A i \in 1..Len(queue) : tail <= queue[i].at /\ End(queue[i]) <= head
  <2> SUFFICES ASSUME NEW i \in 1..Len(queue)
               PROVE  tail <= queue[i].at /\ End(queue[i]) <= head
    OBVIOUS
  <2> DEFINE a == queue[i].at
             e == End(queue[i])
  <2>1. a \in Nat
    BY <1>0, FrameFacts
  <2>2. (a >= tail => head < tail \/ e <= head) /\ (a < tail => head < tail)
    BY <1>0, FramePlace
  <2> HIDE DEF a, e
  <2>3. tail <= a /\ e <= head
    BY <2>1, <2>2, <1>1, <1>2, <1>6
  <2> QED
    BY <2>3 DEF a, e
<1>14. \A i \in 1..Len(queue) : Stored(data', queue[i])
  <2> SUFFICES ASSUME NEW i \in 1..Len(queue) PROVE Stored(data', queue[i])
    OBVIOUS
  <2> DEFINE a == queue[i].at
             e == End(queue[i])
  <2>1. a \in Nat
    BY <1>0, FrameFacts
  <2>2. e \in Nat
    BY <1>0, FrameFacts
  <2>3. tail <= a /\ e <= head
    BY <1>13
  <2>4. Stored(data, queue[i]) /\ e < Size /\ queue[i] \in Frame
    BY <1>0, FrameFacts DEF LayoutInv, FramesStored
  <2>5. \A b \in Addr : a <= b /\ b < e => data'[b] = data[b]
    <3> HIDE DEF a, e
    <3> QED
      BY <2>1, <2>2, <2>3, <1>1, <1>2, <1>12, AddrMembers
  <2> QED
    BY <2>4, <2>5, StoredKept
<1>15. queue # <<>> => queue[1].at = tail
  BY <1>0, <1>1, <1>2, <1>6, TailAtMarker
<1>16. FoundFrom(data', head, f)
  BY <1>5, <1>12 DEF FoundFrom, Marker
<1>17. queue = <<>> => FoundFrom(data', tail, f)
  BY <1>0, <1>16 DEF LayoutInv, FramesLinked
<1>18. queue # <<>> => FoundFrom(data', tail, queue[1])
  BY <1>15 DEF FoundFrom
<1>19. queue # <<>> => FoundFrom(data', End(queue[Len(queue)]), f)
  BY <1>0, <1>16 DEF LayoutInv, FramesLinked
<1>20. \A i \in 1..(Len(queue) - 1) :
         FoundFrom(data', End(queue[i]), queue[i + 1])
  <2> SUFFICES ASSUME NEW i \in 1..(Len(queue) - 1)
               PROVE  FoundFrom(data', End(queue[i]), queue[i + 1])
    OBVIOUS
  <2>1. FoundFrom(data, End(queue[i]), queue[i + 1])
    BY <1>0 DEF LayoutInv, FramesLinked
  <2>2. queue[i + 1].at # 0
    <3>1. i + 1 \in 1..Len(queue)
      BY <1>0, FrameFacts
    <3>2. tail <= queue[i + 1].at /\ queue[i + 1].at \in Nat /\ 0 < tail
      BY <3>1, <1>0, <1>2, <1>3, <1>7, <1>13, FrameFacts
    <3> QED
      BY <3>2, <1>2
  <2> QED
    BY <2>1, <2>2 DEF FoundFrom
<1>21. \A i, j \in 1..Len(queue) : i < j =>
         Unrolled(tail, queue[i].at) + 2 + queue[i].size <= Unrolled(tail, queue[j].at)
  BY <1>0 DEF LayoutInv, FramesOrdered, SizeofPos
<1>22. /\ Unrolled(tail, 0) = Size /\ Unrolled(tail, head) = head
       /\ Unrolled(tail, 2 + s) = 2 + s + Size
  BY <1>1, <1>2, <1>3, <1>6, <1>7, SizeNat DEF Unrolled
<1>23. \A i \in 1..Len(queue) :
         Unrolled(tail, queue[i].at) + 2 + queue[i].size <= Unrolled(tail, f.at)
  <2> SUFFICES ASSUME NEW i \in 1..Len(queue)
               PROVE  Unrolled(tail, queue[i].at) + 2 + queue[i].size
                        <= Unrolled(tail, f.at)
    OBVIOUS
  <2> DEFINE u == Unrolled(tail, queue[i].at) + 2 + queue[i].size
  <2>1. u <= head
    BY <1>0, <1>22 DEF LayoutInv, FramesOrdered, SizeofPos
  <2>2. u \in Nat
    <3>1. queue[i].at \in Nat /\ queue[i].size \in Nat
      BY <1>0, FrameFacts
    <3>2. Unrolled(tail, queue[i].at) \in Nat
      BY <3>1, <1>2, UnrolledNat
    <3> QED
      BY <3>1, <3>2
  <2> HIDE DEF u
  <2>3. u <= Size
    BY <2>1, <2>2, <1>1, <1>4, SizeNat
  <2> QED
    BY <2>3, <1>22 DEF u
<1>24. /\ Unrolled(tail, f.at) + 2 + f.size <= Unrolled(tail, head')
       /\ Unrolled(tail, head) <= Unrolled(tail, head')
  <2>1. Size + 2 + s <= 2 + s + Size /\ head <= 2 + s + Size
    BY <1>1, <1>3, <1>4, SizeNat
  <2> QED
    BY <2>1, <1>5, <1>22
<1>25. head' \in Addr /\ head' < Size /\ head' # Size - 1 /\ End(f) = head'
  BY <1>2, <1>3, <1>4, <1>5, <1>7, <1>8, SizeNat, AddrMembers
<1>26. /\ queue' = Append(queue, f)
       /\ UNCHANGED <<tail, overflow, pc, size, want, bytes, cnt, view, out, unreported>>
  BY DEF PushWrap, locals
<1> HIDE DEF f
<1> QED
  BY <1>8, <1>10, <1>11, <1>14, <1>17, <1>18, <1>19, <1>20, <1>21, <1>23, <1>24,
     <1>25, <1>26, AcceptFrame

-----------------------------------------------------------------------------
(* How the consumer moves the tail.                                        *)

(* The layout depends on the bytes, the two indices and the messages only. *)
LEMMA LayoutKept ==
  ASSUME LayoutInv, UNCHANGED <<data, head, tail, queue>>
  PROVE  LayoutInv'
  BY DEF LayoutInv, FramesStored, FramesLinked, FramesOrdered

(* The oldest frame ends inside the buffer.                                *)
LEMMA OldestFacts ==
  ASSUME TypeOK, LayoutInv, queue # <<>>
  PROVE  /\ queue[1] \in Frame
         /\ queue[1].at \in Nat /\ queue[1].at < Size
         /\ queue[1].size \in Nat /\ queue[1].size > 0 /\ queue[1].size < 65536
         /\ End(queue[1]) = queue[1].at + 2 + queue[1].size /\ End(queue[1]) < Size
         /\ Stored(data, queue[1])
         /\ tail \in Nat /\ tail < Size /\ head \in Nat /\ head < Size
<1>1. 1 \in 1..Len(queue)
  BY FrameFacts
<1> QED
  BY <1>1, FrameFacts DEF LayoutInv, FramesStored

(* Following the wrap marker to the front loses nothing.                   *)
LEMMA TailToFront ==
  ASSUME TypeOK, LayoutInv, queue # <<>>, queue[1].at = 0,
         tail' = 0, UNCHANGED <<data, head, queue>>
  PROVE  LayoutInv' /\ tail' \in Addr
<1>1. CASE tail = 0
  BY <1>1, LayoutKept, AddrMembers
<1>2. CASE tail # 0
  <2>1. \A j \in 1..Len(queue) : queue[j].at < tail /\ End(queue[j]) <= head
    BY <1>2, TailAtMarker
  <2>2. \A j \in 1..Len(queue) : Unrolled(0, queue[j].at) = queue[j].at
    BY FrameFacts DEF Unrolled
  <2>3. Unrolled(0, head) = head
    BY FrameFacts DEF Unrolled
  <2>4. \A i, j \in 1..Len(queue) : i < j =>
          queue[i].at + 2 + queue[i].size <= queue[j].at
    <3> SUFFICES ASSUME NEW i \in 1..Len(queue), NEW j \in 1..Len(queue), i < j
                 PROVE  queue[i].at + 2 + queue[i].size <= queue[j].at
      OBVIOUS
    <3> DEFINE a == queue[i].at
               n == queue[i].size
               b == queue[j].at
    <3>1. a \in Nat
      BY FrameFacts
    <3>2. n \in Nat
      BY FrameFacts
    <3>3. b \in Nat
      BY FrameFacts
    <3>4. tail \in Nat
      BY FrameFacts
    <3>5. Unrolled(tail, a) + 2 + n <= Unrolled(tail, b)
      BY DEF LayoutInv, FramesOrdered, SizeofPos
    <3>6. a < tail /\ b < tail
      BY <2>1
    <3> HIDE DEF a, n, b
    <3>7. a + 2 + n <= b
      BY <3>1, <3>2, <3>3, <3>4, <3>5, <3>6, SizeNat DEF Unrolled
    <3> QED
      BY <3>7 DEF a, n, b
  <2>5. \A i \in 1..Len(queue) : queue[i].at + 2 + queue[i].size <= head
    BY <2>1, FrameFacts
  <2>6. FramesOrdered'
    BY <2>2, <2>3, <2>4, <2>5 DEF FramesOrdered, SizeofPos
  <2>7. FramesLinked'
    BY DEF LayoutInv, FramesLinked, FoundFrom
  <2>8. FramesStored' /\ head' # Size - 1
    BY DEF LayoutInv, FramesStored
  <2> QED
    BY <2>6, <2>7, <2>8, AddrMembers DEF LayoutInv
<1> QED
  BY <1>1, <1>2

(* What dropping the first element does to a sequence.                     *)
LEMMA TailFacts ==
  ASSUME NEW S, NEW q \in Seq(S), q # <<>>, NEW r, r = Tail(q)
  PROVE  /\ r \in Seq(S)
         /\ Len(q) \in Nat /\ Len(q) > 0 /\ Len(r) = Len(q) - 1
         /\ \A i \in 1..(Len(q) - 1) : r[i] = q[i + 1]
  OBVIOUS

(* The other frames and the markers between them lie outside the payload   *)
(* of the oldest frame: whatever becomes of it, they are where they were.  *)
LEMMA OthersStored ==
  ASSUME TypeOK, LayoutInv, queue # <<>>, queue[1].at = tail, NEW mem,
         \A a \in Addr : a < tail + 2 \/ a >= End(queue[1]) => mem[a] = data[a]
  PROVE  /\ \A i \in 2..Len(queue) : Stored(mem, queue[i])
         /\ \A i \in 1..(Len(queue) - 1) :
              FoundFrom(mem, End(queue[i]), queue[i + 1])
<1> DEFINE n == Len(queue)
           e == End(queue[1])
<1>1. n \in Nat /\ n > 0 /\ 1 \in 1..n
  BY FrameFacts
<1>2. /\ tail \in Nat /\ tail < Size /\ head \in Nat /\ e \in Nat /\ e < Size
      /\ e = tail + 2 + queue[1].size
  BY OldestFacts
<1>3. Unrolled(tail, queue[1].at) + 2 + queue[1].size = e
  BY <1>2 DEF Unrolled
<1>4. ASSUME NEW i \in 2..n
      PROVE  /\ queue[i].at >= tail => queue[i].at >= e
             /\ queue[i].at < tail => End(queue[i]) <= tail
  <2>1. i \in 1..n /\ 1 < i
    BY <1>1
  <2>2. e <= Unrolled(tail, queue[i].at)
    BY <2>1, <1>1, <1>3 DEF n, LayoutInv, FramesOrdered, SizeofPos
  <2>3. queue[i].at < tail => head < tail /\ End(queue[i]) <= head
    BY <2>1, FramePlace
  <2>4. queue[i].at \in Nat /\ End(queue[i]) \in Nat
    BY <2>1, FrameFacts
  <2> QED
    BY <2>2, <2>3, <2>4, <1>2 DEF Unrolled
<1> HIDE DEF e
<1>5. ASSUME NEW i \in 2..n PROVE Stored(mem, queue[i])
  <2>1. i \in 1..n
    BY <1>1
  <2>2. queue[i] \in Frame /\ Stored(data, queue[i]) /\ End(queue[i]) < Size
    BY <2>1, FrameFacts DEF n, LayoutInv, FramesStored
  <2>3. queue[i].at \in Nat /\ End(queue[i]) \in Nat
    BY <2>1, FrameFacts
  <2>4. \A a \in Addr : queue[i].at <= a /\ a < End(queue[i]) => mem[a] = data[a]
    BY <2>3, <1>2, <1>4, AddrMembers DEF e
  <2> QED
    BY <2>2, <2>4, StoredKept
<1>6. ASSUME NEW i \in 1..(n - 1) PROVE FoundFrom(mem, End(queue[i]), queue[i + 1])
  <2>1. i \in 1..n /\ (i = 1 \/ i \in 2..n)
    BY <1>1
  <2>2. FoundFrom(data, End(queue[i]), queue[i + 1])
    BY DEF n, LayoutInv, FramesLinked
  <2>3. CASE queue[i + 1].at = End(queue[i])
    BY <2>3 DEF FoundFrom
  <2>4. CASE queue[i + 1].at # End(queue[i])
    <3>1. queue[i + 1].at = 0 /\ Marker(data, End(queue[i]))
          /\ queue[i + 1].size < ByteRange
      BY <2>2, <2>4 DEF FoundFrom
    <3>2. tail <= queue[i].at
      BY <3>1, BeforeWrap
    <3>3. e <= End(queue[i]) /\ End(queue[i]) \in Nat
      <4>1. queue[i].at \in Nat /\ queue[i].size \in Nat
            /\ End(queue[i]) = queue[i].at + 2 + queue[i].size
        BY <2>1, FrameFacts
      <4>2. i # 1 => e <= queue[i].at
        BY <2>1, <3>2, <1>4
      <4>3. i = 1 => e = End(queue[i])
        BY DEF e
      <4>4. PICK a, m : a = queue[i].at /\ m = queue[i].size
        OBVIOUS
      <4>5. a \in Nat /\ m \in Nat /\ End(queue[i]) = a + 2 + m
        BY <4>1, <4>4
      <4>6. i # 1 => e <= a
        BY <4>2, <4>4
      <4>7. e \in Nat
        BY <1>2
      <4>8. End(queue[i]) \in Nat
        BY <4>5
      <4>9. i # 1 => e <= a + 2 + m
        BY <4>5, <4>6, <4>7
      <4> QED
        BY <4>3, <4>5, <4>7, <4>8, <4>9
    <3>4. Marker(mem, End(queue[i]))
      <4>1. PICK p : p = End(queue[i])
        OBVIOUS
      <4>2. p \in Nat /\ e <= p /\ p + 1 \in Addr /\ data[p] = 0 /\ data[p + 1] = 0
        BY <4>1, <3>1, <3>3 DEF Marker
      <4>3. p \in Addr /\ p >= e /\ p + 1 >= e
        BY <4>2, <1>2, AddrMembers
      <4>4. mem[p] = data[p] /\ mem[p + 1] = data[p + 1]
        BY <4>2, <4>3 DEF e
      <4> QED
        BY <4>1, <4>2, <4>4 DEF Marker
    <3> QED
      BY <3>1, <3>4 DEF FoundFrom
  <2> QED
    BY <2>3, <2>4
<1> QED
  BY <1>5, <1>6

(* Advancing the tail past the oldest frame leaves the layout of the rest, *)
(* whatever was made of the oldest frame's own bytes.                      *)
LEMMA TailPastOldest ==
  ASSUME TypeOK, LayoutInv, queue # <<>>, queue[1].at = tail,
         tail' = End(queue[1]), queue' = Tail(queue), head' = head,
         \A a \in Addr : a < tail + 2 \/ a >= End(queue[1]) => data'[a] = data[a]
  PROVE  LayoutInv' /\ tail' \in Addr /\ queue' \in Seq(Frame)
<1> DEFINE n == Len(queue)
           e == End(queue[1])
<1>1. n \in Nat
  BY FrameFacts
<1>2. /\ queue' \in Seq(Frame) /\ n > 0 /\ Len(queue') = n - 1
      /\ \A i \in 1..(n - 1) : queue'[i] = queue[i + 1]
  BY TailFacts DEF TypeOK
<1>3. \A i \in 1..(n - 1) : i + 1 \in 1..n /\ 1 < i + 1
  BY <1>1
<1>4. e \in Nat
  BY OldestFacts
<1>5. e < Size /\ tail < e
  BY OldestFacts
<1>6. tail \in Nat
  BY OldestFacts
<1>7. head \in Nat
  BY OldestFacts
<1>8. head < Size
  BY OldestFacts
<1>9. Unrolled(tail, tail) = tail /\ tail + 2 + queue[1].size = e
  BY <1>6, OldestFacts DEF Unrolled
<1>10. e <= Unrolled(tail, head)
  <2>1. 1 \in 1..Len(queue)
    BY <1>1, <1>2 DEF n
  <2>2. Unrolled(tail, queue[1].at) + 2 + queue[1].size <= Unrolled(tail, head)
    BY <2>1 DEF LayoutInv, FramesOrdered, SizeofPos
  <2> QED
    BY <2>2, <1>9
<1>11. \A i \in 2..n : e <= Unrolled(tail, queue[i].at)
  <2> SUFFICES ASSUME NEW i \in 2..n PROVE e <= Unrolled(tail, queue[i].at)
    OBVIOUS
  <2>1. 1 \in 1..Len(queue) /\ i \in 1..Len(queue) /\ 1 < i
    BY <1>1, <1>2 DEF n
  <2>2. Unrolled(tail, queue[1].at) + 2 + queue[1].size <= Unrolled(tail, queue[i].at)
    BY <2>1 DEF LayoutInv, FramesOrdered, SizeofPos
  <2> QED
    BY <2>2, <1>9
<1> HIDE DEF e
<1>12. \A a \in Nat : a < Size /\ e <= Unrolled(tail, a) =>
                        Unrolled(e, a) = Unrolled(tail, a)
  BY <1>4, <1>5, <1>6, SizeNat DEF Unrolled
<1>13. Unrolled(e, head) = Unrolled(tail, head)
  BY <1>7, <1>8, <1>10, <1>12
<1>14. \A i \in 2..n : Unrolled(e, queue[i].at) = Unrolled(tail, queue[i].at)
  <2> SUFFICES ASSUME NEW i \in 2..n
               PROVE  Unrolled(e, queue[i].at) = Unrolled(tail, queue[i].at)
    OBVIOUS
  <2>1. i \in 1..Len(queue)
    BY <1>1 DEF n
  <2>2. queue[i].at \in Nat /\ queue[i].at < Size
    BY <2>1, FrameFacts
  <2> QED
    BY <2>2, <1>11, <1>12
<1>15. tail' = e
  BY DEF e
<1>16. PICK mem : mem = data'
  OBVIOUS
<1>17. /\ \A i \in 2..Len(queue) : Stored(mem, queue[i])
       /\ \A i \in 1..(Len(queue) - 1) : FoundFrom(mem, End(queue[i]), queue[i + 1])
  BY <1>16, OthersStored
<1>18. FramesStored'
  <2>1. \A i \in 1..n : End(queue[i]) < Size
    BY DEF n, LayoutInv, FramesStored
  <2>2. \A i \in 1..(n - 1) : i + 1 \in 2..n
    BY <1>1
  <2> QED
    BY <2>1, <2>2, <1>2, <1>3, <1>16, <1>17 DEF n, FramesStored
<1>19. FramesLinked'
  <2>1. \A i \in 1..(n - 1) : FoundFrom(data', End(queue[i]), queue[i + 1])
    BY <1>16, <1>17 DEF n
  <2>2. End(queue[n]) = head
    BY DEF n, LayoutInv, FramesLinked
  <2>3. CASE n = 1
    <3>1. queue' = <<>>
      BY <2>3, <1>2
    <3>2. head' = tail'
      BY <2>2, <2>3, <1>15 DEF e
    <3>3. \A i \in 1..(Len(queue') - 1) : FALSE
      BY <2>3, <1>2
    <3> QED
      BY <3>1, <3>2, <3>3 DEF FramesLinked
  <2>4. CASE n # 1
    <3>1. queue' # <<>> /\ 1 \in 1..(n - 1) /\ n - 1 \in 1..(n - 1)
      <4>1. n - 1 > 0
        BY <2>4, <1>1, <1>2
      <4>2. Len(queue') # 0
        BY <4>1, <1>2
      <4>3. queue' # <<>>
        <5>1. Len(<<>>) = 0
          OBVIOUS
        <5> QED
          BY <5>1, <4>2, Zenon
      <4> QED
        BY <4>1, <4>3, <1>1
    <3>2. queue'[1] = queue[1 + 1] /\ queue'[Len(queue')] = queue[n]
      <4>1. (n - 1) + 1 = n
        BY <1>1
      <4> QED
        BY <4>1, <3>1, <1>2
    <3>3. FoundFrom(data', e, queue'[1])
      BY <3>1, <3>2, <2>1 DEF e
    <3>4. ASSUME NEW i \in 1..(n - 1 - 1)
          PROVE  FoundFrom(data', End(queue'[i]), queue'[i + 1])
      <4>1. i \in 1..(n - 1) /\ i + 1 \in 1..(n - 1)
        BY <1>1
      <4> QED
        BY <4>1, <2>1, <1>2
    <3> QED
      BY <3>1, <3>2, <3>3, <3>4, <2>2, <1>2, <1>15 DEF FramesLinked
  <2> QED
    BY <2>3, <2>4
<1>20. FramesOrdered'
  <2>1. ASSUME NEW i \in 1..(n - 1), NEW j \in 1..(n - 1), i < j
        PROVE  Unrolled(e, queue'[i].at) + 2 + queue'[i].size
                 <= Unrolled(e, queue'[j].at)
    <3>1. i + 1 \in 1..n /\ j + 1 \in 1..n /\ i + 1 < j + 1
          /\ i + 1 \in 2..n /\ j + 1 \in 2..n
      BY <2>1, <1>1
    <3>2. Unrolled(tail, queue[i + 1].at) + 2 + queue[i + 1].size
            <= Unrolled(tail, queue[j + 1].at)
      BY <3>1 DEF n, LayoutInv, FramesOrdered, SizeofPos
    <3> QED
      BY <3>1, <3>2, <1>2, <1>14
  <2>2. ASSUME NEW i \in 1..(n - 1)
        PROVE  Unrolled(e, queue'[i].at) + 2 + queue'[i].size <= Unrolled(e, head)
    <3>1. i + 1 \in 1..n /\ i + 1 \in 2..n
      BY <1>1
    <3>2. Unrolled(tail, queue[i + 1].at) + 2 + queue[i + 1].size
            <= Unrolled(tail, head)
      BY <3>1 DEF n, LayoutInv, FramesOrdered, SizeofPos
    <3> QED
      BY <3>1, <3>2, <1>2, <1>13, <1>14
  <2> QED
    BY <2>1, <2>2, <1>2, <1>15 DEF FramesOrdered, SizeofPos
<1> QED
  BY <1>2, <1>4, <1>5, <1>15, <1>18, <1>19, <1>20, AddrMembers DEF LayoutInv

-----------------------------------------------------------------------------
(* What the consumer reads.                                                *)

(* Inside a call the size field at the tail is the oldest frame's, or it   *)
(* is the wrap marker and the frame is at the front.                       *)
LEMMA LoadAtTail ==
  ASSUME TypeOK, LayoutInv, queue # <<>>, NEW n \in SizesAt(data, tail)
  PROVE  \/ n # 0 /\ n = queue[1].size /\ tail = queue[1].at
         \/ n = 0 /\ queue[1].at = 0 /\ queue[1].size < ByteRange
<1>1. data \in [Addr -> Byte] /\ tail \in Nat /\ queue[1].size # 0
  BY OldestFacts DEF TypeOK
<1>2. CASE queue[1].at = tail
  <2>1. tail + 1 \in Addr
    BY <1>2, OldestFacts, SizeNat, AddrMembers
  <2>2. data[tail] = queue[1].size % ByteRange
        /\ data[tail + 1] = queue[1].size \div ByteRange
    BY <1>2, OldestFacts DEF Stored
  <2>3. queue[1].size \in Nat /\ queue[1].size < 65536
    BY OldestFacts
  <2>4. n = queue[1].size
    BY <1>1, <2>1, <2>2, <2>3, SizeRead
  <2> QED
    BY <1>1, <1>2, <2>4
<1>3. CASE queue[1].at # tail
  <2>1. queue[1].at = 0 /\ Marker(data, tail) /\ queue[1].size < ByteRange
    BY <1>3, TailAtMarker
  <2>2. 0 % ByteRange = 0 /\ 0 \div ByteRange = 0
    BY DEF ByteRange
  <2>3. n = 0
    BY <1>1, <2>1, <2>2, SizeRead DEF Marker
  <2> QED
    BY <2>1, <2>3
<1> QED
  BY <1>2, <1>3

(* A size below 256 is its own low byte.                                   *)
LEMMA FrontByte ==
  ASSUME TypeOK, LayoutInv, queue # <<>>, queue[1].at = 0,
         queue[1].size < ByteRange
  PROVE  data[0] = queue[1].size
<1> DEFINE n == queue[1].size
<1>1. n \in Nat
  BY OldestFacts
<1>2. data[0] = n % ByteRange /\ n < ByteRange
  BY OldestFacts DEF Stored
<1> HIDE DEF n
<1>3. n % 256 = n
  BY <1>1, <1>2 DEF ByteRange
<1> QED
  BY <1>2, <1>3 DEF n, ByteRange

(* The payload of the oldest frame is its tag.                             *)
LEMMA PayloadRead ==
  ASSUME TypeOK, LayoutInv, queue # <<>>, queue[1].at = tail,
         NEW n \in Nat, n <= queue[1].size
  PROVE  PayloadAt(data, tail, n) = IF n = 0 THEN {} ELSE {queue[1].tag}
<1> DEFINE A == {a \in Addr : tail + 2 <= a /\ a < tail + 2 + n}
<1>1. tail \in Nat
  BY OldestFacts
<1>2. Addr \cap ((tail + 2)..(tail + 2 + n - 1)) = A
  BY <1>1, AddrMembers
<1>3. PayloadAt(data, tail, n) = {data[a] : a \in A}
  BY <1>2, Zenon DEF PayloadAt, SizeofPos
<1>4. \A a \in A : data[a] = queue[1].tag
  <2> SUFFICES ASSUME NEW a \in A PROVE data[a] = queue[1].tag
    OBVIOUS
  <2>1. a \in Addr /\ tail + 2 <= a /\ a < End(queue[1])
    BY <1>1, OldestFacts, AddrMembers
  <2> QED
    BY <2>1, OldestFacts DEF Stored, SizeofPos
<1>5. n = 0 => A = {}
  BY <1>1, AddrMembers
<1>6. n # 0 => tail + 2 \in A
  BY <1>1, OldestFacts, SizeNat, AddrMembers
<1> HIDE DEF A
<1> QED
  BY <1>3, <1>4, <1>5, <1>6

-----------------------------------------------------------------------------
(* Every step keeps the invariant.                                         *)

(* A refused message keeps the inductive invariant.                        *)
LEMMA PushRejectedInv ==
  ASSUME IInv, NEW s \in Sizes, PushRejected(s)
  PROVE  IInv'
<1>1. LayoutInv'
  BY LayoutKept DEF IInv, PushRejected, ring
<1>2. overflow \in Nat /\ cnt \in Nat /\ unreported \in Nat /\ overflow <= unreported
  BY ByteMembers DEF IInv, TypeOK, ReportsAreReal
<1>3. (overflow + 1) % 256 \in Nat /\ (overflow + 1) % 256 < 256
      /\ (overflow + 1) % 256 <= unreported + 1
  BY <1>2
<1>4. TypeOK'
  BY <1>2, <1>3, ByteMembers DEF IInv, TypeOK, PushRejected, ring, locals, ByteRange
<1>5. CallInv' /\ ViewStable'
  BY DEF IInv, PushRejected, ring, locals, CallInv, ViewStable, copySize
<1>6. ReportsAreReal'
  BY <1>2, <1>3 DEF IInv, PushRejected, locals, ReportsAreReal, ByteRange
<1> QED
  BY <1>1, <1>4, <1>5, <1>6 DEF IInv

(* Each step of ringPeek keeps the inductive invariant.                    *)
LEMMA PeekInv ==
  ASSUME IInv, ringPeek
  PROVE  IInv'
<1>0. TypeOK /\ LayoutInv /\ CallInv /\ ViewStable /\ ReportsAreReal
  BY DEF IInv
<1>1. CASE PeekEmpty
  <2>1. LayoutInv'
    BY <1>0, <1>1, LayoutKept DEF PeekEmpty, ring, history
  <2>2. TypeOK'
    BY <1>0, <1>1, PosMembers DEF PeekEmpty, ring, locals, history, TypeOK, Result
  <2>3. CallInv' /\ ViewStable' /\ ReportsAreReal'
    BY <1>0, <1>1 DEF PeekEmpty, ring, locals, history, CallInv, ViewStable,
                      ReportsAreReal, copySize
  <2> QED
    BY <2>1, <2>2, <2>3 DEF IInv
<1>2. CASE PeekCheck
  <2>1. LayoutInv'
    BY <1>0, <1>2, LayoutKept DEF PeekCheck, ring, history
  <2>2. TypeOK'
    BY <1>0, <1>2 DEF PeekCheck, ring, locals, history, TypeOK, CallStates
  <2>3. queue # <<>>
    BY <1>0, <1>2 DEF PeekCheck, IsEmpty, LayoutInv, FramesLinked
  <2>4. CallInv' /\ ViewStable' /\ ReportsAreReal'
    BY <1>0, <1>2, <2>3 DEF PeekCheck, ring, locals, history, CallInv, ViewStable,
                            ReportsAreReal
  <2> QED
    BY <2>1, <2>2, <2>4 DEF IInv
<1>3. CASE PeekLoad
  <2>1. LayoutInv'
    BY <1>0, <1>3, LayoutKept DEF PeekLoad, ring, history
  <2>2. queue # <<>> /\ pc = "peekLoad"
    BY <1>0, <1>3 DEF PeekLoad, CallInv
  <2>3. PICK n \in SizesAt(data, tail) :
          \/ /\ n # 0 /\ pc' = "ready" /\ view' = [at |-> tail, size |-> n]
             /\ out' = Result("peek", n, {})
          \/ /\ n = 0 /\ pc' = "peekWrap" /\ UNCHANGED <<view, out>>
    BY <1>3 DEF PeekLoad
  <2>4. \/ n # 0 /\ n = queue[1].size /\ tail = queue[1].at
        \/ n = 0 /\ queue[1].at = 0 /\ queue[1].size < ByteRange
    BY <1>0, <2>2, LoadAtTail
  <2>5. n \in Pos
    BY <1>0, FrameFacts, SizesAtType DEF TypeOK
  <2>6. UNCHANGED <<data, head, tail, overflow, size, want, bytes, cnt, queue, unreported>>
    BY <1>3 DEF PeekLoad, ring, locals, history
  <2>7. Stored(data, queue[1])
    BY <1>0, <2>2, OldestFacts
  <2>8. CASE n # 0
    <3>1. pc' = "ready" /\ view' = [at |-> tail, size |-> n]
          /\ out' = Result("peek", n, {})
      BY <2>3, <2>8
    <3>2. TypeOK'
      BY <1>0, <2>5, <2>6, <3>1 DEF TypeOK, CallStates, Result
    <3>3. CallInv'
      BY <1>0, <2>2, <2>6, <3>1 DEF CallInv
    <3>4. ViewStable'
      BY <2>2, <2>4, <2>6, <2>7, <2>8, <3>1 DEF ViewStable
    <3>5. ReportsAreReal'
      BY <1>0, <2>6, <3>1 DEF ReportsAreReal
    <3> QED
      BY <2>1, <3>2, <3>3, <3>4, <3>5 DEF IInv
  <2>9. CASE n = 0
    <3>1. pc' = "peekWrap" /\ UNCHANGED <<view, out>>
      BY <2>3, <2>9
    <3>2. TypeOK'
      BY <1>0, <2>6, <3>1 DEF TypeOK, CallStates
    <3>3. CallInv'
      BY <1>0, <2>2, <2>4, <2>6, <2>9, <3>1 DEF CallInv
    <3>4. ViewStable' /\ ReportsAreReal'
      BY <1>0, <2>6, <3>1 DEF ViewStable, ReportsAreReal
    <3> QED
      BY <2>1, <3>2, <3>3, <3>4 DEF IInv
  <2> QED
    BY <2>8, <2>9
<1>4. CASE PeekWrap
  <2>1. pc = "peekWrap" /\ queue # <<>> /\ queue[1].at = 0 /\ queue[1].size < ByteRange
        /\ bytes = {}
    BY <1>0, <1>4 DEF PeekWrap, CallInv
  <2>2. data[0] = queue[1].size
    BY <1>0, <2>1, FrontByte
  <2>3. /\ tail' = 0 /\ pc' = "ready" /\ view' = [at |-> 0, size |-> data[0]]
        /\ out' = Result("peek", data[0], {})
        /\ UNCHANGED <<data, head, overflow, size, want, bytes, cnt, queue, unreported>>
    BY <1>4 DEF PeekWrap, locals, history
  <2>4. LayoutInv' /\ tail' \in Addr
    BY <1>0, <2>1, <2>3, TailToFront
  <2>5. data[0] \in Pos /\ 0 \in Addr
    BY <1>0, <2>1, <2>2, OldestFacts, PosMembers, AddrMembers
  <2>6. TypeOK'
    BY <1>0, <2>3, <2>4, <2>5 DEF TypeOK, CallStates, Result
  <2>7. CallInv'
    BY <2>1, <2>3 DEF CallInv
  <2>8. ViewStable'
    BY <1>0, <2>1, <2>2, <2>3, OldestFacts DEF ViewStable
  <2>9. ReportsAreReal'
    BY <1>0, <2>3 DEF ReportsAreReal
  <2> QED
    BY <2>4, <2>6, <2>7, <2>8, <2>9 DEF IInv
<1> QED
  BY <1>1, <1>2, <1>3, <1>4 DEF ringPeek

(* Each step of ringPop keeps the inductive invariant.                     *)
LEMMA PopInv ==
  ASSUME IInv, ringPop
  PROVE  IInv'
<1>0. TypeOK /\ LayoutInv /\ CallInv /\ ViewStable /\ ReportsAreReal
  BY DEF IInv
<1>1. CASE PopEmpty
  <2>1. LayoutInv'
    BY <1>0, <1>1, LayoutKept DEF PopEmpty, ring, history
  <2>2. TypeOK'
    BY <1>0, <1>1, PosMembers DEF PopEmpty, ring, locals, history, TypeOK, Result
  <2>3. CallInv' /\ ViewStable' /\ ReportsAreReal'
    BY <1>0, <1>1 DEF PopEmpty, ring, locals, history, CallInv, ViewStable,
                      ReportsAreReal, copySize
  <2> QED
    BY <2>1, <2>2, <2>3 DEF IInv
<1>2. ASSUME NEW m \in OutSizes, PopCheck(m) PROVE IInv'
  <2>1. queue # <<>> /\ pc = "ready"
    BY <1>0, <1>2 DEF PopCheck, IsEmpty, LayoutInv, FramesLinked
  <2>2. /\ tail' = IF tail + 2 >= Size THEN 0 ELSE tail
        /\ want' = m /\ pc' = "popLoad"
        /\ UNCHANGED <<data, head, overflow, size, bytes, cnt, view, out,
                       queue, unreported>>
    BY <1>2 DEF PopCheck, SizeofPos, history
  <2>3. ASSUME tail + 2 >= Size
        PROVE  LayoutInv' /\ ViewStable' /\ tail' \in Addr
    <3>1. tail' = 0
      BY <2>2, <2>3
    <3>2. queue[1].at # tail
      BY <1>0, <2>1, <2>3, OldestFacts, SizeNat
    <3>3. queue[1].at = 0
      BY <1>0, <2>1, <3>2, TailAtMarker
    <3>4. LayoutInv' /\ tail' \in Addr
      BY <1>0, <2>1, <2>2, <3>1, <3>3, TailToFront
    <3>5. view.size > 0 => FALSE
      BY <1>0, <3>2 DEF ViewStable
    <3>6. ViewStable'
      BY <2>2, <3>5 DEF ViewStable
    <3> QED
      BY <3>4, <3>6
  <2>4. ASSUME ~(tail + 2 >= Size)
        PROVE  LayoutInv' /\ ViewStable' /\ tail' \in Addr
    <3>1. tail' = tail
      BY <2>2, <2>4
    <3>2. LayoutInv' /\ ViewStable'
      BY <1>0, <2>2, <3>1, LayoutKept DEF ViewStable
    <3> QED
      BY <1>0, <3>1, <3>2 DEF TypeOK
  <2>5. LayoutInv' /\ ViewStable' /\ tail' \in Addr
    BY <2>3, <2>4
  <2>6. TypeOK'
    BY <1>0, <2>2, <2>5 DEF TypeOK, CallStates
  <2>7. CallInv' /\ ReportsAreReal'
    BY <1>0, <2>1, <2>2 DEF CallInv, ReportsAreReal
  <2> QED
    BY <2>5, <2>6, <2>7 DEF IInv
<1>3. CASE PopLoad
  <2>1. queue # <<>> /\ pc = "popLoad"
    BY <1>0, <1>3 DEF PopLoad, CallInv
  <2>2. /\ size' \in SizesAt(data, tail)
        /\ pc' = IF size' = 0 THEN "popWrap" ELSE "popCopy"
        /\ UNCHANGED <<data, head, tail, overflow, want, bytes, cnt, view, out,
                       queue, unreported>>
    BY <1>3 DEF PopLoad, ring, history
  <2>3. \/ size' # 0 /\ size' = queue[1].size /\ tail = queue[1].at
        \/ size' = 0 /\ queue[1].at = 0 /\ queue[1].size < ByteRange
    BY <1>0, <2>1, <2>2, LoadAtTail
  <2>4. size' \in Pos
    BY <1>0, <2>2, FrameFacts, SizesAtType DEF TypeOK
  <2>5. LayoutInv'
    BY <1>0, <2>2, LayoutKept
  <2>6. TypeOK'
    BY <1>0, <2>2, <2>4 DEF TypeOK, CallStates
  <2>7. CallInv'
    BY <1>0, <2>1, <2>2, <2>3 DEF CallInv
  <2>8. ViewStable' /\ ReportsAreReal'
    BY <1>0, <2>2 DEF ViewStable, ReportsAreReal
  <2> QED
    BY <2>5, <2>6, <2>7, <2>8 DEF IInv
<1>4. CASE PopWrap
  <2>1. pc = "popWrap" /\ queue # <<>> /\ queue[1].at = 0 /\ queue[1].size < ByteRange
    BY <1>0, <1>4 DEF PopWrap, CallInv
  <2>2. data[0] = queue[1].size
    BY <1>0, <2>1, FrontByte
  <2>3. /\ tail' = 0 /\ size' = data[0] /\ pc' = "popCopy"
        /\ UNCHANGED <<data, head, overflow, want, bytes, cnt, view, out, queue,
                       unreported>>
    BY <1>4 DEF PopWrap, history
  <2>4. LayoutInv' /\ tail' \in Addr
    BY <1>0, <2>1, <2>3, TailToFront
  <2>5. size' \in Pos
    BY <1>0, <2>1, <2>2, <2>3, OldestFacts, PosMembers
  <2>6. TypeOK'
    BY <1>0, <2>3, <2>4, <2>5 DEF TypeOK, CallStates
  <2>7. CallInv'
    BY <1>0, <2>1, <2>2, <2>3 DEF CallInv
  <2>8. ViewStable' /\ ReportsAreReal'
    BY <1>0, <2>1, <2>3 DEF ViewStable, ReportsAreReal
  <2> QED
    BY <2>4, <2>6, <2>7, <2>8 DEF IInv
<1>5. CASE PopCopy
  <2>1. pc = "popCopy" /\ queue # <<>> /\ tail = queue[1].at /\ size = queue[1].size
    BY <1>0, <1>5 DEF PopCopy, CallInv
  <2>2. /\ bytes' = PayloadAt(data, tail, copySize) /\ pc' = "popAdvance"
        /\ UNCHANGED <<data, head, tail, overflow, size, want, cnt, view, out,
                       queue, unreported>>
    BY <1>5 DEF PopCopy, ring, history
  <2>3. copySize \in Nat /\ copySize <= queue[1].size
    <3>1. size \in Nat /\ want \in Nat
      BY <1>0, OutSizesAssumption, PosMembers DEF TypeOK
    <3> QED
      BY <2>1, <3>1 DEF copySize, Smaller
  <2>4. bytes' = IF copySize = 0 THEN {} ELSE {queue[1].tag}
    BY <1>0, <2>1, <2>2, <2>3, PayloadRead
  <2>5. bytes' \in SUBSET Byte
    BY <1>0, <2>1, <2>4, OldestFacts, TagsAssumption DEF Frame
  <2>6. LayoutInv'
    BY <1>0, <2>2, LayoutKept
  <2>7. TypeOK'
    BY <1>0, <2>2, <2>5 DEF TypeOK, CallStates
  <2>8. CallInv'
    BY <2>1, <2>2, <2>4 DEF CallInv, copySize
  <2>9. ViewStable' /\ ReportsAreReal'
    BY <1>0, <2>1, <2>2 DEF ViewStable, ReportsAreReal
  <2> QED
    BY <2>6, <2>7, <2>8, <2>9 DEF IInv
<1>6. CASE PopAdvance
  <2>1. /\ pc = "popAdvance" /\ queue # <<>>
        /\ tail = queue[1].at /\ size = queue[1].size
    BY <1>0, <1>6 DEF PopAdvance, CallInv
  <2>2. /\ tail' = (tail + 2 + size) % 65536
        /\ out' = Result("pop", IF want = 0 THEN size ELSE copySize, bytes)
        /\ queue' = Tail(queue)
        /\ view' = NoView /\ size' = 0 /\ want' = 0 /\ bytes' = {} /\ pc' = "ready"
        /\ UNCHANGED <<data, head, overflow, cnt, unreported>>
    BY <1>6, <2>1 DEF PopAdvance, SizeofPos, PosRange
  <2>3. tail' = End(queue[1])
    <3>1. End(queue[1]) = tail + 2 + size /\ End(queue[1]) \in Nat
          /\ End(queue[1]) < 65536
      BY <1>0, <2>1, OldestFacts, SizeNat, SizeFacts
    <3> QED
      BY <2>2, <3>1
  <2>4. LayoutInv' /\ tail' \in Addr /\ queue' \in Seq(Frame)
    BY <1>0, <2>1, <2>2, <2>3, TailPastOldest
  <2>5. (IF want = 0 THEN size ELSE copySize) \in Pos
    <3>1. size \in Pos /\ want \in Pos
      BY <1>0, OutSizesAssumption, PosMembers DEF TypeOK
    <3> QED
      BY <3>1 DEF copySize, Smaller
  <2>6. TypeOK'
    <3>1. 0 \in Pos /\ 0 \in Addr
      BY PosMembers, AddrMembers
    <3>2. bytes \in SUBSET Byte
      BY <1>0 DEF TypeOK
    <3>3. view' \in [at : Addr, size : Pos]
      BY <2>2, <3>1 DEF NoView
    <3>4. out' \in [call : {"none", "peek", "pop"}, len : Pos, bytes : SUBSET Byte]
      BY <2>2, <2>5, <3>2 DEF Result
    <3> QED
      BY <1>0, <2>2, <2>4, <3>1, <3>3, <3>4 DEF TypeOK, CallStates
  <2>7. CallInv' /\ ViewStable' /\ ReportsAreReal'
    BY <1>0, <2>2 DEF CallInv, ViewStable, NoView, ReportsAreReal
  <2> QED
    BY <2>4, <2>6, <2>7 DEF IInv
<1> QED
  BY <1>1, <1>2, <1>3, <1>4, <1>5, <1>6 DEF ringPop

(* The load and the store of ringOverflowed keep the inductive invariant.  *)
LEMMA OverflowInv ==
  ASSUME IInv, ringOverflowed
  PROVE  IInv'
<1>0. TypeOK /\ LayoutInv /\ CallInv /\ ViewStable /\ ReportsAreReal
  BY DEF IInv
<1>1. overflow \in Nat /\ cnt \in Nat /\ unreported \in Nat /\ overflow <= unreported
      /\ 0 \in Byte /\ overflow \in Byte
  BY <1>0, ByteMembers DEF TypeOK, ReportsAreReal
<1>2. CASE OverflowRead
  <2>1. /\ pc = "ready" /\ cnt' = overflow /\ pc' = "overflowClear"
        /\ UNCHANGED <<data, head, tail, overflow, size, want, bytes, view, out,
                       queue, unreported>>
    BY <1>2 DEF OverflowRead, ring, history
  <2>2. TypeOK' /\ ReportsAreReal'
    BY <1>0, <1>1, <2>1 DEF TypeOK, CallStates, ReportsAreReal
  <2>3. LayoutInv' /\ CallInv' /\ ViewStable'
    BY <1>0, <2>1, LayoutKept DEF CallInv, ViewStable
  <2> QED
    BY <2>2, <2>3 DEF IInv
<1>3. CASE OverflowClear
  <2>1. /\ pc = "overflowClear" /\ overflow' = 0 /\ cnt' = 0 /\ pc' = "ready"
        /\ unreported' = unreported - cnt
        /\ UNCHANGED <<data, head, tail, size, want, bytes, view, out, queue>>
    BY <1>3 DEF OverflowClear, ring
  <2>2. cnt <= unreported
    BY <1>0, <2>1 DEF ReportsAreReal
  <2>3. unreported' \in Nat
    BY <1>1, <2>1, <2>2
  <2>4. TypeOK' /\ ReportsAreReal'
    BY <1>0, <1>1, <2>1, <2>3 DEF TypeOK, CallStates, ReportsAreReal
  <2>5. LayoutInv' /\ CallInv' /\ ViewStable'
    BY <1>0, <2>1, LayoutKept DEF CallInv, ViewStable
  <2> QED
    BY <2>4, <2>5 DEF IInv
<1> QED
  BY <1>2, <1>3 DEF ringOverflowed

(* So does a stuttering step.                                              *)
LEMMA StutterInv ==
  ASSUME IInv, UNCHANGED vars
  PROVE  IInv'
<1>1. LayoutInv'
  BY LayoutKept DEF IInv, vars
<1>2. TypeOK' /\ CallInv' /\ ViewStable' /\ ReportsAreReal'
  BY DEF IInv, vars, TypeOK, CallInv, ViewStable, ReportsAreReal, copySize
<1> QED
  BY <1>1, <1>2 DEF IInv

(* ringInit establishes the inductive invariant.                           *)
LEMMA InitInv == Init => IInv
<1> SUFFICES ASSUME Init PROVE IInv
  OBVIOUS
<1>1. 0 \in Byte /\ 0 \in Pos /\ 0 \in Addr
  BY ByteMembers, PosMembers, AddrMembers
<1>2. TypeOK
  BY <1>1 DEF Init, TypeOK, CallStates, NoView, Result
<1>3. queue = <<>> /\ Len(queue) = 0 /\ head = tail /\ head # Size - 1
  BY SizeFacts DEF Init
<1>4. LayoutInv
  <2>1. FramesStored
    BY <1>3 DEF FramesStored
  <2>2. FramesLinked
    BY <1>3 DEF FramesLinked
  <2>3. FramesOrdered
    BY <1>3 DEF FramesOrdered
  <2> QED
    BY <1>3, <2>1, <2>2, <2>3 DEF LayoutInv
<1>5. CallInv /\ ViewStable /\ ReportsAreReal
  BY DEF Init, CallInv, ViewStable, NoView, ReportsAreReal
<1> QED
  BY <1>2, <1>4, <1>5 DEF IInv

(* Every step of the ring with a producer that stays clear of the traps    *)
(* keeps the inductive invariant.                                          *)
LEMMA SafeStep == IInv /\ [SafeNext]_vars => IInv'
<1> SUFFICES ASSUME IInv, [SafeNext]_vars PROVE IInv'
  OBVIOUS
<1>1. CASE Consumer
  BY <1>1, PeekInv, PopInv, OverflowInv DEF Consumer
<1>2. ASSUME NEW s \in Sizes, NEW t \in Tags, PushRejected(s) PROVE IInv'
  BY <1>2, PushRejectedInv
<1>3. ASSUME NEW s \in Sizes, NEW t \in Tags, Clear(s), PushBack(s, t) PROVE IInv'
  BY <1>3, PushBackInv
<1>4. ASSUME NEW s \in Sizes, NEW t \in Tags, Clear(s), PushWrap(s, t) PROVE IInv'
  BY <1>4, PushWrapInv
<1>5. CASE UNCHANGED vars
  BY <1>5, StutterInv
<1> QED
  BY <1>1, <1>2, <1>3, <1>4, <1>5 DEF SafeNext

-----------------------------------------------------------------------------
(* The results for a producer that stays clear of the five cases.          *)

(* The inductive invariant holds throughout.                               *)
LEMMA SafeInvariant == SafeSpec => []IInv
<1>1. Init => IInv
  BY InitInv
<1>2. IInv /\ [SafeNext]_vars => IInv'
  BY SafeStep
<1> QED
  BY <1>1, <1>2, PTL DEF SafeSpec

(* Both indices stay inside the buffer, in every interleaving of the       *)
(* interrupt handler with the steps of ringPeek, ringPop and               *)
(* ringOverflowed.                                                         *)
THEOREM SafeTypes == SafeSpec => []TypeOK
<1>1. IInv => TypeOK
  BY DEF IInv
<1> QED
  BY <1>1, SafeInvariant, PTL

(* Every accepted message stays intact and findable until it is popped.    *)
THEOREM SafeLayout == SafeSpec => []LayoutInv
<1>1. IInv => LayoutInv
  BY DEF IInv
<1> QED
  BY <1>1, SafeInvariant, PTL

(* What a call of the main loop has read is still true when it is used.    *)
THEOREM SafeCalls == SafeSpec => []CallInv
<1>1. IInv => CallInv
  BY DEF IInv
<1> QED
  BY <1>1, SafeInvariant, PTL

(* The pointer ringPeek gives out is good until ringPop.                   *)
THEOREM SafeViews == SafeSpec => []ViewStable
<1>1. IInv => ViewStable
  BY DEF IInv
<1> QED
  BY <1>1, SafeInvariant, PTL

-----------------------------------------------------------------------------
(* The results for the messages of amr.c in any buffer that is not one byte *)
(* over a multiple of four, amr.c's own of 512 bytes included, as long as   *)
(* no push is an exact fit.                                                 *)

Lined == head % 4 = 0 /\ tail % 4 = 0

(* Indices that are multiples of four meet none of the other four cases.    *)
LEMMA LinedBounds ==
  ASSUME TypeOK, Aligned, Lined, NEW s \in Sizes
  PROVE  /\ s < 256 /\ head + 2 + s < 65536
         /\ tail # head + 2 /\ head + 2 + s # Size - 1
<1>1. s \in Nat
  BY SizeMembers
<1>2. head \in Nat
  BY AddrMembers DEF TypeOK
<1>3. tail \in Nat
  BY AddrMembers DEF TypeOK
<1>4. head < Size /\ Size \in Nat
  BY AddrMembers DEF TypeOK
<1>5. (s + 2) % 4 = 0 /\ s < 256
  BY DEF Aligned, SizeofPos, ByteRange
<1>6. Size % 4 # 1 /\ Size + 256 < 65536
  BY DEF Aligned, ByteRange, PosRange
<1>7. head + 2 + s < 65536
  BY <1>1, <1>2, <1>4, <1>5, <1>6
<1>8. tail # head + 2
  BY <1>2, <1>3 DEF Lined
<1>9. (head + 2 + s) % 4 = 0
  BY <1>1, <1>2, <1>5 DEF Lined
<1>10. head + 2 + s # Size - 1
  BY <1>1, <1>2, <1>4, <1>6, <1>9
<1> QED
  BY <1>5, <1>7, <1>8, <1>10

(* An element ringFree has room for that ends at the end of the buffer fits *)
(* in front of the tail or is an exact fit.                                 *)
LEMMA EndIsFront ==
  ASSUME TypeOK, NEW s \in Sizes, s <= ringFree(head, tail), ~ExactFit(s),
         head + 2 + s = Size, tail # head + 2
  PROVE  s + 3 <= tail
<1>1. s \in Nat /\ s > 0
  BY SizeMembers
<1>2. head \in Nat /\ head < Size /\ tail \in Nat /\ tail < Size /\ Size \in Nat
      /\ Size < 65536
  BY AddrMembers DEF TypeOK
<1>3. tail <= head
  <2> SUFFICES ASSUME tail > head PROVE FALSE
    BY <1>2
  <2>1. ringFree(head, tail) = FreeGap(head, tail)
    BY <1>2 DEF ringFree
  <2>2. FreeGap(head, tail)
          = IF tail >= head + 2 THEN (tail - head - 3) % 65536 ELSE 0
    BY <1>2 DEF FreeGap, SizeofPos, PosRange
  <2>3. tail >= head + 2 /\ s <= (tail - head - 3) % 65536
    BY <1>1, <1>2, <2>1, <2>2
  <2>4. PICK gap : gap = tail - head - 3
    OBVIOUS
  <2>5. gap \in Int /\ 0 <= gap /\ gap < 65536
    BY <1>2, <2>3, <2>4
  <2>6. gap % 65536 = gap
    BY <2>5
  <2> QED
    BY <1>1, <1>2, <2>3, <2>4, <2>6
<1>4. tail # 0
  <2> SUFFICES ASSUME tail = 0 PROVE FALSE
    OBVIOUS
  <2>1. FreeBack(head, tail) = IF head + 2 <= Size - 1 THEN Size - 3 - head ELSE 0
    BY <1>2 DEF FreeBack, SizeofPos
  <2>2. FreeFront(tail) = 0
    BY DEF FreeFront, SizeofPos
  <2>3. ringFree(head, tail) = Larger(FreeBack(head, tail), FreeFront(tail))
    BY <1>3 DEF ringFree
  <2> QED
    BY <1>1, <1>2, <2>1, <2>2, <2>3 DEF Larger
<1> QED
  BY <1>1, <1>2, <1>3, <1>4 DEF ExactFit, SizeofPos

(* So a push that is not an exact fit is clear of all five.                 *)
LEMMA LinedIsClear ==
  ASSUME TypeOK, Aligned, Lined, NEW s \in Sizes,
         s <= ringFree(head, tail), ~ExactFit(s)
  PROVE  Clear(s)
<1>1. s < 256 /\ head + 2 + s < 65536 /\ tail # head + 2 /\ head + 2 + s # Size - 1
  BY LinedBounds
<1>2. head + 2 + s = Size => s + 3 <= tail
  BY <1>1, EndIsFront
<1>3. s \in Nat /\ tail \in Nat
  BY SizeMembers, AddrMembers DEF TypeOK
<1>4. head + 2 + s = Size => s + 2 + 1 <= tail
  BY <1>2, <1>3
<1> QED
  BY <1>1, <1>4 DEF Clear, SizeofPos, PosRange, ByteRange

(* A push moves the head by a multiple of four, or to one from the front.   *)
LEMMA LinedPush ==
  ASSUME TypeOK, Aligned, Lined, NEW s \in Sizes, NEW t \in Tags, ringPush(s, t)
  PROVE  Lined'
<1>1. s \in Nat
  BY SizeMembers
<1>2. head \in Nat
  BY AddrMembers DEF TypeOK
<1>3. (s + 2) % 4 = 0
  BY DEF Aligned, SizeofPos
<1>4. head + 2 + s < 65536
  BY LinedBounds
<1>5. (2 + s) % 4 = 0 /\ (head + 2 + s) % 4 = 0
  BY <1>1, <1>2, <1>3 DEF Lined
<1>6. newHead(s) = head + 2 + s
  BY <1>1, <1>2, <1>4 DEF newHead, SizeofPos, PosRange
<1>7. tail' = tail /\ head' \in {head, head + 2 + s, 2 + s}
  BY <1>6 DEF ringPush, PushRejected, PushBack, PushWrap, ring, SizeofPos
<1> QED
  BY <1>5, <1>7 DEF Lined

(* The main loop moves the tail to the front or past the oldest message.    *)
LEMMA LinedConsumer ==
  ASSUME IInv, Aligned, Lined, Consumer
  PROVE  Lined'
<1>1. CASE PopAdvance
  <2>1. TypeOK /\ LayoutInv /\ queue # <<>> /\ tail = queue[1].at /\ size = queue[1].size
    BY <1>1 DEF IInv, PopAdvance, CallInv
  <2>2. tail \in Nat /\ size \in Nat /\ tail + 2 + size < 65536 /\ size \in Sizes
    BY <2>1, OldestFacts, SizeFacts DEF Frame
  <2>3. tail \in Nat
    BY <2>2
  <2>4. size \in Nat
    BY <2>2
  <2>5. (size + 2) % 4 = 0
    BY <2>2 DEF Aligned, SizeofPos
  <2>6. tail' = tail + 2 + size /\ head' = head
    BY <1>1, <2>2 DEF PopAdvance, SizeofPos, PosRange
  <2> QED
    BY <2>3, <2>4, <2>5, <2>6 DEF Lined
<1>2. CASE ~PopAdvance
  <2>1. head' = head /\ tail' \in {0, tail}
    BY <1>2 DEF Consumer, ringPeek, ringPop, ringOverflowed, PeekEmpty, PeekCheck,
                PeekLoad, PeekWrap, PopEmpty, PopCheck, PopLoad, PopWrap, PopCopy,
                OverflowRead, OverflowClear, ring
  <2>2. 0 % 4 = 0
    OBVIOUS
  <2>3. tail % 4 = 0 /\ head % 4 = 0
    BY DEF Lined
  <2>4. tail' % 4 = 0
    BY <2>1, <2>2, <2>3
  <2> QED
    BY <2>1, <2>3, <2>4 DEF Lined
<1> QED
  BY <1>1, <1>2

(* The initial states and the steps of the code up to an exact fit.         *)
LEMMA AlignedInvariant == Aligned /\ FitSpec => [](IInv /\ Lined)
<1>1. Init => IInv /\ Lined
  BY InitInv DEF Init, Lined
<1>2. Aligned /\ (IInv /\ Lined) /\ [FitNext]_vars => (IInv /\ Lined)'
  <2> SUFFICES ASSUME Aligned, IInv, Lined, [FitNext]_vars
               PROVE  IInv' /\ Lined'
    OBVIOUS
  <2>1. TypeOK
    BY DEF IInv
  <2>2. CASE Consumer
    BY <2>2, SafeStep, LinedConsumer DEF SafeNext
  <2>3. ASSUME NEW s \in Sizes, NEW t \in Tags, ~ExactFit(s), ringPush(s, t)
        PROVE  IInv' /\ Lined'
    <3>1. Lined'
      BY <2>1, <2>3, LinedPush
    <3>2. ASSUME PushRejected(s) PROVE SafeNext
      BY <3>2 DEF SafeNext
    <3>3. ASSUME PushBack(s, t) \/ PushWrap(s, t) PROVE SafeNext
      <4>1. s <= ringFree(head, tail)
        BY <3>3 DEF PushBack, PushWrap
      <4>2. Clear(s)
        BY <2>1, <2>3, <4>1, LinedIsClear
      <4> QED
        BY <3>3, <4>2 DEF SafeNext
    <3>4. SafeNext
      BY <2>3, <3>2, <3>3 DEF ringPush
    <3> QED
      BY <3>1, <3>4, SafeStep
  <2>4. CASE UNCHANGED vars
    BY <2>4, StutterInv DEF Lined, vars
  <2> QED
    BY <2>2, <2>3, <2>4 DEF FitNext
<1>3. Aligned => []Aligned
  <2>1. Aligned => Aligned'
    BY DEF Aligned
  <2> QED
    BY <2>1, PTL
<1> QED
  BY <1>1, <1>2, <1>3, PTL DEF FitSpec

(* With the messages of amr.c, in its own 512 bytes or any other aligned    *)
(* ring, the exact fit is the only thing that goes wrong: up to the first   *)
(* one, whatever the interrupt handler pushes and wherever it interrupts    *)
(* the main loop, every accepted message stays intact and findable, what    *)
(* the main loop has read holds when it is used, and a peeked pointer is    *)
(* good until the pop.                                                      *)
THEOREM AlignedSafe ==
  Aligned /\ FitSpec => []TypeOK /\ []LayoutInv /\ []CallInv /\ []ViewStable
<1>1. IInv => TypeOK /\ LayoutInv /\ CallInv /\ ViewStable
  BY DEF IInv
<1> QED
  BY <1>1, AlignedInvariant, PTL

-----------------------------------------------------------------------------
(* The overflow count, with no condition at all.                            *)

OverflowTypes ==
  /\ overflow \in Nat /\ cnt \in Nat /\ unreported \in Nat
  /\ pc # "overflowClear" \/ cnt <= unreported
  /\ overflow <= unreported

(* The one-byte count of drops never exceeds the drops that happened and    *)
(* were not reported, whatever buffer, messages and interleaving: a report  *)
(* may lose drops but never invents one.                                    *)
THEOREM OverflowReports == Spec => []ReportsAreReal
<1>1. Init => OverflowTypes
  BY DEF Init, OverflowTypes
<1>2. OverflowTypes /\ [Next]_vars => OverflowTypes'
  <2> SUFFICES ASSUME OverflowTypes, [Next]_vars PROVE OverflowTypes'
    OBVIOUS
  <2>1. overflow \in Nat
    BY DEF OverflowTypes
  <2>2. unreported \in Nat
    BY DEF OverflowTypes
  <2>3. cnt \in Nat
    BY DEF OverflowTypes
  <2>4. ASSUME NEW s \in Sizes, PushRejected(s) PROVE OverflowTypes'
    <3>1. overflow' = (overflow + 1) % 256 /\ unreported' = unreported + 1
          /\ cnt' = cnt /\ pc' = pc
      BY <2>4 DEF PushRejected, ByteRange, locals
    <3>2. overflow' \in Nat /\ overflow' <= overflow + 1
      BY <2>1, <3>1
    <3> QED
      BY <2>1, <2>2, <2>3, <3>1, <3>2 DEF OverflowTypes
  <2>5. ASSUME NEW s \in Sizes, NEW t \in Tags, PushBack(s, t) \/ PushWrap(s, t)
        PROVE  OverflowTypes'
    BY <2>5 DEF PushBack, PushWrap, OverflowTypes, locals
  <2>6. CASE OverflowRead
    BY <2>6 DEF OverflowRead, OverflowTypes, history
  <2>7. CASE OverflowClear
    BY <2>1, <2>2, <2>3, <2>7 DEF OverflowClear, OverflowTypes
  <2>8. CASE ringPeek
    BY <2>8 DEF ringPeek, PeekEmpty, PeekCheck, PeekLoad, PeekWrap, OverflowTypes,
                locals, history
  <2>9. CASE ringPop
    BY <2>9 DEF ringPop, PopEmpty, PopCheck, PopLoad, PopWrap, PopCopy, PopAdvance,
                OverflowTypes, locals, history
  <2>10. CASE UNCHANGED vars
    BY <2>10 DEF vars, OverflowTypes
  <2> QED
    BY <2>4, <2>5, <2>6, <2>7, <2>8, <2>9, <2>10
       DEF Next, Consumer, ringPush, ringOverflowed
<1>3. OverflowTypes => ReportsAreReal
  BY DEF OverflowTypes, ReportsAreReal
<1> QED
  BY <1>1, <1>2, <1>3, PTL DEF Spec

=============================================================================
