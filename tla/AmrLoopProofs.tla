--------------------------- MODULE AmrLoopProofs ---------------------------
(***************************************************************************)
(* Proofs about AmrLoop for every buffer length, header, set of messages   *)
(* and set of valid ones.                                                  *)
(*                                                                         *)
(* The loop writes into the ring and amrInit replaces it field by field,   *)
(* so the ring of AmrLoop is not one of RingBuf.  It is one when seen with *)
(* the oldest message as it was before the shift and, once the head has    *)
(* been assigned, with the tail that will be: what RingBufProofs shows of  *)
(* every step is used for the ring seen so.                                *)
(***************************************************************************)
EXTENDS AmrLoop, RingBufProofs

-----------------------------------------------------------------------------
(* The ring seen as one of RingBuf.                                        *)

(* amrProcessMsgs uses the pointer of ringPeek. *)
Reading == loop \in {"shift", "parse", "pop"}

(* amrInit has begun to replace the ring, and the old head is still there. *)
Renewing == loop = "initRing" /\ "head" \in fields

Unshifted ==
  [a \in Addr |->
     IF Reading /\ queue[1].at + SizeofPos <= a /\ a < End(queue[1])
       THEN queue[1].tag ELSE data[a]]

TailToBe == IF loop = "initRing" THEN 0 ELSE tail

Seen == INSTANCE RingBufProofs
          WITH data <- Unshifted, tail <- TailToBe, OutSizes <- {0}

(* The operators of the memory are the same there.                         *)
LEMMA SameOperators ==
  /\ Seen!Addr = Addr /\ Seen!Byte = Byte /\ Seen!Pos = Pos /\ Seen!Frame = Frame
  /\ \A h, t : Seen!ringFree(h, t) = ringFree(h, t)
  /\ \A f : Seen!End(f) = End(f)
  /\ \A mem, f : Seen!Stored(mem, f) <=> Stored(mem, f)
  /\ \A mem, p, f : Seen!FoundFrom(mem, p, f) <=> FoundFrom(mem, p, f)
  /\ \A mem, p : Seen!SizesAt(mem, p) = SizesAt(mem, p)
  /\ \A mem, p, n, t : Seen!PutElement(mem, p, n, t) = PutElement(mem, p, n, t)
  /\ \A mem, p : Seen!PutMarker(mem, p) = PutMarker(mem, p)
  /\ \A s : Seen!newHead(s) = newHead(s)
<1>1. /\ Seen!ByteRange = ByteRange /\ Seen!PosRange = PosRange
      /\ Seen!SizeofPos = SizeofPos
  BY DEF Seen!ByteRange, ByteRange, Seen!PosRange, PosRange, Seen!SizeofPos, SizeofPos
<1>2. Seen!Addr = Addr /\ Seen!Byte = Byte /\ Seen!Pos = Pos
  BY <1>1 DEF Seen!Addr, Addr, Seen!Byte, Byte, Seen!Pos, Pos
<1>3. Seen!Frame = Frame
  BY <1>2 DEF Seen!Frame, Frame
<1>4. \A h, t : Seen!ringFree(h, t) = ringFree(h, t)
  BY <1>1 DEF Seen!ringFree, ringFree, Seen!FreeBack, FreeBack, Seen!FreeFront, FreeFront,
              Seen!FreeGap, FreeGap, Seen!Larger, Larger
<1>5. \A f : Seen!End(f) = End(f)
  BY <1>1 DEF Seen!End, End
<1>6. \A mem, f : Seen!Stored(mem, f) <=> Stored(mem, f)
  BY <1>1, <1>2, <1>5 DEF Seen!Stored, Stored
<1>7. \A mem, p, f : Seen!FoundFrom(mem, p, f) <=> FoundFrom(mem, p, f)
  BY <1>1, <1>2 DEF Seen!FoundFrom, FoundFrom, Seen!Marker, Marker
<1>8. \A mem, p : Seen!SizesAt(mem, p) = SizesAt(mem, p)
  <2>1. \A mem, a : Seen!BytesAt(mem, a) = BytesAt(mem, a)
    BY <1>2 DEF Seen!BytesAt, BytesAt
  <2> QED
    BY <1>1, <2>1 DEF Seen!SizesAt, SizesAt
<1>9. \A mem, p, n : Seen!PutSize(mem, p, n) = PutSize(mem, p, n)
  BY <1>1 DEF Seen!PutSize, PutSize
<1>10. \A mem, p, n, t : Seen!PutElement(mem, p, n, t) = PutElement(mem, p, n, t)
  BY <1>1, <1>2, <1>9 DEF Seen!PutElement, PutElement
<1>11. \A mem, p : Seen!PutMarker(mem, p) = PutMarker(mem, p)
  BY <1>1, <1>9 DEF Seen!PutMarker, PutMarker
<1>12. \A s : Seen!newHead(s) = newHead(s)
  BY <1>1 DEF Seen!newHead, newHead
<1> QED
  BY <1>2, <1>3, <1>4, <1>5, <1>6, <1>7, <1>8, <1>10, <1>11, <1>12

-----------------------------------------------------------------------------
(* The inductive invariant.                                                *)

(* How many bytes of the message proper are straight. *)
Done == IF loop = "shift" THEN byteAt ELSE queue[1].size - HdrSize - 1

(* Which call of the ring the loop can be in. *)
PlaceInv ==
  /\ loop = "peek" => pc \in {"ready", "peekLoad", "peekWrap"}
  /\ loop = "pop" => pc \in {"ready", "popLoad", "popWrap", "popCopy", "popAdvance"}
  /\ loop \notin {"peek", "pop"} => pc = "ready"
  /\ Reading => view.size > HdrSize
  /\ loop # "pop" => calls = 0

(* The bytes of the message being shifted, up to byteAt and beyond. *)
ShiftInv ==
  loop \in {"shift", "parse"} =>
    \A k \in 0..(queue[1].size - 1) :
      data[queue[1].at + 2 + k] =
        IF HdrSize <= k /\ k < HdrSize + Done THEN Straight(queue[1].tag)
                                              ELSE queue[1].tag

(* amrInit while it replaces the ring: once the head is assigned no push   *)
(* reaches the old tail, if that is not 0 anyway. *)
RenewInv ==
  loop = "initRing" =>
    /\ view = NoView /\ bytes = {} /\ want = 0 /\ overflow <= unreported
    /\ "tail" \notin fields => tail = 0
    /\ "head" \notin fields => tail = 0 \/ head < tail

LoopInv ==
  /\ LoopTypeOK /\ Lined
  /\ PlaceInv /\ ShiftInv /\ RenewInv /\ ParsedRight
  /\ ~Renewing => Seen!IInv

(* The assumptions of RingBuf hold of the ring seen so: the loop passes     *)
(* ringPop the length 0 only.                                              *)
LEMMA SeenSuits ==
  /\ Size \in Nat /\ Seen!SizeofPos < Size /\ Size < Seen!PosRange
  /\ Sizes \subseteq Seen!Pos \ {0} /\ Tags \subseteq Seen!Byte
  /\ {0} \subseteq Seen!Pos /\ MaxRejects \in Nat
<1>1. Seen!SizeofPos = SizeofPos /\ Seen!PosRange = PosRange
  BY DEF Seen!SizeofPos, SizeofPos, Seen!PosRange, PosRange
<1>2. Sizes \subseteq Seen!Pos \ {0} /\ Tags \subseteq Seen!Byte
  BY SameOperators, SizesAssumption, TagsAssumption
<1>3. {0} \subseteq Seen!Pos
  BY SameOperators, PosMembers
<1> QED
  BY <1>1, <1>2, <1>3, SizeAssumption, MaxRejectsAssumption

(* What is read outside the shift is what is stored.                       *)
LEMMA SeenAsIs == TypeOK /\ ~Reading => Unshifted = data
  BY DEF TypeOK, Unshifted

(* The header and its bit offset are bytes of the message.                 *)
LEMMA HdrNat == HdrSize \in Nat /\ HdrSize > 0
  BY HdrAssumption

(* The message amrProcessMsgs is at is the oldest one, it starts at the    *)
(* tail, and only its payload is not as it was pushed.                     *)
LEMMA OldestHeld ==
  ASSUME LoopInv, Reading
  PROVE  /\ Seen!TypeOK /\ Seen!LayoutInv /\ Seen!CallInv /\ Seen!ViewStable
         /\ queue # <<>> /\ queue[1] \in Frame
         /\ queue[1].at \in Nat /\ queue[1].size \in Nat /\ queue[1].size > HdrSize
         /\ queue[1].size < 65536
         /\ End(queue[1]) = queue[1].at + 2 + queue[1].size /\ End(queue[1]) < Size
         /\ tail = queue[1].at /\ TailToBe = tail
         /\ view = [at |-> queue[1].at, size |-> queue[1].size]
         /\ Unshifted \in [Addr -> Byte]
         /\ Stored(Unshifted, queue[1])
         /\ \A a \in Addr : a < tail + 2 \/ a >= End(queue[1]) => Unshifted[a] = data[a]
<1>1. Seen!IInv /\ ~Renewing /\ loop # "initRing" /\ TailToBe = tail
  BY DEF LoopInv, Reading, Renewing, TailToBe
<1>2. Seen!TypeOK /\ Seen!LayoutInv /\ Seen!CallInv /\ Seen!ViewStable
  BY <1>1 DEF Seen!IInv
<1>3. view.size > HdrSize /\ view.size \in Nat
  BY <1>2, PosMembers, SameOperators DEF LoopInv, PlaceInv, Seen!TypeOK
<1>4. /\ queue # <<>> /\ TailToBe = view.at
      /\ view = [at |-> queue[1].at, size |-> queue[1].size]
  BY <1>2, <1>3, HdrNat DEF Seen!ViewStable
<1>5. /\ queue[1] \in Seen!Frame
      /\ queue[1].at \in Nat /\ queue[1].at < Size
      /\ queue[1].size \in Nat /\ queue[1].size > 0 /\ queue[1].size < 65536
      /\ Seen!End(queue[1]) = queue[1].at + 2 + queue[1].size
      /\ Seen!End(queue[1]) < Size
      /\ Seen!Stored(Unshifted, queue[1])
  <2>1. Seen!TypeOK /\ Seen!LayoutInv /\ queue # <<>>
    BY <1>2, <1>4
  <2> QED
    BY <2>1, SeenSuits, Seen!OldestFacts
<1>6. queue[1].size > HdrSize /\ tail = queue[1].at
  BY <1>1, <1>3, <1>4
<1>7. Unshifted \in [Addr -> Byte]
  BY <1>2, SameOperators DEF Seen!TypeOK
<1>8. \A a \in Addr : a < tail + 2 \/ a >= End(queue[1]) => Unshifted[a] = data[a]
  <2> SUFFICES ASSUME NEW a \in Addr, a < tail + 2 \/ a >= End(queue[1])
               PROVE  Unshifted[a] = data[a]
    OBVIOUS
  <2>1. a \in Nat
    BY AddrMembers
  <2>2. tail \in Nat
    BY <1>5, <1>6
  <2>3. End(queue[1]) \in Nat
    BY <1>5, SameOperators
  <2>4. ~(tail + 2 <= a /\ a < End(queue[1]))
    BY <2>1, <2>2, <2>3
  <2>5. ~(queue[1].at + SizeofPos <= a /\ a < End(queue[1]))
    BY <2>4, <1>6 DEF SizeofPos
  <2> QED
    BY <2>5 DEF Unshifted
<1> QED
  BY <1>1, <1>2, <1>4, <1>5, <1>6, <1>7, <1>8, SameOperators

(* Shifting the oldest message in place, while the handler pushes, leaves  *)
(* all the others, the markers between them and its own size field alone.  *)
LEMMA LoopIntact == LoopInv => OthersIntact
<1> SUFFICES ASSUME LoopInv, loop # "initRing" PROVE
      /\ FramesLinked /\ FramesOrdered
      /\ \A k \in 2..Len(queue) : Stored(data, queue[k])
      /\ queue # <<>> => queue[1].size \in SizesAt(data, queue[1].at)
  BY DEF OthersIntact
<1>1. Seen!IInv /\ TailToBe = tail /\ TypeOK
  BY DEF LoopInv, Renewing, TailToBe, LoopTypeOK
<1>2. Seen!TypeOK /\ Seen!LayoutInv
  BY <1>1 DEF Seen!IInv
<1>3. FramesOrdered
  <2>1. Seen!FramesOrdered
    BY <1>2 DEF Seen!LayoutInv
  <2>2. \A t, a : Seen!Unrolled(t, a) = Unrolled(t, a)
    BY DEF Seen!Unrolled, Unrolled
  <2> QED
    BY <2>1, <2>2, <1>1 DEF Seen!FramesOrdered, FramesOrdered, Seen!SizeofPos, SizeofPos
<1>4. /\ queue = <<>> => head = tail
      /\ queue # <<>> =>
           FoundFrom(Unshifted, tail, queue[1]) /\ End(queue[Len(queue)]) = head
      /\ \A i \in 1..(Len(queue) - 1) :
           FoundFrom(Unshifted, End(queue[i]), queue[i + 1])
  BY <1>1, <1>2, SameOperators DEF Seen!LayoutInv, Seen!FramesLinked
<1>5. \A k \in 1..Len(queue) : Stored(Unshifted, queue[k])
  BY <1>2, SameOperators DEF Seen!LayoutInv, Seen!FramesStored
<1>6. /\ queue # <<>> => FoundFrom(data, tail, queue[1])
      /\ \A i \in 1..(Len(queue) - 1) : FoundFrom(data, End(queue[i]), queue[i + 1])
      /\ \A k \in 2..Len(queue) : Stored(data, queue[k])
  <2>1. CASE Reading
    <3>1. queue # <<>> /\ tail = queue[1].at
      BY <2>1, OldestHeld
    <3>2. \A a \in Addr : a < TailToBe + 2 \/ a >= Seen!End(queue[1])
                            => data[a] = Unshifted[a]
      BY <2>1, <1>1, OldestHeld, SameOperators
    <3>3. PICK mem : mem = data
      OBVIOUS
    <3>4. /\ \A i \in 2..Len(queue) : Seen!Stored(mem, queue[i])
          /\ \A i \in 1..(Len(queue) - 1) :
               Seen!FoundFrom(mem, Seen!End(queue[i]), queue[i + 1])
      BY <3>1, <3>2, <3>3, <1>1, <1>2, SeenSuits, SameOperators, Seen!OthersStored
    <3>5. FoundFrom(data, tail, queue[1])
      BY <3>1 DEF FoundFrom
    <3> QED
      BY <3>3, <3>4, <3>5, SameOperators
  <2>2. CASE ~Reading
    <3>1. Unshifted = data
      BY <2>2, <1>1, SeenAsIs
    <3>2. Len(queue) \in Nat
      BY <1>1, FrameFacts
    <3>3. \A k \in 2..Len(queue) : k \in 1..Len(queue)
      BY <3>2
    <3> QED
      BY <3>1, <3>3, <1>4, <1>5
  <2> QED
    BY <2>1, <2>2
<1>7. FramesLinked
  BY <1>4, <1>6 DEF FramesLinked
<1>8. ASSUME queue # <<>> PROVE queue[1].size \in SizesAt(data, queue[1].at)
  <2>1. /\ queue[1].at \in Nat /\ queue[1].size \in Nat /\ queue[1].size < 65536
        /\ queue[1].size > 0
        /\ Seen!End(queue[1]) = queue[1].at + 2 + queue[1].size
        /\ Seen!End(queue[1]) < Size
        /\ Seen!Stored(Unshifted, queue[1])
    BY <1>2, <1>8, SeenSuits, Seen!OldestFacts
  <2>2. PICK p, n : p = queue[1].at /\ n = queue[1].size
    OBVIOUS
  <2>3. p \in Nat /\ n \in Nat /\ n < 65536 /\ p \in Addr /\ p + 1 \in Addr
    BY <2>1, <2>2, AddrMembers
  <2>4. Unshifted[p] = n % ByteRange /\ Unshifted[p + 1] = n \div ByteRange
    BY <2>1, <2>2, SameOperators DEF Stored
  <2>5. data[p] = Unshifted[p] /\ data[p + 1] = Unshifted[p + 1]
    <3>1. CASE Reading
      <4>1. tail = p /\ \A a \in Addr : a < tail + 2 => Unshifted[a] = data[a]
        BY <3>1, <2>2, OldestHeld
      <4> QED
        BY <4>1, <2>3
    <3>2. CASE ~Reading
      BY <3>2, <1>1, SeenAsIs
    <3> QED
      BY <3>1, <3>2
  <2>6. data \in [Addr -> Byte]
    BY <1>1 DEF TypeOK
  <2>7. n \in SizesAt(data, p)
    BY <2>3, <2>4, <2>5, <2>6, SizeRead
  <2> QED
    BY <2>2, <2>7
<1> QED
  BY <1>3, <1>6, <1>7, <1>8

(* A byte of an intact message, shifted and filled from the next, is eight  *)
(* bits of the tag from its bit offset on.                                 *)
LEMMA ShiftedIsStraight ==
  ASSUME NEW t \in Byte
  PROVE  /\ Straight(t) \in Byte
         /\ Shifted(t, t, bitOffset(t)) = Straight(t)
         /\ bitOffset(t) = 0 => Straight(t) = t
<1>1. t \in Nat /\ t < 256
  BY ByteMembers
<1>2. t % 8 \in {0, 1, 2, 3, 4, 5, 6, 7}
  BY <1>1
<1> DEFINE S(n) == ((t * 256 + t) \div 2^(8 - n)) % 256
           D(n) == ((t * 2^n) % 256) + (t \div 2^(8 - n))
<1>3. /\ 2^0 = 1 /\ 2^1 = 2 /\ 2^2 = 4 /\ 2^3 = 8 /\ 2^4 = 16 /\ 2^5 = 32
      /\ 2^6 = 64 /\ 2^7 = 128 /\ 2^8 = 256
  OBVIOUS
<1>4. Straight(t) = S(t % 8) /\ Shifted(t, t, bitOffset(t)) = D(t % 8)
  BY DEF Straight, Shifted, bitOffset, ByteRange
<1>5. S(0) = t /\ D(0) = t
  <2>1. S(0) = ((t * 256 + t) \div 256) % 256 /\ D(0) = ((t * 1) % 256) + (t \div 256)
    BY <1>3
  <2> QED
    BY <2>1, <1>1
<1>6. S(1) = D(1)
  <2>1. S(1) = ((t * 256 + t) \div 128) % 256 /\ D(1) = ((t * 2) % 256) + (t \div 128)
    BY <1>3
  <2> QED
    BY <2>1, <1>1
<1>7. S(2) = D(2)
  <2>1. S(2) = ((t * 256 + t) \div 64) % 256 /\ D(2) = ((t * 4) % 256) + (t \div 64)
    BY <1>3
  <2> QED
    BY <2>1, <1>1
<1>8. S(3) = D(3)
  <2>1. S(3) = ((t * 256 + t) \div 32) % 256 /\ D(3) = ((t * 8) % 256) + (t \div 32)
    BY <1>3
  <2> QED
    BY <2>1, <1>1
<1>9. S(4) = D(4)
  <2>1. S(4) = ((t * 256 + t) \div 16) % 256 /\ D(4) = ((t * 16) % 256) + (t \div 16)
    BY <1>3
  <2> QED
    BY <2>1, <1>1
<1>10. S(5) = D(5)
  <2>1. S(5) = ((t * 256 + t) \div 8) % 256 /\ D(5) = ((t * 32) % 256) + (t \div 8)
    BY <1>3
  <2> QED
    BY <2>1, <1>1
<1>11. S(6) = D(6)
  <2>1. S(6) = ((t * 256 + t) \div 4) % 256 /\ D(6) = ((t * 64) % 256) + (t \div 4)
    BY <1>3
  <2> QED
    BY <2>1, <1>1
<1>12. S(7) = D(7)
  <2>1. S(7) = ((t * 256 + t) \div 2) % 256 /\ D(7) = ((t * 128) % 256) + (t \div 2)
    BY <1>3
  <2> QED
    BY <2>1, <1>1
<1>13. \A n \in {0, 1, 2, 3, 4, 5, 6, 7} : S(n) \in Nat /\ S(n) < 256
  BY <1>1, <1>3
<1> HIDE DEF S, D
<1>14. S(t % 8) = D(t % 8)
  BY <1>2, <1>5, <1>6, <1>7, <1>8, <1>9, <1>10, <1>11, <1>12
<1>15. bitOffset(t) = 0 => Straight(t) = t
  BY <1>4, <1>5 DEF bitOffset
<1>16. S(t % 8) \in Byte
  BY <1>2, <1>13, ByteMembers
<1> QED
  BY <1>4, <1>14, <1>15, <1>16

(* A payload is stored as its tag, byte by byte.                           *)
LEMMA PayloadBytes ==
  ASSUME NEW mem, NEW f \in Frame, End(f) < Size, Stored(mem, f),
         NEW k \in 0..(f.size - 1)
  PROVE  f.at + 2 + k \in Addr /\ mem[f.at + 2 + k] = f.tag
<1>1. PICK p, n : p = f.at /\ n = f.size
  OBVIOUS
<1>2. p \in Nat /\ n \in Nat /\ End(f) = p + 2 + n
  BY <1>1, AddrMembers, SizeMembers DEF Frame, End, SizeofPos
<1>3. k \in Nat /\ k < n
  BY <1>1, <1>2
<1>4. PICK a : a = p + 2 + k
  OBVIOUS
<1>5. a \in Addr /\ p + 2 <= a /\ a < End(f)
  BY <1>2, <1>3, <1>4, AddrMembers
<1>6. mem[a] = f.tag
  BY <1>1, <1>5 DEF Stored, SizeofPos
<1> QED
  BY <1>1, <1>4, <1>5, <1>6

(* The types of the ring are those of the ring seen so, but for the bytes  *)
(* and the tail.                                                           *)
LEMMA SeenTypes ==
  Seen!TypeOK /\ data \in [Addr -> Byte] /\ tail \in Addr => TypeOK
  BY SameOperators
     DEF Seen!TypeOK, TypeOK, Seen!CallStates, CallStates

(* A step that leaves the ring as it is seen.                              *)
LEMMA SeenUnchanged ==
  ASSUME Seen!IInv, Unshifted' = Unshifted, TailToBe' = TailToBe,
         UNCHANGED <<head, overflow, pc, locals, view, out, history>>
  PROVE  Seen!IInv'
<1>1. UNCHANGED Seen!vars
  BY DEF Seen!vars, locals, history
<1> QED
  BY <1>1, SeenSuits, Seen!StutterInv

(* amrProcessMsgs peeks: nothing moves but the tail, to the front, and     *)
(* when it goes on to a message, that is the oldest one, as it was pushed. *)
LEMMA PeekStep ==
  ASSUME LoopInv, Peek, UNCHANGED app
  PROVE  LoopInv'
<1>1. /\ loop = "peek" /\ ringPeek
      /\ loop' = IF pc' = "ready" /\ out'.len > HdrSize
                   THEN IF bitOffset(data[msgData' - 1]) # 0 THEN "shift" ELSE "parse"
                   ELSE "peek"
      /\ byteAt' = byteAt /\ parsed' = parsed /\ calls' = calls
      /\ intr' = intr /\ fields' = fields
  BY DEF Peek, app
<1>2. /\ Seen!IInv /\ TailToBe = tail /\ Unshifted = data
      /\ TypeOK /\ Lined /\ LoopTypeOK /\ PlaceInv
  BY <1>1, SeenAsIs DEF LoopInv, Renewing, Reading, TailToBe, LoopTypeOK
<1>3. Seen!TypeOK /\ Seen!LayoutInv /\ Seen!CallInv
  BY <1>2 DEF Seen!IInv
<1>4. /\ data' = data /\ head' = head /\ overflow' = overflow
      /\ queue' = queue /\ unreported' = unreported
      /\ size' = size /\ want' = want /\ bytes' = bytes /\ cnt' = cnt
      /\ tail' \in {0, tail} /\ pc' \in {"ready", "peekLoad", "peekWrap"}
  BY <1>1, <1>2 DEF ringPeek, PeekEmpty, PeekCheck, PeekLoad, PeekWrap, ring, locals,
                    history, PlaceInv
<1>5. loop' # "peek" => pc' = "ready" /\ queue # <<>> /\ out'.len = view'.size
                        /\ out'.len > HdrSize
  <2>1. loop' # "peek" => pc' = "ready" /\ out'.len > HdrSize
    BY <1>1
  <2>2. CASE PeekEmpty
    <3>1. out'.len = 0
      BY <2>2 DEF PeekEmpty, Result
    <3> QED
      BY <2>1, <3>1, HdrNat
  <2>3. CASE PeekCheck
    BY <2>1, <2>3 DEF PeekCheck
  <2>4. CASE PeekLoad
    <3>1. queue # <<>>
      BY <2>4, <1>3 DEF PeekLoad, Seen!CallInv
    <3>2. pc' = "ready" => out'.len = view'.size
      BY <2>4 DEF PeekLoad, Result
    <3> QED
      BY <2>1, <3>1, <3>2
  <2>5. CASE PeekWrap
    BY <2>1, <2>5, <1>3 DEF PeekWrap, Result, Seen!CallInv
  <2> QED
    BY <1>1, <2>2, <2>3, <2>4, <2>5 DEF ringPeek
<1>6. queue # <<>> =>
        /\ queue[1] \in Frame /\ End(queue[1]) < Size /\ Stored(data, queue[1])
        /\ queue[1].at \in Nat /\ queue[1].size \in Nat
  BY <1>2, <1>3, SeenSuits, SameOperators, Seen!OldestFacts
<1>7. Unshifted' = data
  <2>1. CASE loop' = "peek"
    BY <2>1, <1>2, <1>4 DEF Unshifted, Reading, TypeOK
  <2>2. CASE loop' # "peek"
    <3>1. \A a \in Addr : queue[1].at + SizeofPos <= a /\ a < End(queue[1])
                            => data[a] = queue[1].tag
      BY <2>2, <1>5, <1>6 DEF Stored
    <3>2. Unshifted' = [a \in Addr |-> data[a]]
      BY <3>1, <1>4 DEF Unshifted
    <3> QED
      BY <3>2, <1>2 DEF TypeOK
  <2> QED
    BY <2>1, <2>2
<1>8. TailToBe' = tail'
  BY <1>1 DEF TailToBe
<1>9. Seen!ringPeek
  <2>1. CASE PeekEmpty
    <3>1. Seen!PeekEmpty
      BY <2>1, <1>2, <1>4, <1>7, <1>8
         DEF PeekEmpty, Seen!PeekEmpty, IsEmpty, Seen!IsEmpty, Result, Seen!Result,
             ring, Seen!ring, locals, Seen!locals, history, Seen!history
    <3> QED
      BY <3>1 DEF Seen!ringPeek
  <2>2. CASE PeekCheck
    <3>1. Seen!PeekCheck
      BY <2>2, <1>2, <1>4, <1>7, <1>8
         DEF PeekCheck, Seen!PeekCheck, IsEmpty, Seen!IsEmpty,
             ring, Seen!ring, locals, Seen!locals, history, Seen!history
    <3> QED
      BY <3>1 DEF Seen!ringPeek
  <2>3. CASE PeekLoad
    <3>1. Seen!PeekLoad
      BY <2>3, <1>2, <1>4, <1>7, <1>8, SameOperators
         DEF PeekLoad, Seen!PeekLoad, Result, Seen!Result,
             ring, Seen!ring, locals, Seen!locals, history, Seen!history
    <3> QED
      BY <3>1 DEF Seen!ringPeek
  <2>4. CASE PeekWrap
    <3>1. Seen!PeekWrap
      BY <2>4, <1>2, <1>4, <1>7, <1>8
         DEF PeekWrap, Seen!PeekWrap, Result, Seen!Result,
             locals, Seen!locals, history, Seen!history
    <3> QED
      BY <3>1 DEF Seen!ringPeek
  <2> QED
    BY <1>1, <2>1, <2>2, <2>3, <2>4 DEF ringPeek
<1>10. Seen!IInv'
  BY <1>2, <1>9, SeenSuits, Seen!PeekInv
<1>11. (Seen!TypeOK)' /\ (Seen!ViewStable)'
  BY <1>10 DEF Seen!IInv
<1>12. data' \in [Addr -> Byte] /\ tail' \in Addr
  BY <1>2, <1>4, AddrMembers DEF TypeOK
<1>13. TypeOK'
  <2>1. (Seen!TypeOK /\ data \in [Addr -> Byte] /\ tail \in Addr => TypeOK)'
    BY SeenTypes, PTL
  <2> QED
    BY <2>1, <1>11, <1>12
<1>14. loop' # "peek" =>
         /\ view'.size = queue[1].size /\ view'.at = queue[1].at
         /\ queue[1].size > HdrSize
  <2>1. view' \in [at : Addr, size : Pos]
    BY <1>13 DEF TypeOK
  <2>2. view'.size \in Nat
    BY <2>1, PosMembers
  <2>3. view'.size > 0 => view' = [at |-> queue[1].at, size |-> queue[1].size]
    BY <1>4, <1>11 DEF Seen!ViewStable
  <2>4. loop' # "peek" => view'.size > HdrSize /\ view'.size > 0
    BY <2>2, <1>5, HdrNat
  <2> QED
    BY <2>3, <2>4
<1>15. LoopTypeOK'
  <2>1. byteAt = 0
    BY <1>1, <1>2 DEF LoopTypeOK
  <2>2. loop' = "shift" => byteAt' \in 0..msgSize'
    BY <2>1, <1>1, <1>5, <1>6, <1>14, HdrNat DEF msgSize
  <2>3. loop' \in {"peek", "shift", "parse"}
    BY <1>1
  <2>4. /\ intr \in BOOLEAN /\ fields \subseteq {"head", "tail", "overflow"}
        /\ parsed \in [len : Pos, bytes : SUBSET Byte] /\ calls \in 0..1
    BY <1>2 DEF LoopTypeOK
  <2> QED
    BY <2>1, <2>2, <2>3, <2>4, <1>1, <1>13 DEF LoopTypeOK
<1>16. Lined'
  <2>1. 0 % 4 = 0
    OBVIOUS
  <2>2. head' = head /\ (tail' = 0 \/ tail' = tail)
    BY <1>4
  <2> QED
    BY <2>1, <2>2, <1>2 DEF Lined
<1>17. PlaceInv'
  BY <1>1, <1>2, <1>4, <1>5 DEF PlaceInv, Reading
<1>18. ShiftInv'
  <2> SUFFICES ASSUME loop' \in {"shift", "parse"}, NEW k \in 0..(queue[1].size - 1)
               PROVE  data[queue[1].at + 2 + k] =
                        IF HdrSize <= k /\ k < HdrSize + Done'
                          THEN Straight(queue[1].tag) ELSE queue[1].tag
    BY <1>4 DEF ShiftInv
  <2>1. queue # <<>>
    BY <1>5
  <2>2. \A i \in 0..(queue[1].size - 1) : data[queue[1].at + 2 + i] = queue[1].tag
    BY <2>1, <1>6, PayloadBytes
  <2>3. loop' = "shift" => Done' = 0
    BY <1>1, <1>2 DEF Done, LoopTypeOK
  <2>4. CASE loop' = "shift"
    <3>1. ~(HdrSize <= k /\ k < HdrSize + Done')
      BY <2>3, <2>4, HdrNat
    <3> QED
      BY <2>2, <3>1
  <2>5. CASE loop' = "parse"
    <3>1. bitOffset(data[msgData' - 1]) = 0
      BY <2>5, <1>1
    <3>2. PICK i \in 0..(queue[1].size - 1) : i = HdrSize - 1
      BY <2>5, <1>6, <1>14, <2>1, HdrNat
    <3>3. msgData' - 1 = queue[1].at + 2 + i
      BY <3>2, <2>5, <1>6, <1>14, <2>1, HdrNat DEF msgData, SizeofPos
    <3>4. bitOffset(queue[1].tag) = 0
      BY <3>1, <3>3, <2>2
    <3>5. queue[1].tag \in Byte
      BY <2>1, <1>6, TagsAssumption DEF Frame
    <3>6. Straight(queue[1].tag) = queue[1].tag
      BY <3>4, <3>5, ShiftedIsStraight
    <3> QED
      BY <2>2, <3>6
  <2> QED
    BY <2>4, <2>5
<1>19. RenewInv' /\ ParsedRight'
  BY <1>1 DEF RenewInv, ParsedRight
<1> QED
  BY <1>10, <1>15, <1>16, <1>17, <1>18, <1>19 DEF LoopInv

(* One byte of the shift: it and the next are still as they were pushed,   *)
(* so is the bit offset, and the ring as it is seen does not change.       *)
LEMMA ShiftByteStep ==
  ASSUME Aligned, LoopInv, ShiftByte, UNCHANGED app
  PROVE  LoopInv'
<1>1. /\ loop = "shift" /\ byteAt < msgSize
      /\ data' = [data EXCEPT ![msgData + byteAt] =
                    Shifted(data[msgData + byteAt], data[msgData + byteAt + 1],
                            bitOffset(data[msgData - 1]))]
      /\ byteAt' = (byteAt + 1) % 256
      /\ UNCHANGED <<head, tail, overflow, pc, size, want, bytes, cnt, view, out,
                     queue, unreported, loop, parsed, calls, intr, fields>>
  BY DEF ShiftByte, ShiftEnd, ByteRange, locals, history, app
<1>2. /\ Seen!IInv /\ TypeOK /\ Lined /\ LoopTypeOK /\ PlaceInv /\ ShiftInv
      /\ Reading
  BY <1>1 DEF LoopInv, Renewing, Reading, LoopTypeOK
<1>3. PICK q, n, t : q = queue[1].at /\ n = queue[1].size /\ t = queue[1].tag
  OBVIOUS
<1>4. /\ queue # <<>> /\ q \in Nat /\ n \in Nat /\ n > HdrSize
      /\ End(queue[1]) = q + 2 + n /\ q + 2 + n < Size
      /\ view = [at |-> q, size |-> n] /\ queue[1] \in Frame
  BY <1>2, <1>3, OldestHeld
<1>5. t \in Byte /\ n < 256
  BY <1>3, <1>4, TagsAssumption DEF Frame, Aligned, ByteRange
<1>6. msgData = q + 2 + HdrSize /\ msgSize = n - HdrSize - 1
  BY <1>4 DEF msgData, msgSize, SizeofPos
<1>7. byteAt \in Nat
  BY <1>1, <1>2, <1>4, <1>6, HdrNat DEF LoopTypeOK
<1>8. PICK k \in 0..(n - 1) : k = HdrSize + byteAt /\ k + 1 \in 0..(n - 1)
  BY <1>1, <1>4, <1>6, <1>7, HdrNat
<1>9. PICK j \in 0..(n - 1) : j = HdrSize - 1
  BY <1>4, HdrNat
<1>10. \A i \in 0..(n - 1) :
         data[q + 2 + i] = IF HdrSize <= i /\ i < k THEN Straight(t) ELSE t
  BY <1>1, <1>2, <1>3, <1>8 DEF ShiftInv, Done
<1>11. data[q + 2 + k] = t /\ data[q + 2 + (k + 1)] = t /\ data[q + 2 + j] = t
  BY <1>7, <1>8, <1>9, <1>10, HdrNat
<1>12. PICK a : a = q + 2 + k
  OBVIOUS
<1>13. /\ a = msgData + byteAt /\ a + 1 = q + 2 + (k + 1) /\ msgData - 1 = q + 2 + j
       /\ a \in Addr /\ q + 2 <= a /\ a < q + 2 + n
  BY <1>4, <1>6, <1>7, <1>8, <1>9, <1>12, HdrNat, AddrMembers
<1>14. data' = [data EXCEPT ![a] = Straight(t)]
  <2>1. data[a] = t /\ data[a + 1] = t /\ data[msgData - 1] = t
    BY <1>11, <1>12, <1>13
  <2>2. data' = [data EXCEPT ![a] = Shifted(t, t, bitOffset(t))]
    BY <2>1, <1>1, <1>13
  <2> QED
    BY <2>2, <1>5, ShiftedIsStraight
<1>15. data \in [Addr -> Byte] /\ Straight(t) \in Byte
  BY <1>2, <1>5, ShiftedIsStraight DEF TypeOK
<1>16. /\ data' \in [Addr -> Byte] /\ data'[a] = Straight(t)
       /\ \A b \in Addr : b # a => data'[b] = data[b]
  BY <1>13, <1>14, <1>15
<1>17. byteAt' = byteAt + 1
  BY <1>1, <1>4, <1>5, <1>6, <1>7, HdrNat
<1>18. Unshifted' = Unshifted
  <2>1. \A b \in Addr : ~(q + 2 <= b /\ b < q + 2 + n) => data'[b] = data[b]
    BY <1>13, <1>16
  <2>2. Unshifted = [b \in Addr |-> IF q + 2 <= b /\ b < q + 2 + n THEN t ELSE data[b]]
    BY <1>2, <1>3, <1>4 DEF Unshifted, SizeofPos
  <2>3. Unshifted' = [b \in Addr |-> IF q + 2 <= b /\ b < q + 2 + n THEN t ELSE data'[b]]
    BY <1>1, <1>2, <1>3, <1>4 DEF Unshifted, SizeofPos, Reading, End
  <2> QED
    BY <2>1, <2>2, <2>3
<1>19. Seen!IInv'
  <2>1. TailToBe' = TailToBe
    BY <1>1 DEF TailToBe
  <2> QED
    BY <2>1, <1>1, <1>2, <1>18, SeenUnchanged DEF locals, history
<1>20. LoopTypeOK'
  <2>1. TypeOK'
    BY <1>1, <1>2, <1>16 DEF TypeOK
  <2>2. byteAt' \in 0..msgSize'
    BY <1>1, <1>4, <1>6, <1>7, <1>17, HdrNat DEF msgSize
  <2> QED
    BY <2>1, <2>2, <1>1, <1>2 DEF LoopTypeOK
<1>21. ShiftInv'
  <2>1. ASSUME NEW i \in 0..(n - 1)
        PROVE  data'[q + 2 + i] = IF HdrSize <= i /\ i < k + 1 THEN Straight(t) ELSE t
    <3>1. q + 2 + i \in Addr /\ (q + 2 + i = a <=> i = k)
      BY <1>4, <1>8, <1>12, AddrMembers
    <3>2. CASE i = k
      BY <3>1, <3>2, <1>7, <1>8, <1>16, HdrNat
    <3>3. CASE i # k
      BY <3>1, <3>3, <1>8, <1>10, <1>16
    <3> QED
      BY <3>2, <3>3
  <2>2. k + 1 = HdrSize + Done'
    BY <1>1, <1>7, <1>8, <1>17, HdrNat DEF Done
  <2> QED
    BY <2>1, <2>2, <1>1, <1>3 DEF ShiftInv
<1>22. Lined' /\ PlaceInv' /\ RenewInv' /\ ParsedRight'
  BY <1>1, <1>2 DEF Lined, PlaceInv, Reading, RenewInv, ParsedRight
<1> QED
  BY <1>19, <1>20, <1>21, <1>22 DEF LoopInv

(* The end of the shift: every byte of the message proper has been moved.  *)
LEMMA ShiftDoneStep ==
  ASSUME LoopInv, ShiftDone, UNCHANGED app
  PROVE  LoopInv'
<1>1. /\ loop = "shift" /\ byteAt >= msgSize /\ loop' = "parse" /\ byteAt' = 0
      /\ UNCHANGED <<data, head, tail, overflow, pc, size, want, bytes, cnt, view, out,
                     queue, unreported, parsed, calls, intr, fields>>
  BY DEF ShiftDone, ShiftEnd, vars, app
<1>2. /\ Seen!IInv /\ TypeOK /\ Lined /\ LoopTypeOK /\ PlaceInv /\ ShiftInv /\ Reading
  BY <1>1 DEF LoopInv, Renewing, Reading, LoopTypeOK
<1>3. /\ queue # <<>> /\ queue[1].size \in Nat /\ queue[1].size > HdrSize
      /\ view.size = queue[1].size
  BY <1>2, OldestHeld
<1>4. byteAt = queue[1].size - HdrSize - 1
  BY <1>1, <1>2, <1>3, HdrNat DEF LoopTypeOK, msgSize
<1>5. Seen!IInv'
  <2>1. Unshifted' = Unshifted /\ TailToBe' = TailToBe
    BY <1>1, <1>2 DEF Unshifted, Reading, TailToBe
  <2> QED
    BY <2>1, <1>1, <1>2, SeenUnchanged DEF locals, history
<1>6. LoopTypeOK'
  BY <1>1, <1>2 DEF LoopTypeOK, TypeOK
<1>7. ShiftInv'
  <2>1. Done = byteAt /\ Done' = byteAt
    BY <1>1, <1>4 DEF Done
  <2> QED
    BY <2>1, <1>1, <1>2 DEF ShiftInv
<1>8. Lined' /\ PlaceInv' /\ RenewInv' /\ ParsedRight'
  BY <1>1, <1>2 DEF Lined, PlaceInv, Reading, RenewInv, ParsedRight
<1> QED
  BY <1>5, <1>6, <1>7, <1>8 DEF LoopInv

(* The parser reads the message proper and nothing else, and its callback  *)
(* runs for the valid ones: those whose bytes a valid message has.         *)
LEMMA ParseStep ==
  ASSUME LoopInv, Parse, UNCHANGED app
  PROVE  LoopInv'
<1> DEFINE bs == PayloadAt(data, msgData - SizeofPos, msgSize)
<1>1. /\ loop = "parse" /\ loop' = "pop" /\ byteAt' = byteAt
      /\ parsed' = [len |-> msgSize, bytes |-> bs]
      /\ calls' = IF ChecksumOk(bs) THEN calls + 1 ELSE calls
      /\ UNCHANGED <<data, head, tail, overflow, pc, size, want, bytes, cnt, view, out,
                     queue, unreported, intr, fields>>
  BY DEF Parse, vars, app
<1>2. /\ Seen!IInv /\ TypeOK /\ Lined /\ LoopTypeOK /\ PlaceInv /\ ShiftInv /\ Reading
  BY <1>1 DEF LoopInv, Renewing, Reading, LoopTypeOK
<1>3. PICK q, n, t : q = queue[1].at /\ n = queue[1].size /\ t = queue[1].tag
  OBVIOUS
<1>4. /\ queue # <<>> /\ q \in Nat /\ n \in Nat /\ n > HdrSize /\ n < 65536
      /\ q + 2 + n < Size /\ view = [at |-> q, size |-> n] /\ queue[1] \in Frame
  BY <1>2, <1>3, OldestHeld
<1>5. t \in Tags /\ t \in Byte
  BY <1>3, <1>4, TagsAssumption DEF Frame
<1>6. PICK m : m = n - HdrSize - 1
  OBVIOUS
<1>7. /\ m \in Nat /\ msgSize = m /\ msgData - SizeofPos + SizeofPos = q + 2 + HdrSize
  BY <1>4, <1>6, HdrNat DEF msgData, msgSize, SizeofPos
<1>8. \A i \in 0..(n - 1) : HdrSize <= i /\ i < HdrSize + m => data[q + 2 + i] = Straight(t)
  BY <1>1, <1>2, <1>3, <1>6 DEF ShiftInv, Done
<1> DEFINE A == {a \in Addr : q + 2 + HdrSize <= a /\ a < q + 2 + HdrSize + m}
<1>9. bs = {data[a] : a \in A}
  <2>1. bs = {data[a] : a \in Addr \cap
                ((q + 2 + HdrSize)..(q + 2 + HdrSize + m - 1))}
    BY <1>7 DEF PayloadAt
  <2>2. Addr \cap ((q + 2 + HdrSize)..(q + 2 + HdrSize + m - 1)) = A
    BY <1>4, <1>7, HdrNat, AddrMembers
  <2> HIDE DEF bs, A
  <2> QED
    BY <2>1, <2>2
<1>10. \A a \in A : data[a] = Straight(t)
  <2> SUFFICES ASSUME NEW a \in A PROVE data[a] = Straight(t)
    OBVIOUS
  <2>1. a \in Nat /\ q + 2 + HdrSize <= a /\ a < q + 2 + HdrSize + m
    BY AddrMembers
  <2>2. PICK i \in 0..(n - 1) : a = q + 2 + i /\ HdrSize <= i /\ i < HdrSize + m
    <3>1. /\ a - (q + 2) \in 0..(n - 1) /\ a = q + 2 + (a - (q + 2))
          /\ HdrSize <= a - (q + 2) /\ a - (q + 2) < HdrSize + m
      BY <2>1, <1>4, <1>6, <1>7, HdrNat
    <3> QED
      BY <3>1
  <2> QED
    BY <2>2, <1>8
<1>11. (m = 0 => A = {}) /\ (m # 0 => q + 2 + HdrSize \in A)
  BY <1>4, <1>6, <1>7, HdrNat, AddrMembers
<1> HIDE DEF bs, A
<1>12. bs = {Straight(t) : k \in 1..m}
  <2>1. (m = 0 => 1..m = {}) /\ (m # 0 => 1 \in 1..m)
    BY <1>7
  <2> QED
    BY <2>1, <1>9, <1>10, <1>11
<1>13. ChecksumOk(bs) <=> t \in Valid /\ m > 0
  <2>1. m > 0 => bs = {Straight(t)}
    <3>1. m > 0 => 1 \in 1..m
      BY <1>7
    <3> QED
      BY <3>1, <1>12
  <2>2. ~(m > 0) => bs = {}
    <3>1. ~(m > 0) => 1..m = {}
      BY <1>7
    <3> QED
      BY <3>1, <1>12
  <2>3. ASSUME m > 0, NEW u \in Valid, bs = {Straight(u)} PROVE t \in Valid
    <3>1. Straight(u) = Straight(t)
      BY <2>1, <2>3
    <3> QED
      BY <3>1, <1>5, ChecksumAssumption
  <2> QED
    BY <2>1, <2>2, <2>3 DEF ChecksumOk
<1>14. calls = 0
  BY <1>1, <1>2 DEF PlaceInv
<1>15. ParsedRight'
  BY <1>1, <1>3, <1>4, <1>6, <1>7, <1>12, <1>13, <1>14 DEF ParsedRight
<1>16. parsed' \in [len : Pos, bytes : SUBSET Byte] /\ calls' \in 0..1
  <2>1. bs \subseteq Byte
    BY <1>5, <1>12, ShiftedIsStraight
  <2>2. m \in Pos
    BY <1>4, <1>6, <1>7, HdrNat, PosMembers
  <2> QED
    BY <2>1, <2>2, <1>1, <1>7, <1>14
<1>17. LoopTypeOK'
  BY <1>1, <1>2, <1>16 DEF LoopTypeOK, TypeOK
<1>18. Seen!IInv'
  <2>1. Unshifted' = Unshifted /\ TailToBe' = TailToBe
    BY <1>1, <1>2 DEF Unshifted, Reading, TailToBe
  <2> QED
    BY <2>1, <1>1, <1>2, SeenUnchanged DEF locals, history
<1>19. Lined' /\ PlaceInv' /\ RenewInv' /\ ShiftInv'
  BY <1>1, <1>2 DEF Lined, PlaceInv, Reading, RenewInv, ShiftInv
<1> QED
  BY <1>15, <1>17, <1>18, <1>19 DEF LoopInv

(* The types of the ring, as it is seen, from those it has.                *)
LEMMA TypesSeen ==
  TypeOK /\ want = 0 /\ Unshifted \in [Addr -> Byte] /\ TailToBe \in Addr => Seen!TypeOK
  BY SameOperators
     DEF Seen!TypeOK, TypeOK, Seen!CallStates, CallStates

(* The steps of ringPop before its last: they read the tail, the size      *)
(* field and, with no output buffer, no byte of the payload.               *)
LEMMA PopEarlyStep ==
  ASSUME LoopInv, loop = "pop", UNCHANGED app, UNCHANGED <<loop, parsed, calls, byteAt>>,
         PopCheck(0) \/ PopLoad \/ PopWrap \/ PopCopy
  PROVE  LoopInv'
<1>1. Reading /\ Seen!IInv /\ TypeOK /\ Lined /\ LoopTypeOK /\ PlaceInv /\ ParsedRight
  BY DEF LoopInv, Renewing, Reading, LoopTypeOK
<1>2. /\ Seen!TypeOK /\ Seen!CallInv
      /\ queue # <<>> /\ queue[1].at \in Nat /\ queue[1].size \in Nat /\ queue[1].size > 0
      /\ queue[1].at + 2 + queue[1].size < Size
      /\ tail = queue[1].at /\ TailToBe = tail
      /\ Unshifted \in [Addr -> Byte] /\ data \in [Addr -> Byte]
      /\ \A a \in Addr : a < tail + 2 => Unshifted[a] = data[a]
  BY <1>1, OldestHeld, HdrNat DEF TypeOK
<1>3. want = 0
  BY <1>2 DEF Seen!TypeOK
<1>4. /\ data' = data /\ head' = head /\ overflow' = overflow /\ cnt' = cnt
      /\ view' = view /\ out' = out /\ queue' = queue /\ unreported' = unreported
      /\ want' = 0 /\ (tail' = 0 \/ tail' = tail)
      /\ pc' \in {"popLoad", "popWrap", "popCopy", "popAdvance"}
  BY <1>3 DEF PopCheck, PopLoad, PopWrap, PopCopy, ring, history
<1>5. Unshifted' = Unshifted /\ TailToBe' = tail'
  BY <1>4 DEF Unshifted, Reading, TailToBe
<1>6. Seen!ringPop
  <2>1. CASE PopCheck(0)
    <3>1. Seen!PopCheck(0)
      BY <2>1, <1>2, <1>4, <1>5
         DEF PopCheck, Seen!PopCheck, IsEmpty, Seen!IsEmpty, SizeofPos, Seen!SizeofPos,
             history, Seen!history
    <3> QED
      BY <3>1 DEF Seen!ringPop
  <2>2. CASE PopLoad
    <3>1. SizesAt(data, tail) = SizesAt(Unshifted, tail)
      <4>1. tail \in Addr /\ tail + 1 \in Addr
        <5>1. PICK q, n : q = queue[1].at /\ n = queue[1].size
          OBVIOUS
        <5>2. q \in Nat /\ n \in Nat /\ n > 0 /\ q + 2 + n < Size /\ tail = q
          BY <5>1, <1>2
        <5> QED
          BY <5>2, AddrMembers
      <4>2. data[tail] = Unshifted[tail] /\ data[tail + 1] = Unshifted[tail + 1]
        <5>1. tail < tail + 2 /\ tail + 1 < tail + 2
          BY <1>2
        <5> QED
          BY <4>1, <5>1, <1>2
      <4> QED
        BY <4>1, <4>2 DEF SizesAt, BytesAt
    <3>2. Seen!PopLoad
      BY <2>2, <3>1, <1>2, <1>4, <1>5, SameOperators
         DEF PopLoad, Seen!PopLoad, ring, Seen!ring, history, Seen!history
    <3> QED
      BY <3>2 DEF Seen!ringPop
  <2>3. CASE PopWrap
    <3>1. tail = 0
      BY <2>3, <1>2 DEF PopWrap, Seen!CallInv
    <3>2. data[0] = Unshifted[0]
      BY <3>1, <1>2, AddrMembers
    <3>3. Seen!PopWrap
      BY <2>3, <3>2, <1>2, <1>4, <1>5
         DEF PopWrap, Seen!PopWrap, history, Seen!history
    <3> QED
      BY <3>3 DEF Seen!ringPop
  <2>4. CASE PopCopy
    <3>1. size = queue[1].size
      BY <2>4, <1>2 DEF PopCopy, Seen!CallInv
    <3>2. copySize = 0 /\ Seen!copySize = 0
      BY <3>1, <1>2, <1>3 DEF copySize, Smaller, Seen!copySize, Seen!Smaller
    <3>3. (tail + 2)..(tail + 2 + 0 - 1) = {}
      BY <1>2
    <3>4. PayloadAt(data, tail, 0) = {} /\ Seen!PayloadAt(Unshifted, tail, 0) = {}
      BY <3>3 DEF PayloadAt, SizeofPos, Seen!PayloadAt, Seen!SizeofPos
    <3>5. Seen!PopCopy
      BY <2>4, <3>2, <3>4, <1>2, <1>4, <1>5
         DEF PopCopy, Seen!PopCopy, ring, Seen!ring, history, Seen!history
    <3> QED
      BY <3>5 DEF Seen!ringPop
  <2> QED
    BY <2>1, <2>2, <2>3, <2>4
<1>7. Seen!IInv'
  BY <1>1, <1>6, SeenSuits, Seen!PopInv
<1>8. TypeOK'
  <2>1. (Seen!TypeOK /\ data \in [Addr -> Byte] /\ tail \in Addr => TypeOK)'
    BY SeenTypes, PTL
  <2>2. tail' \in Addr /\ data' \in [Addr -> Byte]
    BY <1>1, <1>4, AddrMembers DEF TypeOK
  <2> QED
    BY <2>1, <2>2, <1>7 DEF Seen!IInv
<1>9. LoopTypeOK'
  BY <1>1, <1>8 DEF LoopTypeOK, app
<1>10. Lined'
  <2>1. 0 % 4 = 0
    OBVIOUS
  <2> QED
    BY <2>1, <1>1, <1>4 DEF Lined
<1>11. PlaceInv' /\ ShiftInv' /\ RenewInv' /\ ParsedRight'
  BY <1>1, <1>4 DEF PlaceInv, ShiftInv, RenewInv, ParsedRight, Reading
<1> QED
  BY <1>7, <1>9, <1>10, <1>11 DEF LoopInv

(* The last step of ringPop: the oldest message goes, and with it the only *)
(* bytes that were not as they had been pushed.                            *)
LEMMA PopAdvanceStep ==
  ASSUME Aligned, LoopInv, loop = "pop", PopAdvance, UNCHANGED app,
         loop' = "peek", parsed' = Nothing, calls' = 0, byteAt' = byteAt
  PROVE  LoopInv'
<1>1. Reading /\ Seen!IInv /\ TypeOK /\ Lined /\ LoopTypeOK /\ PlaceInv
  BY DEF LoopInv, Renewing, Reading, LoopTypeOK
<1>2. /\ Seen!TypeOK /\ Seen!LayoutInv /\ Seen!CallInv
      /\ queue # <<>> /\ queue[1] \in Frame
      /\ queue[1].at \in Nat /\ queue[1].size \in Nat
      /\ End(queue[1]) = queue[1].at + 2 + queue[1].size /\ End(queue[1]) < Size
      /\ tail = queue[1].at /\ TailToBe = tail
      /\ data \in [Addr -> Byte]
      /\ \A a \in Addr : a < tail + 2 \/ a >= End(queue[1]) => Unshifted[a] = data[a]
  BY <1>1, OldestHeld DEF TypeOK
<1>3. pc = "popAdvance" /\ size = queue[1].size
  BY <1>2 DEF PopAdvance, Seen!CallInv
<1>4. /\ tail' = End(queue[1]) /\ queue' = Tail(queue)
      /\ out' = Result("pop", IF want = 0 THEN size ELSE copySize, bytes)
      /\ view' = NoView /\ size' = 0 /\ want' = 0 /\ bytes' = {} /\ pc' = "ready"
      /\ UNCHANGED <<data, head, overflow, cnt, unreported>>
  <2>1. tail' = (tail + 2 + size) % 65536
    BY DEF PopAdvance, SizeofPos, PosRange
  <2>2. PICK e : e = End(queue[1])
    OBVIOUS
  <2>3. e \in Nat /\ e < 65536 /\ e = tail + 2 + size
    BY <2>2, <1>2, <1>3, SizeFacts
  <2>4. tail' = e
    BY <2>1, <2>3
  <2> QED
    BY <2>2, <2>4, <1>2 DEF PopAdvance
<1>5. Unshifted' = data /\ TailToBe' = tail'
  BY <1>2, <1>4 DEF Unshifted, Reading, TailToBe
<1>6. (Seen!LayoutInv)' /\ tail' \in Addr /\ queue' \in Seq(Frame)
  <2>1. \A a \in Addr : a < TailToBe + 2 \/ a >= Seen!End(queue[1])
                          => Unshifted'[a] = Unshifted[a]
    BY <1>2, <1>5, SameOperators
  <2>2. /\ Seen!TypeOK /\ Seen!LayoutInv /\ queue # <<>> /\ queue[1].at = TailToBe
        /\ TailToBe' = Seen!End(queue[1]) /\ queue' = Tail(queue) /\ head' = head
    BY <1>2, <1>4, <1>5, SameOperators
  <2>3. (Seen!LayoutInv)' /\ TailToBe' \in Seen!Addr /\ queue' \in Seq(Seen!Frame)
    <3>1. \A a \in Seen!Addr : a < TailToBe + 2 \/ a >= Seen!End(queue[1])
                                 => Unshifted'[a] = Unshifted[a]
      BY <2>1, SameOperators
    <3> QED
      BY <3>1, <2>2, SeenSuits, Seen!TailPastOldest
  <2> QED
    BY <2>3, <1>5, SameOperators
<1>7. TypeOK'
  <2>1. 0 \in Pos /\ 0 \in Addr
    BY PosMembers, AddrMembers
  <2>2. (IF want = 0 THEN size ELSE copySize) \in Pos
    <3>1. want = 0 /\ size \in Pos
      BY <1>1, <1>2 DEF Seen!TypeOK, TypeOK
    <3> QED
      BY <3>1
  <2>3. bytes \in SUBSET Byte
    BY <1>1 DEF TypeOK
  <2>4. view' \in [at : Addr, size : Pos]
    BY <2>1, <1>4 DEF NoView
  <2>5. out' \in [call : {"none", "peek", "pop"}, len : Pos, bytes : SUBSET Byte]
    BY <2>2, <2>3, <1>4 DEF Result
  <2> QED
    BY <2>1, <2>4, <2>5, <1>1, <1>4, <1>6 DEF TypeOK, CallStates
<1>8. Seen!IInv'
  <2>1. (TypeOK /\ want = 0 /\ Unshifted \in [Addr -> Byte] /\ TailToBe \in Addr
          => Seen!TypeOK)'
    BY TypesSeen, PTL
  <2>2. (Seen!TypeOK)'
    BY <2>1, <1>2, <1>4, <1>5, <1>6, <1>7
  <2>3. (Seen!CallInv)'
    BY <1>4 DEF Seen!CallInv
  <2>4. (Seen!ViewStable)'
    BY <1>4 DEF Seen!ViewStable, NoView
  <2>5. (Seen!ReportsAreReal)'
    BY <1>1, <1>4 DEF Seen!IInv, Seen!ReportsAreReal
  <2> QED
    BY <2>2, <2>3, <2>4, <2>5, <1>6 DEF Seen!IInv
<1>9. LoopTypeOK'
  <2>1. parsed' \in [len : Pos, bytes : SUBSET Byte]
    BY PosMembers DEF Nothing
  <2> QED
    BY <2>1, <1>1, <1>7 DEF LoopTypeOK, app
<1>10. Lined'
  <2>1. PICK q, n : q = queue[1].at /\ n = queue[1].size
    OBVIOUS
  <2>2. q \in Nat /\ n \in Nat /\ (n + 2) % 4 = 0 /\ q % 4 = 0
    BY <2>1, <1>1, <1>2 DEF Lined, Aligned, Frame, SizeofPos
  <2>3. (q + 2 + n) % 4 = 0
    BY <2>2
  <2> QED
    BY <2>1, <2>3, <1>1, <1>2, <1>4 DEF Lined
<1>11. PlaceInv' /\ ShiftInv' /\ RenewInv' /\ ParsedRight'
  BY <1>4 DEF PlaceInv, ShiftInv, RenewInv, ParsedRight, Reading
<1> QED
  BY <1>8, <1>9, <1>10, <1>11 DEF LoopInv

(* ringPop always finds the message amrProcessMsgs is at.                  *)
LEMMA PopStep ==
  ASSUME Aligned, LoopInv, Pop, UNCHANGED app
  PROVE  LoopInv'
<1>1. loop = "pop" /\ Reading /\ byteAt' = byteAt
  BY DEF Pop, Reading
<1>2. ~PopEmpty
  <2>1. /\ Seen!TypeOK /\ Seen!LayoutInv /\ queue # <<>>
        /\ queue[1].at \in Nat /\ queue[1].size \in Nat /\ tail = queue[1].at
        /\ End(queue[1]) = queue[1].at + 2 + queue[1].size /\ TailToBe = tail
    BY <1>1, OldestHeld
  <2>2. 1 \in 1..Len(queue)
    BY <1>1, <2>1, FrameFacts DEF LoopInv, LoopTypeOK
  <2>3. head < tail \/ End(queue[1]) <= head
    BY <2>1, <2>2, SeenSuits, SameOperators, Seen!FramePlace
  <2>4. head # tail
    BY <2>1, <2>3
  <2> QED
    BY <2>4 DEF PopEmpty, IsEmpty
<1>3. CASE PopAdvance
  <2>1. loop' = "peek" /\ parsed' = Nothing /\ calls' = 0
    BY <1>3 DEF Pop, PopAdvance
  <2> QED
    BY <2>1, <1>1, <1>3, PopAdvanceStep
<1>4. CASE PopCheck(0) \/ PopLoad \/ PopWrap \/ PopCopy
  <2>1. pc' # "ready"
    BY <1>4 DEF PopCheck, PopLoad, PopWrap, PopCopy
  <2>2. UNCHANGED <<loop, parsed, calls, byteAt>>
    BY <2>1, <1>1 DEF Pop
  <2> QED
    BY <2>2, <1>1, <1>4, PopEarlyStep
<1> QED
  BY <1>2, <1>3, <1>4 DEF Pop

-----------------------------------------------------------------------------
(* The interrupt handler.                                                  *)

(* Where a push goes that is no exact fit, for indices that are multiples  *)
(* of four: behind the head without passing the tail, or to the front,     *)
(* short of the tail.                                                      *)
LEMMA PushPlace ==
  ASSUME TypeOK, Aligned, Lined, NEW s \in Sizes, NEW t \in Tags, ~ExactFit(s)
  PROVE  /\ PushBack(s, t) =>
              /\ data' = PutElement(data, head, s, t) /\ tail' = tail
              /\ head' = head + 2 + s /\ head' < Size
              /\ head < tail => head' < tail
         /\ PushWrap(s, t) =>
              /\ data' = PutElement(PutMarker(data, head), 0, s, t) /\ tail' = tail
              /\ head' = 2 + s /\ tail <= head /\ s + 3 <= tail
<1>1. /\ head \in Nat /\ head < Size /\ tail \in Nat /\ tail < Size
      /\ s \in Nat /\ s > 0 /\ Size \in Nat
  BY FrameFacts, SizeMembers, SizeNat
<1>2. /\ head + 2 + s < 65536 /\ tail # head + 2
      /\ s <= ringFree(head, tail) /\ head + 2 + s = Size => s + 3 <= tail
  BY LinedBounds, EndIsFront
<1>3. newHead(s) = head + 2 + s
  BY <1>1, <1>2 DEF newHead, SizeofPos, PosRange
<1>4. ASSUME s <= ringFree(head, tail), head < tail PROVE head + 2 + s < tail
  BY <1>1, <1>2, <1>4, RoomInGap
<1>5. ASSUME PushBack(s, t)
      PROVE  /\ data' = PutElement(data, head, s, t) /\ tail' = tail
             /\ head' = head + 2 + s /\ head' < Size
             /\ head < tail => head' < tail
  BY <1>3, <1>4, <1>5 DEF PushBack
<1>6. ASSUME PushWrap(s, t)
      PROVE  /\ data' = PutElement(PutMarker(data, head), 0, s, t) /\ tail' = tail
             /\ head' = 2 + s /\ tail <= head /\ s + 3 <= tail
  <2>1. /\ s <= ringFree(head, tail) /\ head + 2 + s >= Size /\ tail' = tail
        /\ data' = PutElement(PutMarker(data, head), 0, s, t) /\ head' = 2 + s
    BY <1>3, <1>6 DEF PushWrap, SizeofPos
  <2>2. tail <= head
    BY <2>1, <1>1, <1>4
  <2>3. s + 3 <= tail
    BY <2>1, <2>2, <1>1, <1>2, RoomInFront
  <2> QED
    BY <2>1, <2>2, <2>3
<1> QED
  BY <1>5, <1>6

(* Writing an element does the same to a byte whatever else memory holds.  *)
LEMMA PutElementSame ==
  ASSUME NEW mem \in [Addr -> Byte], NEW other \in [Addr -> Byte], NEW p \in Nat,
         NEW n \in Nat, n > 0, NEW t \in Byte, p + 2 + n <= Size,
         NEW a \in Addr, mem[a] = other[a]
  PROVE  PutElement(mem, p, n, t)[a] = PutElement(other, p, n, t)[a]
<1>1. PICK x, y : x = PutElement(mem, p, n, t) /\ y = PutElement(other, p, n, t)
  OBVIOUS
<1>2. /\ x[p] = n % ByteRange /\ x[p + 1] = n \div ByteRange
      /\ \A b \in Addr : p + 2 <= b /\ b < p + 2 + n => x[b] = t
      /\ \A b \in Addr : b < p \/ b >= p + 2 + n => x[b] = mem[b]
  BY <1>1, PutElementBytes
<1>3. /\ y[p] = n % ByteRange /\ y[p + 1] = n \div ByteRange
      /\ \A b \in Addr : p + 2 <= b /\ b < p + 2 + n => y[b] = t
      /\ \A b \in Addr : b < p \/ b >= p + 2 + n => y[b] = other[b]
  BY <1>1, PutElementBytes
<1>4. a \in Nat
  BY AddrMembers
<1>5. \/ a < p \/ a >= p + 2 + n
      \/ a = p
      \/ a = p + 1
      \/ p + 2 <= a /\ a < p + 2 + n
  BY <1>4
<1>6. x[a] = y[a]
  BY <1>2, <1>3, <1>5
<1> QED
  BY <1>1, <1>6

(* So does writing a wrap marker.                                          *)
LEMMA PutMarkerSame ==
  ASSUME NEW mem \in [Addr -> Byte], NEW other \in [Addr -> Byte], NEW p \in Addr,
         NEW a \in Addr, mem[a] = other[a]
  PROVE  PutMarker(mem, p)[a] = PutMarker(other, p)[a]
  BY DEF PutMarker, PutSize

(* A push while amrProcessMsgs is at a message leaves that message's bytes *)
(* alone, and does the same to the ring as it is seen.                     *)
LEMMA PushWhileReading ==
  ASSUME Aligned, LoopInv, Reading, NEW s \in Sizes, NEW t \in Tags,
         ~ExactFit(s), PushBack(s, t) \/ PushWrap(s, t), loop' = loop
  PROVE  /\ PushBack(s, t) => Unshifted' = PutElement(Unshifted, head, s, t)
         /\ PushWrap(s, t) =>
              Unshifted' = PutElement(PutMarker(Unshifted, head), 0, s, t)
         /\ \A a \in Addr : queue[1].at + 2 <= a /\ a < End(queue[1])
                              => data'[a] = data[a]
         /\ queue'[1] = queue[1] /\ queue' # <<>>
<1>1. TypeOK /\ Lined
  BY DEF LoopInv, LoopTypeOK
<1>2. /\ Seen!TypeOK /\ Seen!LayoutInv /\ queue # <<>>
      /\ queue[1].at \in Nat /\ queue[1].size \in Nat
      /\ End(queue[1]) = queue[1].at + 2 + queue[1].size /\ End(queue[1]) < Size
      /\ tail = queue[1].at /\ TailToBe = tail
      /\ Unshifted \in [Addr -> Byte] /\ data \in [Addr -> Byte]
      /\ \A a \in Addr : a < tail + 2 \/ a >= End(queue[1]) => Unshifted[a] = data[a]
  BY <1>1, OldestHeld DEF TypeOK
<1>3. PICK q, e, tag : q = queue[1].at /\ e = End(queue[1]) /\ tag = queue[1].tag
  OBVIOUS
<1>4. /\ q \in Nat /\ e \in Nat /\ q + 2 <= e /\ e < Size /\ tail = q
      /\ s \in Nat /\ s > 0 /\ t \in Byte /\ head \in Nat /\ head \in Addr /\ head < Size
  <2>1. q \in Nat /\ e \in Nat /\ q + 2 <= e
    BY <1>2, <1>3
  <2> QED
    BY <2>1, <1>1, <1>2, <1>3, SizeMembers, TagsAssumption, FrameFacts, AddrMembers
<1>5. head < q \/ e <= head
  <2>1. 1 \in 1..Len(queue)
    BY <1>1, <1>2, FrameFacts
  <2> QED
    BY <2>1, <1>2, <1>3, SeenSuits, SameOperators, Seen!FramePlace
<1>6. \A a \in Addr : ~(q + 2 <= a /\ a < e) => Unshifted[a] = data[a]
  <2> SUFFICES ASSUME NEW a \in Addr, ~(q + 2 <= a /\ a < e)
               PROVE  Unshifted[a] = data[a]
    OBVIOUS
  <2>1. a \in Nat
    BY AddrMembers
  <2>2. a < tail + 2 \/ a >= e
    BY <2>1, <1>4
  <2> QED
    BY <2>2, <1>2, <1>3
<1>7. \A a \in Addr : q + 2 <= a /\ a < e => Unshifted[a] = tag
  BY <1>3 DEF Unshifted, SizeofPos
<1>8. queue'[1] = queue[1] /\ queue' # <<>>
  <2>1. \E f : queue' = Append(queue, f)
    BY DEF PushBack, PushWrap
  <2> QED
    BY <2>1, <1>1, <1>2 DEF TypeOK
<1>9. Unshifted' = [a \in Addr |-> IF q + 2 <= a /\ a < e THEN tag ELSE data'[a]]
  BY <1>3, <1>8 DEF Unshifted, SizeofPos, Reading, End
<1>10. ASSUME NEW x \in [Addr -> Byte],
              \A a \in Addr : ~(q + 2 <= a /\ a < e) => data'[a] = x[a],
              \A a \in Addr : q + 2 <= a /\ a < e => x[a] = Unshifted[a]
       PROVE  Unshifted' = x
  BY <1>7, <1>9, <1>10
<1>11. Unshifted \in [Addr -> Byte] /\ data \in [Addr -> Byte] /\ Size \in Nat
  BY <1>2, SizeNat
<1>12. ASSUME PushBack(s, t)
       PROVE  /\ Unshifted' = PutElement(Unshifted, head, s, t)
              /\ \A a \in Addr : q + 2 <= a /\ a < e => data'[a] = data[a]
  <2>1. /\ data' = PutElement(data, head, s, t) /\ head + 2 + s < Size
        /\ head < tail => head + 2 + s < tail
    BY <1>1, <1>12, PushPlace
  <2>2. PICK x : x = PutElement(Unshifted, head, s, t)
    OBVIOUS
  <2>3. /\ x \in [Addr -> Byte]
        /\ \A a \in Addr : a < head \/ a >= head + 2 + s => x[a] = Unshifted[a]
    BY <2>1, <2>2, <1>11, <1>4, PutElementBytes
  <2>4. \A a \in Addr : a < head \/ a >= head + 2 + s => data'[a] = data[a]
    <3>1. head + 2 + s <= Size
      BY <2>1, <1>4, <1>11
    <3>2. data' = PutElement(data, head, s, t)
      BY <2>1
    <3> QED
      BY <3>1, <3>2, <1>11, <1>4, PutElementBytes
  <2>5. \A a \in Addr : q + 2 <= a /\ a < e => a < head \/ a >= head + 2 + s
    BY <2>1, <1>4, <1>5, AddrMembers
  <2>6. \A a \in Addr : ~(q + 2 <= a /\ a < e) => data'[a] = x[a]
    <3> SUFFICES ASSUME NEW a \in Addr, ~(q + 2 <= a /\ a < e) PROVE data'[a] = x[a]
      OBVIOUS
    <3>1. data[a] = Unshifted[a]
      BY <1>6
    <3>2. head + 2 + s <= Size
      BY <2>1, <1>4, <1>11
    <3> QED
      BY <3>1, <3>2, <2>1, <2>2, <1>11, <1>4, PutElementSame
  <2> QED
    BY <2>2, <2>3, <2>4, <2>5, <2>6, <1>10
<1>13. ASSUME PushWrap(s, t)
       PROVE  /\ Unshifted' = PutElement(PutMarker(Unshifted, head), 0, s, t)
              /\ \A a \in Addr : q + 2 <= a /\ a < e => data'[a] = data[a]
  <2>1. /\ data' = PutElement(PutMarker(data, head), 0, s, t)
        /\ tail <= head /\ s + 3 <= tail
    BY <1>1, <1>13, PushPlace
  <2>2. PICK x, y, z : /\ x = PutMarker(Unshifted, head) /\ y = PutMarker(data, head)
                       /\ z = PutElement(x, 0, s, t)
    OBVIOUS
  <2>3. x \in [Addr -> Byte] /\ \A a \in Addr : a < head => x[a] = Unshifted[a]
    BY <2>2, <1>11, <1>4, PutMarkerBytes
  <2>4. y \in [Addr -> Byte] /\ \A a \in Addr : a < head => y[a] = data[a]
    BY <2>2, <1>11, <1>4, PutMarkerBytes
  <2>5. 0 + 2 + s <= Size /\ e <= head
    BY <2>1, <1>4, <1>5, <1>11
  <2>6. /\ z \in [Addr -> Byte]
        /\ \A a \in Addr : a < 0 \/ a >= 0 + 2 + s => z[a] = x[a]
    BY <2>2, <2>3, <2>5, <1>4, PutElementBytes
  <2>7. \A a \in Addr : a < 0 \/ a >= 0 + 2 + s => data'[a] = y[a]
    BY <2>1, <2>2, <2>4, <2>5, <1>4, PutElementBytes
  <2>8. \A a \in Addr : q + 2 <= a /\ a < e => a >= 0 + 2 + s /\ a < head
    BY <2>1, <2>5, <1>4, AddrMembers
  <2>9. \A a \in Addr : q + 2 <= a /\ a < e => z[a] = Unshifted[a] /\ data'[a] = data[a]
    BY <2>3, <2>4, <2>6, <2>7, <2>8
  <2>10. \A a \in Addr : ~(q + 2 <= a /\ a < e) => data'[a] = z[a]
    <3> SUFFICES ASSUME NEW a \in Addr, ~(q + 2 <= a /\ a < e) PROVE data'[a] = z[a]
      OBVIOUS
    <3>1. data[a] = Unshifted[a]
      BY <1>6
    <3>2. x[a] = y[a]
      BY <3>1, <2>2, <1>11, <1>4, PutMarkerSame
    <3> QED
      BY <3>2, <2>1, <2>2, <2>3, <2>4, <2>5, <1>4, PutElementSame
  <2> QED
    BY <2>2, <2>6, <2>9, <2>10, <1>10
<1> QED
  BY <1>3, <1>8, <1>12, <1>13

(* A push keeps the types of the ring.                                     *)
LEMMA PushTypes ==
  ASSUME TypeOK, Aligned, Lined, NEW s \in Sizes, NEW t \in Tags, ~ExactFit(s),
         ringPush(s, t)
  PROVE  TypeOK'
<1>1. /\ s \in Nat /\ s > 0 /\ t \in Byte /\ Size \in Nat
      /\ head \in Nat /\ head < Size /\ head \in Addr /\ tail \in Nat /\ tail < Size
      /\ data \in [Addr -> Byte] /\ overflow \in Nat /\ unreported \in Nat
  BY SizeMembers, TagsAssumption, SizeNat, FrameFacts, AddrMembers, ByteMembers DEF TypeOK
<1>2. CASE PushRejected(s)
  <2>1. overflow' = (overflow + 1) % 256 /\ unreported' = unreported + 1
    BY <1>2 DEF PushRejected, ByteRange
  <2>2. overflow' \in Byte /\ unreported' \in Nat
    BY <2>1, <1>1, ByteMembers
  <2> QED
    BY <2>2, <1>2 DEF PushRejected, TypeOK, ring, locals
<1>3. CASE PushBack(s, t)
  <2>1. data' = PutElement(data, head, s, t) /\ head' = head + 2 + s /\ head' < Size
    BY <1>3, PushPlace
  <2>2. head + 2 + s <= Size /\ head' \in Addr
    BY <2>1, <1>1, AddrMembers
  <2>3. data' \in [Addr -> Byte]
    BY <2>1, <2>2, <1>1, PutElementBytes
  <2>4. queue' \in Seq(Frame)
    <3>1. [at |-> head, size |-> s, tag |-> t] \in Frame
      BY <1>1 DEF Frame
    <3> QED
      BY <3>1, <1>3 DEF PushBack, TypeOK
  <2> QED
    BY <2>2, <2>3, <2>4, <1>3 DEF PushBack, TypeOK, locals
<1>4. CASE PushWrap(s, t)
  <2>1. /\ data' = PutElement(PutMarker(data, head), 0, s, t)
        /\ head' = 2 + s /\ s + 3 <= tail
    BY <1>4, PushPlace
  <2>2. 0 + 2 + s <= Size /\ head' \in Addr /\ 0 \in Addr
    BY <2>1, <1>1, AddrMembers
  <2>3. PutMarker(data, head) \in [Addr -> Byte]
    BY <1>1, PutMarkerBytes
  <2>4. data' \in [Addr -> Byte]
    BY <2>1, <2>2, <2>3, <1>1, PutElementBytes
  <2>5. queue' \in Seq(Frame)
    <3>1. [at |-> 0, size |-> s, tag |-> t] \in Frame
      BY <2>2 DEF Frame
    <3> QED
      BY <3>1, <1>4 DEF PushWrap, TypeOK
  <2> QED
    BY <2>2, <2>4, <2>5, <1>4 DEF PushWrap, TypeOK, locals
<1> QED
  BY <1>2, <1>3, <1>4 DEF ringPush

(* A step that leaves the ring as it is seen, but for the counts of drops. *)
LEMMA SeenButCounts ==
  ASSUME Seen!IInv, pc # "overflowClear",
         overflow' \in Byte, unreported' \in Nat, overflow' <= unreported',
         Unshifted' = Unshifted, TailToBe' = TailToBe,
         UNCHANGED <<head, pc, locals, view, out, queue>>
  PROVE  Seen!IInv'
<1>1. UNCHANGED <<head, pc, size, want, bytes, cnt, view, out, queue>>
  BY DEF locals
<1>2. /\ Seen!TypeOK /\ Seen!LayoutInv /\ Seen!CallInv /\ Seen!ViewStable
  BY DEF Seen!IInv
<1>3. (Seen!TypeOK)'
  BY <1>1, <1>2, SameOperators DEF Seen!TypeOK
<1>4. (Seen!LayoutInv)'
  BY <1>1, <1>2, SeenSuits, Seen!LayoutKept
<1>5. (Seen!CallInv)' /\ (Seen!ViewStable)'
  BY <1>1, <1>2 DEF Seen!CallInv, Seen!ViewStable, Seen!copySize
<1>6. (Seen!ReportsAreReal)'
  BY <1>1 DEF Seen!ReportsAreReal
<1> QED
  BY <1>3, <1>4, <1>5, <1>6 DEF Seen!IInv

(* The count of drops never passes the drops. *)
LEMMA RejectedCounts ==
  ASSUME TypeOK, overflow <= unreported, NEW s \in Sizes, PushRejected(s)
  PROVE  overflow' \in Byte /\ unreported' \in Nat /\ overflow' <= unreported'
<1>1. overflow \in Nat /\ unreported \in Nat
  BY ByteMembers DEF TypeOK
<1>2. overflow' = (overflow + 1) % 256 /\ unreported' = unreported + 1
  BY DEF PushRejected, ByteRange
<1>3. overflow' \in Nat /\ overflow' < 256 /\ overflow' <= overflow + 1
  BY <1>1, <1>2
<1> QED
  BY <1>1, <1>2, <1>3, ByteMembers

(* With a tail at the front whatever ends before the buffer does has room. *)
LEMMA RoomBehind ==
  ASSUME NEW h \in Nat, NEW s \in Nat, h + 2 + s < Size
  PROVE  s <= ringFree(h, 0)
<1>1. Size \in Nat
  BY SizeNat
<1>2. FreeBack(h, 0) = Size - 1 - 2 - h /\ FreeFront(0) = 0
  BY <1>1 DEF FreeBack, FreeFront, SizeofPos
<1>3. ringFree(h, 0) = Larger(FreeBack(h, 0), FreeFront(0))
  BY DEF ringFree
<1> QED
  BY <1>1, <1>2, <1>3 DEF Larger

(* A push is one of RingBuf on the ring as it is seen, in every phase of   *)
(* the loop and, once the head is assigned, of amrInit.                    *)
LEMMA PushSeen ==
  ASSUME Aligned, LoopInv, ~Renewing, NEW s \in Sizes, NEW t \in Tags, ~ExactFit(s),
         ringPush(s, t), UNCHANGED <<loopVars, app>>
  PROVE  Seen!IInv'
<1>1. /\ Seen!IInv /\ TypeOK /\ Lined /\ PlaceInv /\ RenewInv
      /\ loop' = loop /\ fields' = fields /\ TypeOK'
  BY PushTypes DEF LoopInv, LoopTypeOK, loopVars, app
<1>2. Seen!TypeOK /\ Seen!ReportsAreReal
  BY <1>1 DEF Seen!IInv
<1>3. s \in Nat /\ s > 0 /\ head \in Nat /\ tail \in Nat
  BY <1>1, SizeMembers, FrameFacts
<1>4. ASSUME s <= ringFree(head, TailToBe) PROVE Seen!Clear(s)
  <2>1. Seen!Aligned
    BY DEF Seen!Aligned, Aligned, Seen!SizeofPos, SizeofPos, Seen!ByteRange, ByteRange,
           Seen!PosRange, PosRange
  <2>2. Seen!Lined
    <3>1. 0 % 4 = 0
      OBVIOUS
    <3> QED
      BY <3>1, <1>1 DEF Seen!Lined, Lined, TailToBe
  <2>3. ~Seen!ExactFit(s)
    <3>1. TailToBe = 0 \/ TailToBe = tail
      BY DEF TailToBe
    <3> QED
      BY <3>1 DEF Seen!ExactFit, ExactFit, Seen!SizeofPos, SizeofPos
  <2>4. s <= Seen!ringFree(head, TailToBe)
    BY <1>4, SameOperators
  <2> QED
    BY <2>1, <2>2, <2>3, <2>4, <1>2, SeenSuits, Seen!LinedIsClear
<1>5. CASE PushRejected(s)
  <2>1. overflow <= unreported
    BY <1>2 DEF Seen!ReportsAreReal
  <2>2. overflow' \in Byte /\ unreported' \in Nat /\ overflow' <= unreported'
    BY <2>1, <1>1, <1>5, RejectedCounts
  <2>3. UNCHANGED <<data, head, tail, pc, locals, view, out, queue>>
    BY <1>5 DEF PushRejected, ring
  <2>4. Unshifted' = Unshifted /\ TailToBe' = TailToBe
    BY <2>3, <1>1 DEF Unshifted, Reading, TailToBe
  <2>5. pc # "overflowClear"
    BY <1>1 DEF PlaceInv
  <2> QED
    BY <2>2, <2>3, <2>4, <2>5, <1>1, SeenButCounts
<1>6. ~Reading => Unshifted = data /\ Unshifted' = data'
  <2>1. (TypeOK /\ ~Reading => Unshifted = data)'
    BY SeenAsIs, PTL
  <2>2. Reading' = Reading
    BY <1>1 DEF Reading
  <2> QED
    BY <2>1, <2>2, <1>1, SeenAsIs
<1>7. CASE PushBack(s, t)
  <2>1. Unshifted' = PutElement(Unshifted, head, s, t)
    BY <1>1, <1>6, <1>7, PushPlace, PushWhileReading
  <2>2. TailToBe' = TailToBe
    BY <1>1, <1>7 DEF PushBack, TailToBe
  <2>3. s <= ringFree(head, TailToBe)
    <3>1. CASE loop = "initRing"
      <4>1. head + 2 + s < Size /\ TailToBe = 0
        BY <3>1, <1>1, <1>7, PushPlace DEF TailToBe
      <4> QED
        BY <4>1, <1>3, RoomBehind
    <3>2. CASE loop # "initRing"
      BY <3>2, <1>7 DEF PushBack, TailToBe
    <3> QED
      BY <3>1, <3>2
  <2>4. Seen!PushBack(s, t)
    BY <2>1, <2>2, <2>3, <1>7, SameOperators
       DEF PushBack, Seen!PushBack, locals, Seen!locals
  <2>5. Seen!Clear(s)
    BY <2>3, <1>4
  <2> QED
    BY <2>4, <2>5, <1>1, SeenSuits, Seen!PushBackInv
<1>8. CASE PushWrap(s, t)
  <2>1. loop # "initRing"
    <3> SUFFICES ASSUME loop = "initRing" PROVE FALSE
      OBVIOUS
    <3>1. tail <= head /\ s + 3 <= tail
      BY <1>1, <1>8, PushPlace
    <3>2. tail = 0 \/ head < tail
      BY <1>1 DEF RenewInv, Renewing
    <3> QED
      BY <3>1, <3>2, <1>3
  <2>2. Unshifted' = PutElement(PutMarker(Unshifted, head), 0, s, t)
    BY <1>1, <1>6, <1>8, PushPlace, PushWhileReading
  <2>3. TailToBe' = TailToBe /\ TailToBe = tail
    BY <2>1, <1>1, <1>8 DEF PushWrap, TailToBe
  <2>4. Seen!PushWrap(s, t)
    <3>1. Seen!SizeofPos = SizeofPos
      BY DEF Seen!SizeofPos, SizeofPos
    <3> QED
      BY <2>2, <2>3, <3>1, <1>8, SameOperators
         DEF PushWrap, Seen!PushWrap, locals, Seen!locals
  <2>5. Seen!Clear(s)
    BY <2>3, <1>4, <1>8 DEF PushWrap
  <2> QED
    BY <2>4, <2>5, <1>1, SeenSuits, Seen!PushWrapInv
<1> QED
  BY <1>5, <1>7, <1>8 DEF ringPush

(* The handler pushes, wherever the loop or amrInit is.                    *)
LEMMA HandlerStep ==
  ASSUME Aligned, LoopInv, NEW s \in Sizes, NEW t \in Tags, ~ExactFit(s),
         ringPush(s, t), UNCHANGED <<loopVars, app>>
  PROVE  LoopInv'
<1>1. /\ TypeOK /\ Lined /\ LoopTypeOK /\ PlaceInv /\ ShiftInv /\ RenewInv /\ ParsedRight
      /\ UNCHANGED <<loop, byteAt, parsed, calls, intr, fields>>
  BY DEF LoopInv, LoopTypeOK, loopVars, app
<1>2. UNCHANGED <<tail, pc, size, want, bytes, cnt, view, out>>
  BY DEF ringPush, PushRejected, PushBack, PushWrap, ring, locals
<1>3. TypeOK' /\ Lined'
  BY <1>1, PushTypes, LinedPush
<1>4. LoopTypeOK'
  BY <1>1, <1>2, <1>3 DEF LoopTypeOK, msgSize
<1>5. PlaceInv'
  BY <1>1, <1>2 DEF PlaceInv, Reading
<1>6. ASSUME Reading
      PROVE  /\ queue'[1] = queue[1] /\ queue' # <<>>
             /\ \A a \in Addr : queue[1].at + 2 <= a /\ a < End(queue[1])
                                  => data'[a] = data[a]
  <2>1. CASE PushRejected(s)
    <3>1. queue # <<>>
      BY <1>6, OldestHeld
    <3> QED
      BY <2>1, <3>1 DEF PushRejected, ring
  <2>2. CASE PushBack(s, t) \/ PushWrap(s, t)
    BY <2>2, <1>1, <1>6, PushWhileReading
  <2> QED
    BY <2>1, <2>2 DEF ringPush
<1>7. ParsedRight'
  BY <1>1, <1>6 DEF ParsedRight, Reading
<1>8. ShiftInv'
  <2> SUFFICES ASSUME loop \in {"shift", "parse"}, NEW k \in 0..(queue[1].size - 1)
               PROVE  data'[queue[1].at + 2 + k] = data[queue[1].at + 2 + k]
    <3>1. ASSUME loop \in {"shift", "parse"} PROVE queue'[1] = queue[1] /\ Done' = Done
      BY <3>1, <1>1, <1>6 DEF Reading, Done
    <3> QED
      BY <3>1, <1>1 DEF ShiftInv
  <2>1. Reading
    BY DEF Reading
  <2>2. PICK q, n : q = queue[1].at /\ n = queue[1].size
    OBVIOUS
  <2>3. q \in Nat /\ n \in Nat /\ End(queue[1]) = q + 2 + n /\ q + 2 + n < Size
    BY <2>1, <2>2, OldestHeld
  <2>4. k \in Nat /\ k < n
    BY <2>2, <2>3
  <2>5. PICK a : a = q + 2 + k
    OBVIOUS
  <2>6. a \in Addr /\ q + 2 <= a /\ a < q + 2 + n
    BY <2>3, <2>4, <2>5, AddrMembers
  <2>7. data'[a] = data[a]
    BY <2>1, <2>2, <2>3, <2>6, <1>6
  <2> QED
    BY <2>2, <2>5, <2>7
<1>9. RenewInv'
  <2> SUFFICES ASSUME loop = "initRing"
               PROVE  overflow' <= unreported' /\ (tail # 0 /\ head < tail => head' < tail)
    BY <1>1, <1>2 DEF RenewInv
  <2>1. CASE PushRejected(s)
    BY <2>1, <1>1, RejectedCounts DEF RenewInv, PushRejected, ring
  <2>2. CASE PushBack(s, t)
    BY <2>2, <1>1, PushPlace DEF RenewInv, PushBack
  <2>3. CASE PushWrap(s, t)
    <3>1. tail <= head /\ overflow' = overflow /\ unreported' = unreported
      BY <2>3, <1>1, PushPlace DEF PushWrap
    <3> QED
      BY <3>1, <1>1, FrameFacts DEF RenewInv
  <2> QED
    BY <2>1, <2>2, <2>3 DEF ringPush
<1>10. ~Renewing' => Seen!IInv'
  <2>1. Renewing' = Renewing
    BY <1>1 DEF Renewing
  <2> QED
    BY <2>1, PushSeen
<1> QED
  BY <1>3, <1>4, <1>5, <1>7, <1>8, <1>9, <1>10 DEF LoopInv

-----------------------------------------------------------------------------
(* The application.                                                        *)

(* Steps that leave the whole ring alone, outside a call of amrProcessMsgs *)
(* and of amrInit's assignment.                                            *)
LEMMA AsideStep ==
  ASSUME LoopInv, UNCHANGED <<vars, byteAt, parsed, calls, fields>>,
         ~Reading, loop # "initRing", pc = "ready",
         loop' \in {"peek", "initHal", "initRadio"}, intr' \in BOOLEAN
  PROVE  LoopInv'
<1>1. /\ Seen!IInv /\ TypeOK /\ Lined /\ LoopTypeOK /\ PlaceInv
      /\ byteAt = 0 /\ calls = 0
  BY DEF LoopInv, Renewing, Reading, LoopTypeOK, PlaceInv
<1>2. UNCHANGED <<data, head, tail, overflow, pc, size, want, bytes, cnt, view, out,
                  queue, unreported>>
  BY DEF vars
<1>3. Unshifted' = Unshifted /\ TailToBe' = TailToBe
  BY <1>2 DEF Unshifted, Reading, TailToBe
<1>4. Seen!IInv'
  BY <1>1, <1>2, <1>3, SeenUnchanged DEF locals, history
<1>5. LoopTypeOK'
  BY <1>1, <1>2 DEF LoopTypeOK, TypeOK
<1>6. Lined' /\ PlaceInv' /\ ShiftInv' /\ RenewInv' /\ ParsedRight'
  BY <1>1, <1>2 DEF Lined, PlaceInv, Reading, ShiftInv, RenewInv, ParsedRight
<1> QED
  BY <1>4, <1>5, <1>6 DEF LoopInv

(* ringInit clears the buffer under the messages: until the head is         *)
(* assigned only the types are left.                                       *)
LEMMA ClearStep ==
  ASSUME LoopInv, ClearBuffer
  PROVE  LoopInv'
<1>1. /\ loop = "peek" /\ pc = "ready" /\ loop' = "initRing"
      /\ data' = [a \in Addr |-> 0] /\ view' = NoView
      /\ fields' = {"head", "tail", "overflow"}
      /\ UNCHANGED <<head, tail, overflow, pc, size, want, bytes, cnt, out, queue,
                     unreported, byteAt, parsed, calls, intr>>
  BY DEF ClearBuffer, BetweenCalls, locals, history
<1>2. Seen!IInv /\ TypeOK /\ Lined /\ LoopTypeOK /\ PlaceInv
  BY <1>1 DEF LoopInv, Renewing, LoopTypeOK
<1>3. 0 \in Byte /\ 0 \in Pos /\ 0 \in Addr
  BY ByteMembers, PosMembers, AddrMembers
<1>4. TypeOK'
  BY <1>1, <1>2, <1>3 DEF TypeOK, NoView
<1>5. LoopTypeOK'
  BY <1>1, <1>2, <1>4 DEF LoopTypeOK
<1>6. RenewInv'
  <2>1. want = 0 /\ bytes = {} /\ overflow <= unreported
    BY <1>1, <1>2 DEF Seen!IInv, Seen!TypeOK, Seen!CallInv, Seen!ReportsAreReal
  <2> QED
    BY <2>1, <1>1 DEF RenewInv
<1>7. Renewing'
  BY <1>1 DEF Renewing
<1>8. Lined' /\ PlaceInv' /\ ShiftInv' /\ ParsedRight'
  BY <1>1, <1>2 DEF Lined, PlaceInv, Reading, ShiftInv, ParsedRight
<1> QED
  BY <1>5, <1>6, <1>7, <1>8 DEF LoopInv

(* Each field of the ring, in whatever order: the head's is the one that    *)
(* makes it an empty ring, whose tail will be at the front.                *)
LEMMA AssignStep ==
  ASSUME LoopInv, NEW f \in fields, AssignField(f)
  PROVE  LoopInv'
<1>1. /\ loop = "initRing" /\ fields' = fields \ {f}
      /\ head' = IF f = "head" THEN 0 ELSE head
      /\ tail' = IF f = "tail" THEN 0 ELSE tail
      /\ overflow' = IF f = "overflow" THEN 0 ELSE overflow
      /\ queue' = IF f = "head" THEN <<>> ELSE queue
      /\ unreported' = IF f = "overflow" THEN 0 ELSE unreported
      /\ loop' = IF fields' = {} THEN "initHal" ELSE loop
      /\ UNCHANGED <<data, pc, size, want, bytes, cnt, view, out, byteAt, parsed,
                     calls, intr>>
  BY DEF AssignField, locals
<1>2. TypeOK /\ Lined /\ LoopTypeOK /\ PlaceInv /\ RenewInv
  BY DEF LoopInv, LoopTypeOK
<1>3. /\ view = NoView /\ bytes = {} /\ want = 0 /\ overflow <= unreported
      /\ pc = "ready" /\ byteAt = 0 /\ calls = 0
      /\ "tail" \notin fields => tail = 0
      /\ "head" \notin fields => tail = 0 \/ head < tail
  BY <1>1, <1>2 DEF RenewInv, PlaceInv, LoopTypeOK
<1>4. head \in Nat /\ tail \in Nat /\ overflow \in Nat /\ unreported \in Nat
  BY <1>2, FrameFacts, ByteMembers DEF TypeOK
<1>5. 0 \in Byte /\ 0 \in Pos /\ 0 \in Addr /\ 0 % 4 = 0
  BY ByteMembers, PosMembers, AddrMembers
<1>6. TypeOK'
  <2>1. queue' \in Seq(Frame)
    BY <1>1, <1>2 DEF TypeOK
  <2>2. head' \in Addr /\ tail' \in Addr /\ overflow' \in Byte /\ unreported' \in Nat
    BY <1>1, <1>2, <1>5 DEF TypeOK
  <2> QED
    BY <2>1, <2>2, <1>1, <1>2 DEF TypeOK
<1>7. LoopTypeOK'
  <2>1. fields' \subseteq {"head", "tail", "overflow"} /\ loop' \in {"initRing", "initHal"}
    BY <1>1, <1>2 DEF LoopTypeOK
  <2> QED
    BY <2>1, <1>1, <1>2, <1>3, <1>6 DEF LoopTypeOK
<1>8. Lined'
  BY <1>1, <1>2, <1>5 DEF Lined
<1>9. overflow' <= unreported'
  BY <1>1, <1>3
<1>10. "tail" \notin fields' => tail' = 0
  BY <1>1, <1>3
<1>11. "head" \notin fields' => tail' = 0 \/ head' < tail'
  <2>1. CASE f = "head"
    BY <2>1, <1>1, <1>4
  <2>2. CASE f # "head"
    BY <2>2, <1>1, <1>3
  <2> QED
    BY <2>1, <2>2
<1>12. RenewInv'
  BY <1>1, <1>3, <1>9, <1>10, <1>11 DEF RenewInv
<1>13. PlaceInv' /\ ShiftInv' /\ ParsedRight'
  BY <1>1, <1>3 DEF PlaceInv, Reading, ShiftInv, ParsedRight
<1>14. TailToBe = 0 /\ TailToBe' = 0
  <2>1. loop' # "initRing" => "tail" \notin fields'
    BY <1>1
  <2> QED
    BY <2>1, <1>1, <1>10 DEF TailToBe
<1>15. Unshifted = data /\ Unshifted' = data
  <2>1. data \in [Addr -> Byte]
    BY <1>2 DEF TypeOK
  <2> QED
    BY <2>1, <1>1 DEF Unshifted, Reading
<1>16. ASSUME ~Renewing' PROVE Seen!IInv'
  <2>1. "head" \notin fields'
    BY <1>1, <1>16 DEF Renewing
  <2>2. CASE f = "head"
    <3>1. head' = 0 /\ queue' = <<>>
      BY <2>2, <1>1
    <3>2. (Seen!TypeOK)'
      <4>1. (TypeOK /\ want = 0 /\ Unshifted \in [Addr -> Byte] /\ TailToBe \in Addr
              => Seen!TypeOK)'
        BY TypesSeen, PTL
      <4>2. Unshifted' \in [Addr -> Byte]
        BY <1>2, <1>15 DEF TypeOK
      <4> QED
        BY <4>1, <4>2, <1>1, <1>3, <1>5, <1>6, <1>14
    <3>3. (Seen!LayoutInv)'
      <4>1. Len(queue') = 0 /\ head' = TailToBe' /\ head' # Size - 1
        BY <3>1, <1>14, SizeFacts
      <4>2. (Seen!FramesStored)'
        BY <4>1 DEF Seen!FramesStored
      <4>3. (Seen!FramesLinked)'
        BY <3>1, <4>1 DEF Seen!FramesLinked
      <4>4. (Seen!FramesOrdered)'
        BY <4>1 DEF Seen!FramesOrdered
      <4> QED
        BY <4>1, <4>2, <4>3, <4>4 DEF Seen!LayoutInv
    <3>4. (Seen!CallInv)'
      BY <1>1, <1>3 DEF Seen!CallInv
    <3>5. (Seen!ViewStable)'
      BY <1>1, <1>3 DEF Seen!ViewStable, NoView
    <3>6. (Seen!ReportsAreReal)'
      BY <1>1, <1>3, <1>9 DEF Seen!ReportsAreReal
    <3> QED
      BY <3>2, <3>3, <3>4, <3>5, <3>6 DEF Seen!IInv
  <2>3. CASE f # "head"
    <3>1. Seen!IInv
      BY <2>1, <2>3, <1>1 DEF LoopInv, Renewing
    <3>2. UNCHANGED <<head, pc, locals, view, out, queue>>
      BY <2>3, <1>1 DEF locals
    <3>3. overflow' \in Byte /\ unreported' \in Nat
      BY <1>6 DEF TypeOK
    <3>4. pc # "overflowClear"
      BY <1>3
    <3>5. Unshifted' = Unshifted /\ TailToBe' = TailToBe
      BY <1>14, <1>15
    <3> QED
      BY <3>1, <3>2, <3>3, <3>4, <3>5, <1>9, SeenButCounts
  <2> QED
    BY <2>2, <2>3
<1> QED
  BY <1>7, <1>8, <1>12, <1>13, <1>16 DEF LoopInv

-----------------------------------------------------------------------------
(* The results.                                                            *)

(* The state amrInit leaves.                                               *)
LEMMA LoopInitInv == LoopInit => LoopInv
<1> SUFFICES ASSUME LoopInit PROVE LoopInv
  OBVIOUS
<1>1. /\ Init /\ loop = "peek" /\ byteAt = 0 /\ parsed = Nothing /\ calls = 0
      /\ intr = TRUE /\ fields = {}
  BY DEF LoopInit
<1>2. TypeOK
  BY <1>1, InitInv DEF IInv
<1>3. Unshifted = data /\ TailToBe = tail
  BY <1>1, <1>2, SeenAsIs DEF Reading, TailToBe
<1>4. Seen!Init
  BY <1>1, <1>3, SameOperators
     DEF Init, Seen!Init, NoView, Seen!NoView, Result, Seen!Result
<1>5. Seen!IInv
  BY <1>4, SeenSuits, Seen!InitInv
<1>6. LoopTypeOK
  <2>1. parsed \in [len : Pos, bytes : SUBSET Byte]
    BY <1>1, PosMembers DEF Nothing
  <2> QED
    BY <2>1, <1>1, <1>2 DEF LoopTypeOK
<1>7. Lined
  BY <1>1 DEF Init, Lined
<1>8. PlaceInv /\ ShiftInv /\ RenewInv /\ ParsedRight
  BY <1>1 DEF Init, PlaceInv, Reading, ShiftInv, RenewInv, ParsedRight
<1> QED
  BY <1>5, <1>6, <1>7, <1>8 DEF LoopInv

(* Every step of amrProcessMsgs, the application and the handler, but for   *)
(* an exact fit.                                                           *)
LEMMA LoopStep == Aligned /\ LoopInv /\ [FitLoopNext]_allVars => LoopInv'
<1> SUFFICES ASSUME Aligned, LoopInv, [FitLoopNext]_allVars PROVE LoopInv'
  OBVIOUS
<1>1. CASE amrProcessMsgs
  BY <1>1, PeekStep, ShiftByteStep, ShiftDoneStep, ParseStep, PopStep DEF amrProcessMsgs
<1>2. CASE FitHandler
  BY <1>2, HandlerStep DEF FitHandler, HandlerPushes
<1>3. CASE amrEnable
  <2>1. loop' = loop /\ loop = "peek" /\ pc = "ready" /\ intr' \in BOOLEAN
        /\ UNCHANGED <<vars, byteAt, parsed, calls, fields>>
    BY <1>3 DEF amrEnable, BetweenCalls, loopVars
  <2> QED
    BY <2>1, AsideStep DEF Reading
<1>4. CASE ClearBuffer
  BY <1>4, ClearStep
<1>5. CASE amrInit
  <2>1. CASE \E f \in fields : AssignField(f)
    BY <2>1, AssignStep
  <2>2. CASE IntrOff
    <3>1. pc = "ready"
      BY <2>2 DEF IntrOff, LoopInv, PlaceInv
    <3> QED
      BY <2>2, <3>1, AsideStep DEF IntrOff, Reading
  <2> QED
    BY <1>5, <2>1, <2>2 DEF amrInit
<1>6. CASE RadioUp
  <2>1. pc = "ready"
    BY <1>6 DEF RadioUp, LoopInv, PlaceInv
  <2> QED
    BY <1>6, <2>1, AsideStep DEF RadioUp, Reading
<1>7. CASE UNCHANGED allVars
  <2>1. UNCHANGED <<data, head, tail, overflow, pc, size, want, bytes, cnt, view, out,
                    queue, unreported, loop, byteAt, parsed, calls, intr, fields>>
    BY <1>7 DEF allVars, vars, loopVars, app
  <2>2. Unshifted' = Unshifted /\ TailToBe' = TailToBe /\ Renewing' = Renewing
    BY <2>1 DEF Unshifted, Reading, TailToBe, Renewing
  <2>3. ~Renewing' => Seen!IInv'
    BY <2>1, <2>2, SeenUnchanged DEF LoopInv, locals, history
  <2>4. LoopTypeOK'
    BY <2>1 DEF LoopInv, LoopTypeOK, TypeOK, msgSize
  <2>5. Lined' /\ PlaceInv' /\ ShiftInv' /\ RenewInv' /\ ParsedRight'
    BY <2>1 DEF LoopInv, Lined, PlaceInv, Reading, ShiftInv, Done, RenewInv, ParsedRight
  <2> QED
    BY <2>3, <2>4, <2>5 DEF LoopInv
<1> QED
  BY <1>1, <1>2, <1>3, <1>4, <1>5, <1>6, <1>7 DEF FitLoopNext

(* The inductive invariant, for the sizes of amr.c and its ring.           *)
LEMMA LoopInvariant == Aligned /\ FitLoopSpec => []LoopInv
<1>1. LoopInit => LoopInv
  BY LoopInitInv
<1>2. Aligned /\ LoopInv /\ [FitLoopNext]_allVars => LoopInv'
  BY LoopStep
<1>3. Aligned => []Aligned
  <2>1. Aligned => Aligned'
    BY DEF Aligned
  <2> QED
    BY <2>1, PTL
<1> QED
  BY <1>1, <1>2, <1>3, PTL DEF FitLoopSpec

(* The indices of ring and shift stay in range: the one-byte index of the  *)
(* shift never wraps, whatever the handler pushes meanwhile, as long as no *)
(* push is an exact fit.                                                   *)
THEOREM LoopTypes == Aligned /\ FitLoopSpec => []LoopTypeOK
<1>1. LoopInv => LoopTypeOK
  BY DEF LoopInv
<1> QED
  BY <1>1, LoopInvariant, PTL

(* The shift in place and the pushes of the handler, also during amrInit,  *)
(* never damage a message that waits, nor the way to it, as long as no     *)
(* push is an exact fit.                                                   *)
THEOREM LoopOthersIntact == Aligned /\ FitLoopSpec => []OthersIntact
<1>1. LoopInv => OthersIntact
  BY LoopIntact
<1> QED
  BY <1>1, LoopInvariant, PTL

(* The parser reads the oldest message, shifted exactly once and whole,    *)
(* and the callback has run once for it exactly if it is valid, when it is *)
(* popped: in amr.c's own ring of 512 bytes and in any aligned one, up to  *)
(* the first exact fit.                                                    *)
THEOREM LoopParsesRight == Aligned /\ FitLoopSpec => []ParsedRight
<1>1. LoopInv => ParsedRight
  BY DEF LoopInv
<1> QED
  BY <1>1, LoopInvariant, PTL

=============================================================================
