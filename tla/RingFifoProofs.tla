--------------------------- MODULE RingFifoProofs ---------------------------
(***************************************************************************)
(* What the ring promises its users, for every buffer length and every set *)
(* of message sizes: it is the lossy queue of MsgFifo, it answers its free *)
(* space exactly but for the exact fit, and once drained takes any message.*)
(***************************************************************************)
EXTENDS RingBufProofs, SequenceTheorems

-----------------------------------------------------------------------------
(* The free space.                                                         *)

(* With indices that are multiples of four ringFree and ringPush disagree  *)
(* by one byte in one case only, the exact fit.                            *)
LEMMA LinedFreeIsExact ==
  ASSUME TypeOK, Aligned, Lined
  PROVE  FreeIsExact
<1> SUFFICES ASSUME NEW s \in Sizes
             PROVE  s <= ringFree(head, tail) <=> (Fits(s) \/ ExactFit(s))
  BY DEF FreeIsExact
<1>1. s \in Nat /\ s > 0
  BY SizeMembers
<1>2. head \in Nat /\ head < Size /\ tail \in Nat /\ tail < Size
      /\ Size \in Nat /\ 2 < Size /\ Size < 65536
  BY AddrMembers DEF TypeOK
<1>3. head + 2 + s # Size - 1 /\ tail # head + 2
  BY LinedBounds
<1>4. CASE head >= tail
  <2>1. s <= FreeBack(head, tail)
          <=> head + 2 + s < Size \/ (tail # 0 /\ head + 2 + s = Size)
    BY <1>1, <1>2, <1>3 DEF FreeBack, SizeofPos
  <2>2. s <= FreeFront(tail) <=> s + 2 < tail
    BY <1>1, <1>2 DEF FreeFront, SizeofPos
  <2>3. FreeBack(head, tail) \in Int /\ FreeFront(tail) \in Int
    BY <1>2 DEF FreeBack, FreeFront, SizeofPos
  <2>4. ringFree(head, tail) = Larger(FreeBack(head, tail), FreeFront(tail))
    BY <1>4 DEF ringFree
  <2>5. s <= ringFree(head, tail)
          <=> s <= FreeBack(head, tail) \/ s <= FreeFront(tail)
    BY <1>1, <2>3, <2>4 DEF Larger
  <2>6. Fits(s) <=> head + 2 + s < Size \/ s + 2 < tail
    BY <1>4 DEF Fits, SizeofPos
  <2>7. ExactFit(s) <=> 0 < tail /\ head + 2 + s = Size /\ tail <= s + 2
    BY <1>4, <1>2 DEF ExactFit, SizeofPos
  <2> QED
    BY <1>1, <1>2, <2>1, <2>2, <2>5, <2>6, <2>7
<1>5. CASE head < tail
  <2>1. ringFree(head, tail) = IF tail >= head + 2 THEN tail - head - 3 ELSE 0
    BY <1>2, <1>3, <1>5 DEF ringFree, FreeGap, SizeofPos, PosRange
  <2>2. ~ExactFit(s)
    BY <1>2, <1>5 DEF ExactFit
  <2>3. Fits(s) <=> head + 2 + s < tail
    BY <1>2, <1>5 DEF Fits, SizeofPos
  <2> QED
    BY <1>1, <1>2, <1>5, <2>1, <2>2, <2>3
<1> QED
  BY <1>2, <1>4, <1>5

(* With the messages of amr.c, in its own ring or any aligned one, the      *)
(* producer is never turned away when there is room (ringFree), and the    *)
(* only room it is promised that ringPush does not have is an exact fit.   *)
THEOREM AlignedFree == Aligned /\ FitSpec => []FreeIsExact
<1>1. Aligned => (IInv /\ Lined => FreeIsExact)
  BY LinedFreeIsExact DEF IInv
<1>2. Aligned => []Aligned
  <2>1. Aligned => Aligned'
    BY DEF Aligned
  <2> QED
    BY <2>1, PTL
<1> QED
  BY <1>1, <1>2, AlignedInvariant, PTL

(* The buffer is longer than two of the longest messages with their size    *)
(* fields: one hole or the other is then long enough.                      *)
Ample == \A s \in Sizes : 2 * (s + SizeofPos) < Size

(* Wherever the indices of an empty ring stopped, each message fits.        *)
LEMMA AmpleTakesAll ==
  ASSUME TypeOK, Ample
  PROVE  EmptyTakesAll
<1> SUFFICES ASSUME head = tail, NEW s \in Sizes
             PROVE  s <= ringFree(head, tail) /\ ~ExactFit(s)
  BY DEF EmptyTakesAll, IsEmpty
<1>1. s \in Nat /\ s > 0 /\ 2 * (s + 2) < Size
  BY SizeMembers DEF Ample, SizeofPos
<1>2. head \in Nat /\ head < Size /\ Size \in Nat
  BY AddrMembers DEF TypeOK
<1>3. ringFree(head, tail) = Larger(FreeBack(head, head), FreeFront(head))
  BY <1>2 DEF ringFree
<1>4. FreeBack(head, head) \in Int /\ FreeFront(head) \in Int
  BY <1>2 DEF FreeBack, FreeFront, SizeofPos
<1>5. s <= FreeBack(head, head) \/ s <= FreeFront(head)
  BY <1>1, <1>2 DEF FreeBack, FreeFront, SizeofPos
<1>6. s <= ringFree(head, tail)
  BY <1>1, <1>3, <1>4, <1>5 DEF Larger
<1>7. ~ExactFit(s)
  BY <1>1, <1>2 DEF ExactFit, SizeofPos
<1> QED
  BY <1>6, <1>7

(* A ring that has been drained takes a message of any size, wherever its  *)
(* indices stopped, and without an exact fit: no message is turned away    *)
(* for ever, or lost at once (ringFree, ringPush).                         *)
THEOREM AlignedTakesAll == Aligned /\ Ample /\ FitSpec => []EmptyTakesAll
<1>1. Ample => (IInv => EmptyTakesAll)
  BY AmpleTakesAll DEF IInv
<1>2. Ample => []Ample
  <2>1. Ample => Ample'
    BY DEF Ample
  <2> QED
    BY <2>1, PTL
<1> QED
  BY <1>1, <1>2, AlignedInvariant, PTL

-----------------------------------------------------------------------------
(* The ring as a queue: how Contents follows each step.                    *)

(* The message a frame carries, and those of a sequence of frames.          *)
Message(f) == [size |-> f.size, tag |-> f.tag]
MessagesOf(S) == {Message(f) : f \in S}
Messages(q) == [i \in 1..Len(q) |-> Message(q[i])]

LEMMA MessagesFacts ==
  ASSUME NEW S, NEW q \in Seq(S)
  PROVE  /\ Messages(q) \in Seq(MessagesOf(S))
         /\ Len(Messages(q)) = Len(q)
         /\ \A i \in 1..Len(q) : Messages(q)[i] = Message(q[i])
<1>1. Len(q) \in Nat /\ \A i \in 1..Len(q) : q[i] \in S
  OBVIOUS
<1>2. Messages(q) \in [1..Len(q) -> MessagesOf(S)]
  BY <1>1 DEF Messages, MessagesOf
<1>3. Messages(q) \in Seq(MessagesOf(S))
  BY <1>1, <1>2, IsASeq
<1>4. DOMAIN Messages(q) = 1..Len(q)
  BY DEF Messages
<1>5. Len(Messages(q)) = Len(q)
  BY <1>1, <1>3, <1>4, LenProperties
<1> QED
  BY <1>3, <1>5 DEF Messages

(* The oldest frame carries the oldest message.                            *)
LEMMA MessagesHead ==
  ASSUME NEW S, NEW q \in Seq(S)
  PROVE  /\ q = <<>> <=> Messages(q) = <<>>
         /\ q # <<>> => Head(Messages(q)) = Message(q[1])
<1>1. /\ Messages(q) \in Seq(MessagesOf(S)) /\ Len(Messages(q)) = Len(q)
      /\ \A i \in 1..Len(q) : Messages(q)[i] = Message(q[i])
  BY MessagesFacts
<1>2. q = <<>> <=> Messages(q) = <<>>
  BY <1>1, EmptySeq
<1>3. ASSUME q # <<>> PROVE Head(Messages(q)) = Message(q[1])
  <2>1. 1 \in 1..Len(q)
    BY <1>3, EmptySeq
  <2>2. Head(Messages(q)) = Messages(q)[1]
    BY <1>1, <1>2, <1>3, HeadTailProperties
  <2> QED
    BY <1>1, <2>1, <2>2
<1> QED
  BY <1>2, <1>3

(* Accepting a frame appends its message.                                  *)
LEMMA MessagesAppend ==
  ASSUME NEW S, NEW q \in Seq(S), NEW f \in S, NEW r, r = Append(q, f)
  PROVE  Messages(r) = Append(Messages(q), Message(f))
<1>1. /\ r \in Seq(S) /\ Len(q) \in Nat /\ Len(r) = Len(q) + 1
      /\ \A i \in 1..Len(q) : r[i] = q[i]
      /\ r[Len(q) + 1] = f
  BY AppendFacts
<1>2. /\ Messages(q) \in Seq(MessagesOf(S)) /\ Len(Messages(q)) = Len(q)
      /\ \A i \in 1..Len(q) : Messages(q)[i] = Message(q[i])
  BY MessagesFacts
<1>3. /\ Messages(r) \in Seq(MessagesOf(S)) /\ Len(Messages(r)) = Len(r)
      /\ \A i \in 1..Len(r) : Messages(r)[i] = Message(r[i])
  BY <1>1, MessagesFacts
<1>4. Message(f) \in MessagesOf(S)
  BY DEF MessagesOf
<1>5. /\ Append(Messages(q), Message(f)) \in Seq(MessagesOf(S))
      /\ Len(Append(Messages(q), Message(f))) = Len(q) + 1
      /\ \A i \in 1..Len(q) : Append(Messages(q), Message(f))[i] = Messages(q)[i]
      /\ Append(Messages(q), Message(f))[Len(q) + 1] = Message(f)
  BY <1>2, <1>4, AppendFacts
<1>6. \A i \in 1..Len(r) : Messages(r)[i] = Append(Messages(q), Message(f))[i]
  <2> SUFFICES ASSUME NEW i \in 1..Len(r)
               PROVE  Messages(r)[i] = Append(Messages(q), Message(f))[i]
    OBVIOUS
  <2>1. CASE i \in 1..Len(q)
    BY <2>1, <1>1, <1>2, <1>3, <1>5
  <2>2. CASE i = Len(q) + 1
    <3>1. Messages(r)[i] = Message(r[i])
      BY <1>3
    <3>2. r[i] = f /\ Append(Messages(q), Message(f))[i] = Message(f)
      BY <2>2, <1>1, <1>5
    <3> QED
      BY <3>1, <3>2
  <2>3. i \in 1..Len(q) \/ i = Len(q) + 1
    BY <1>1
  <2> QED
    BY <2>1, <2>2, <2>3
<1> QED
  BY <1>1, <1>3, <1>5, <1>6, SeqEqual

(* Popping a frame drops the oldest message.                               *)
LEMMA MessagesTail ==
  ASSUME NEW S, NEW q \in Seq(S), q # <<>>, NEW r, r = Tail(q)
  PROVE  Messages(r) = Tail(Messages(q))
<1>1. /\ r \in Seq(S) /\ Len(q) \in Nat /\ Len(q) > 0 /\ Len(r) = Len(q) - 1
      /\ \A i \in 1..(Len(q) - 1) : r[i] = q[i + 1]
  BY TailFacts
<1>2. /\ Messages(q) \in Seq(MessagesOf(S)) /\ Len(Messages(q)) = Len(q)
      /\ \A i \in 1..Len(q) : Messages(q)[i] = Message(q[i])
      /\ Messages(q) # <<>>
  BY MessagesFacts, MessagesHead
<1>3. /\ Messages(r) \in Seq(MessagesOf(S)) /\ Len(Messages(r)) = Len(r)
      /\ \A i \in 1..Len(r) : Messages(r)[i] = Message(r[i])
  BY <1>1, MessagesFacts
<1>4. /\ Tail(Messages(q)) \in Seq(MessagesOf(S))
      /\ Len(Tail(Messages(q))) = Len(q) - 1
      /\ \A i \in 1..(Len(q) - 1) : Tail(Messages(q))[i] = Messages(q)[i + 1]
  BY <1>2, TailFacts
<1>5. \A i \in 1..Len(r) : Messages(r)[i] = Tail(Messages(q))[i]
  <2> SUFFICES ASSUME NEW i \in 1..Len(r)
               PROVE  Messages(r)[i] = Tail(Messages(q))[i]
    OBVIOUS
  <2>1. i \in 1..(Len(q) - 1) /\ i + 1 \in 1..Len(q)
    BY <1>1
  <2>2. Messages(r)[i] = Message(r[i]) /\ r[i] = q[i + 1]
    BY <1>1, <1>3, <2>1
  <2>3. Tail(Messages(q))[i] = Message(q[i + 1])
    BY <1>2, <1>4, <2>1
  <2> QED
    BY <2>2, <2>3
<1> QED
  BY <1>1, <1>3, <1>4, <1>5, SeqEqual

-----------------------------------------------------------------------------
(* The refinement.                                                         *)

(* Inside ringPop the length asked for is still the caller's.              *)
WantInv == pc \in {"popLoad", "popWrap", "popCopy", "popAdvance"} => want \in OutSizes

LEMMA WantStep == WantInv /\ [Next]_vars => WantInv'
<1> SUFFICES ASSUME WantInv, [Next]_vars PROVE WantInv'
  OBVIOUS
<1>1. CASE ringPeek
  BY <1>1 DEF WantInv, ringPeek, PeekEmpty, PeekCheck, PeekLoad, PeekWrap, locals
<1>2. CASE ringPop
  BY <1>2 DEF WantInv, ringPop, PopEmpty, PopCheck, PopLoad, PopWrap, PopCopy,
              PopAdvance, locals
<1>3. CASE ringOverflowed
  BY <1>3 DEF WantInv, ringOverflowed, OverflowRead, OverflowClear
<1>4. ASSUME NEW s \in Sizes, NEW t \in Tags, ringPush(s, t) PROVE WantInv'
  BY <1>4 DEF WantInv, ringPush, PushRejected, PushBack, PushWrap, locals
<1>5. CASE UNCHANGED vars
  BY <1>5 DEF WantInv, vars
<1> QED
  BY <1>1, <1>2, <1>3, <1>4, <1>5 DEF Next, Consumer

(* The queue of MsgFifo is the messages of the frames.                     *)
LEMMA ContentsAre == Contents = Messages(queue) /\ Contents' = Messages(queue')
  BY DEF Contents, Messages, Message

(* The ring looks empty only when no frame is left.                        *)
LEMMA EmptyMeansEmpty ==
  ASSUME TypeOK, LayoutInv, IsEmpty
  PROVE  Contents = <<>>
<1>1. queue = <<>>
  <2> SUFFICES ASSUME queue # <<>> PROVE FALSE
    OBVIOUS
  <2>1. 1 \in 1..Len(queue)
    BY FrameFacts
  <2>2. Unrolled(tail, queue[1].at) + 2 + queue[1].size <= Unrolled(tail, head)
    BY <2>1 DEF LayoutInv, FramesOrdered, SizeofPos
  <2>3. Unrolled(tail, head) = tail
    BY OldestFacts DEF IsEmpty, Unrolled
  <2>4. Unrolled(tail, queue[1].at) >= tail /\ Unrolled(tail, queue[1].at) \in Nat
    BY OldestFacts, SizeNat DEF Unrolled
  <2> QED
    BY <2>2, <2>3, <2>4, OldestFacts
<1> QED
  BY <1>1, ContentsAre, MessagesHead DEF TypeOK

(* A step that changes neither the queue nor the result is a stutter.      *)
LEMMA FifoStutter ==
  ASSUME UNCHANGED <<queue, out>>
  PROVE  UNCHANGED Fifo!vars
  BY ContentsAre DEF Fifo!vars

(* An accepted message is a Put, a refused one a stutter.                  *)
LEMMA FifoPush ==
  ASSUME TypeOK, NEW s \in Sizes, NEW t \in Tags, ringPush(s, t)
  PROVE  [Fifo!Next]_(Fifo!vars)
<1>1. CASE PushRejected(s)
  BY <1>1, FifoStutter DEF PushRejected, history
<1>2. ASSUME NEW p \in Addr, queue' = Append(queue, [at |-> p, size |-> s, tag |-> t]),
             UNCHANGED out
      PROVE  Fifo!Next
  <2> DEFINE f == [at |-> p, size |-> s, tag |-> t]
  <2>1. t \in Byte
    BY TagsAssumption
  <2>2. f \in Frame /\ queue \in Seq(Frame) /\ Message(f) = [size |-> s, tag |-> t]
    BY <2>1 DEF Frame, TypeOK, Message
  <2>3. queue' = Append(queue, f)
    BY <1>2
  <2> HIDE DEF f
  <2>4. Messages(queue') = Append(Messages(queue), Message(f))
    BY <2>2, <2>3, MessagesAppend
  <2>5. Contents' = Append(Contents, [size |-> s, tag |-> t])
    BY <2>2, <2>4, ContentsAre
  <2> QED
    BY <1>2, <2>5 DEF Fifo!Next, Fifo!Put
<1>3. CASE PushBack(s, t)
  BY <1>2, <1>3 DEF PushBack, TypeOK
<1>4. CASE PushWrap(s, t)
  <2>1. 0 \in Addr
    BY SizeFacts, AddrMembers
  <2> QED
    BY <1>2, <1>4, <2>1 DEF PushWrap
<1> QED
  BY <1>1, <1>3, <1>4 DEF ringPush

(* What the oldest frame says of the oldest message.                       *)
LEMMA OldestMessage ==
  ASSUME TypeOK, queue # <<>>
  PROVE  /\ Contents # <<>>
         /\ Head(Contents) = Message(queue[1])
         /\ Head(Contents).size = queue[1].size /\ Head(Contents).tag = queue[1].tag
<1>1. Contents # <<>> /\ Head(Contents) = Message(queue[1])
  BY ContentsAre, MessagesHead DEF TypeOK
<1> QED
  BY <1>1 DEF Message

(* A ringPeek that answers is a Look, or finds the queue empty.             *)
LEMMA FifoPeek ==
  ASSUME TypeOK, LayoutInv, CallInv, ringPeek
  PROVE  [Fifo!Next]_(Fifo!vars)
<1>1. CASE PeekEmpty
  <2>1. Contents' = Contents /\ Contents = <<>> /\ out' = Result("peek", 0, {})
    BY <1>1, EmptyMeansEmpty, ContentsAre DEF PeekEmpty, history
  <2> QED
    BY <2>1 DEF Fifo!Next, Fifo!FindEmpty, Fifo!Result, Result
<1>2. CASE PeekCheck
  BY <1>2, FifoStutter DEF PeekCheck, history
<1>3. ASSUME queue # <<>>, UNCHANGED queue, out' = Result("peek", queue[1].size, {})
      PROVE  Fifo!Next
  <2>1. Contents' = Contents /\ Contents # <<>>
        /\ out' = Result("peek", Head(Contents).size, {})
    BY <1>3, OldestMessage, ContentsAre
  <2> QED
    BY <2>1 DEF Fifo!Next, Fifo!Look, Fifo!Result, Result
<1>4. CASE PeekLoad
  <2>1. queue # <<>> /\ UNCHANGED queue
    BY <1>4 DEF PeekLoad, CallInv, history
  <2>2. PICK n \in SizesAt(data, tail) :
          \/ n # 0 /\ out' = Result("peek", n, {})
          \/ n = 0 /\ UNCHANGED out
    BY <1>4 DEF PeekLoad
  <2>3. CASE n # 0
    <3>1. n = queue[1].size
      BY <2>1, <2>3, LoadAtTail
    <3> QED
      BY <1>3, <2>1, <2>2, <2>3, <3>1
  <2>4. CASE n = 0
    BY <2>1, <2>2, <2>4, FifoStutter
  <2> QED
    BY <2>3, <2>4
<1>5. CASE PeekWrap
  <2>1. queue # <<>> /\ queue[1].at = 0 /\ queue[1].size < ByteRange
    BY <1>5 DEF PeekWrap, CallInv
  <2>2. data[0] = queue[1].size
    BY <2>1, FrontByte
  <2> QED
    BY <1>3, <1>5, <2>1, <2>2 DEF PeekWrap, history
<1> QED
  BY <1>1, <1>2, <1>4, <1>5 DEF ringPeek

(* The last step of a ringPop takes the oldest message, the others stutter. *)
LEMMA FifoPop ==
  ASSUME TypeOK, LayoutInv, CallInv, WantInv, ringPop
  PROVE  [Fifo!Next]_(Fifo!vars)
<1>1. CASE PopEmpty
  <2>1. Contents' = Contents /\ Contents = <<>> /\ out' = Result("pop", 0, {})
    BY <1>1, EmptyMeansEmpty, ContentsAre DEF PopEmpty, history
  <2> QED
    BY <2>1 DEF Fifo!Next, Fifo!FindEmpty, Fifo!Result, Result
<1>2. ASSUME NEW m \in OutSizes, PopCheck(m) PROVE UNCHANGED Fifo!vars
  BY <1>2, FifoStutter DEF PopCheck, history
<1>3. CASE PopLoad
  BY <1>3, FifoStutter DEF PopLoad, history
<1>4. CASE PopWrap
  BY <1>4, FifoStutter DEF PopWrap, history
<1>5. CASE PopCopy
  BY <1>5, FifoStutter DEF PopCopy, history
<1>6. CASE PopAdvance
  <2> DEFINE f == queue[1]
  <2>1. queue # <<>> /\ size = f.size /\ want \in OutSizes
        /\ bytes = IF copySize = 0 THEN {} ELSE {f.tag}
    BY <1>6 DEF PopAdvance, CallInv, WantInv
  <2>2. f.size \in Nat /\ f.size > 0 /\ want \in Nat
    BY <2>1, OldestFacts, OutSizesAssumption, PosMembers
  <2>3. copySize = IF want < f.size THEN want ELSE f.size
    BY <2>1 DEF copySize, Smaller
  <2>4. queue' = Tail(queue)
        /\ out' = Result("pop", IF want = 0 THEN size ELSE copySize, bytes)
    BY <1>6, <2>1 DEF PopAdvance
  <2>5. Contents' = Tail(Contents)
    BY <2>1, <2>4, MessagesTail, ContentsAre DEF TypeOK
  <2>6. /\ Contents # <<>>
        /\ Head(Contents).size = f.size /\ Head(Contents).tag = f.tag
    BY <2>1, OldestMessage
  <2> HIDE DEF f
  <2>7. (IF want = 0 THEN size ELSE copySize)
          = IF want # 0 /\ want < f.size THEN want ELSE f.size
    BY <2>1, <2>2, <2>3
  <2>8. bytes = IF want = 0 THEN {} ELSE {f.tag}
    BY <2>1, <2>2, <2>3
  <2>9. Fifo!Take(want)
    BY <2>4, <2>5, <2>6, <2>7, <2>8 DEF Fifo!Take, Fifo!Result, Result
  <2> QED
    BY <2>1, <2>9 DEF Fifo!Next
<1> QED
  BY <1>1, <1>2, <1>3, <1>4, <1>5, <1>6 DEF ringPop

(* Every step of the ring is a step of the lossy queue, or a stutter.      *)
LEMMA FifoStep == IInv /\ WantInv /\ [Next]_vars => [Fifo!Next]_(Fifo!vars)
<1> SUFFICES ASSUME IInv, WantInv, [Next]_vars PROVE [Fifo!Next]_(Fifo!vars)
  OBVIOUS
<1>1. TypeOK /\ LayoutInv /\ CallInv
  BY DEF IInv
<1>2. CASE ringPeek
  BY <1>1, <1>2, FifoPeek
<1>3. CASE ringPop
  BY <1>1, <1>3, FifoPop
<1>4. CASE ringOverflowed
  BY <1>4, FifoStutter DEF ringOverflowed, OverflowRead, OverflowClear, history
<1>5. ASSUME NEW s \in Sizes, NEW t \in Tags, ringPush(s, t)
      PROVE  [Fifo!Next]_(Fifo!vars)
  BY <1>1, <1>5, FifoPush
<1>6. CASE UNCHANGED vars
  BY <1>6, FifoStutter DEF vars
<1> QED
  BY <1>2, <1>3, <1>4, <1>5, <1>6 DEF Next, Consumer

LEMMA FifoInit == Init => Fifo!Init /\ WantInv
<1> SUFFICES ASSUME Init PROVE Fifo!Init /\ WantInv
  OBVIOUS
<1>1. queue = <<>> /\ out = Result("none", 0, {}) /\ pc = "ready"
  BY DEF Init
<1>2. Contents = <<>>
  BY <1>1, ContentsAre, InitInv, MessagesHead DEF IInv, TypeOK
<1> QED
  BY <1>1, <1>2 DEF Fifo!Init, Fifo!Result, Result, WantInv

(* Whatever the interrupt handler does between the main loop's loads and   *)
(* stores, the ring behaves as a lossy first-in first-out queue: each      *)
(* accepted message is handed out once, whole or cut to the buffer, and in *)
(* order (ringPush, ringPeek and ringPop), for a producer that stays clear *)
(* of the five cases.                                                      *)
THEOREM SafeFifo == SafeSpec => RefinesFifo
<1>1. SafeNext => Next
  BY DEF SafeNext, Next, ringPush
<1>2. WantInv /\ [SafeNext]_vars => WantInv'
  BY <1>1, WantStep
<1>3. IInv /\ WantInv /\ [SafeNext]_vars => [Fifo!Next]_(Fifo!vars)
  BY <1>1, FifoStep
<1> QED
  BY <1>2, <1>3, FifoInit, SafeInvariant, PTL DEF SafeSpec, RefinesFifo, Fifo!Spec

(* The same with the messages of amr.c, in its own ring or any aligned one, *)
(* as long as no push is an exact fit.                                     *)
THEOREM AlignedFifo == Aligned /\ FitSpec => RefinesFifo
<1>1. FitNext => Next
  BY DEF FitNext, Next
<1>2. WantInv /\ [FitNext]_vars => WantInv'
  BY <1>1, WantStep
<1>3. IInv /\ WantInv /\ [FitNext]_vars => [Fifo!Next]_(Fifo!vars)
  BY <1>1, FifoStep
<1> QED
  BY <1>2, <1>3, FifoInit, AlignedInvariant, PTL DEF FitSpec, RefinesFifo, Fifo!Spec

=============================================================================
