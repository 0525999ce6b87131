------------------------------ MODULE RingBuf ------------------------------
(***************************************************************************)
(* The message ring of ring/ringbuf.c, shared by an interrupt handler that *)
(* pushes and a main loop that peeks, pops and reads the overflow count.   *)
(*                                                                         *)
(* The handler runs to completion, so ringPush is one step, but it may run *)
(* between any two steps of the main loop: each access of the main loop's  *)
(* calls to a field the handler also uses is a step of its own.            *)
(*                                                                         *)
(* queue is a history variable: the elements accepted and not yet popped,  *)
(* oldest first, with the address each was written at.  The properties     *)
(* relate it to the bytes and indices the code keeps.                      *)
(***************************************************************************)
EXTENDS RingMem, Sequences

CONSTANTS Sizes,        \* payload sizes passed to ringPush
          Tags,         \* payload contents
          OutSizes,     \* maxsize arguments of ringPop; 0 also stands for outbuf = NULL
          MaxRejects    \* bound on rejected pushes nobody has asked about

ASSUME SizesAssumption == Sizes \subseteq Pos \ {0}
ASSUME TagsAssumption == Tags \subseteq Byte
ASSUME OutSizesAssumption == OutSizes \subseteq Pos
ASSUME MaxRejectsAssumption == MaxRejects \in Nat

VARIABLES data, head, tail, overflow,  \* struct Ring
          pc,                          \* where the main loop is in its call
          size, want, bytes, cnt,      \* locals of the call
          view,                        \* what the last ringPeek gave out
          out,                         \* result of the last ringPeek or ringPop
          queue,                       \* history: accepted and not popped
          unreported                   \* history: rejected and not reported

ring == <<data, head, tail>>
locals == <<size, want, bytes, cnt>>
history == <<queue, unreported>>
vars == <<data, head, tail, overflow, pc, size, want, bytes, cnt, view, out,
          queue, unreported>>

NoView == [at |-> 0, size |-> 0]
Result(call, len, bs) == [call |-> call, len |-> len, bytes |-> bs]

Frame == [at : Addr, size : Sizes, tag : Tags]
End(f) == f.at + SizeofPos + f.size

(* ringInit: a zeroed buffer, both indices at its start. *)
Init ==
  /\ data = [a \in Addr |-> 0]
  /\ head = 0 /\ tail = 0 /\ overflow = 0
  /\ pc = "ready"
  /\ size = 0 /\ want = 0 /\ bytes = {} /\ cnt = 0
  /\ view = NoView
  /\ out = Result("none", 0, {})
  /\ queue = <<>>
  /\ unreported = 0

(* ringStatus(ring) == RING_STATUS_EMPTY *)
IsEmpty == head = tail

-----------------------------------------------------------------------------
(* The interrupt handler.                                                  *)

PushRejected(s) ==
  /\ s > ringFree(head, tail)
  /\ unreported < MaxRejects
  /\ overflow' = (overflow + 1) % ByteRange
  /\ unreported' = unreported + 1
  /\ UNCHANGED <<ring, pc, locals, view, out, queue>>

newHead(s) == (head + SizeofPos + s) % PosRange

PushBack(s, t) ==
  /\ s <= ringFree(head, tail)
  /\ newHead(s) < Size
  /\ data' = PutElement(data, head, s, t)
  /\ head' = newHead(s)
  /\ queue' = Append(queue, [at |-> head, size |-> s, tag |-> t])
  /\ UNCHANGED <<tail, overflow, pc, locals, view, out, unreported>>

PushWrap(s, t) ==
  /\ s <= ringFree(head, tail)
  /\ newHead(s) >= Size
  /\ data' = PutElement(PutMarker(data, head), 0, s, t)
  /\ head' = SizeofPos + s
  /\ queue' = Append(queue, [at |-> 0, size |-> s, tag |-> t])
  /\ UNCHANGED <<tail, overflow, pc, locals, view, out, unreported>>

ringPush(s, t) == PushRejected(s) \/ PushBack(s, t) \/ PushWrap(s, t)

-----------------------------------------------------------------------------
(* ringPeek, called by the main loop.                                      *)

PeekEmpty ==
  /\ pc = "ready" /\ IsEmpty
  /\ out' = Result("peek", 0, {})
  /\ UNCHANGED <<ring, overflow, pc, locals, view, history>>

PeekCheck ==
  /\ pc = "ready" /\ ~IsEmpty
  /\ pc' = "peekLoad"
  /\ UNCHANGED <<ring, overflow, locals, view, out, history>>

PeekLoad ==
  /\ pc = "peekLoad"
  /\ \E n \in SizesAt(data, tail) :
       \/ /\ n # 0
          /\ pc' = "ready"
          /\ view' = [at |-> tail, size |-> n]
          /\ out' = Result("peek", n, {})
       \/ /\ n = 0
          /\ pc' = "peekWrap"
          /\ UNCHANGED <<view, out>>
  /\ UNCHANGED <<ring, overflow, locals, history>>

(* The size of an element at the front is read as a single byte. *)
PeekWrap ==
  /\ pc = "peekWrap"
  /\ tail' = 0
  /\ pc' = "ready"
  /\ view' = [at |-> 0, size |-> data[0]]
  /\ out' = Result("peek", data[0], {})
  /\ UNCHANGED <<data, head, overflow, locals, history>>

-----------------------------------------------------------------------------
(* ringPop, called by the main loop.                                       *)

PopEmpty ==
  /\ pc = "ready" /\ IsEmpty
  /\ out' = Result("pop", 0, {})
  /\ UNCHANGED <<ring, overflow, pc, locals, view, history>>

PopCheck(m) ==
  /\ pc = "ready" /\ ~IsEmpty
  /\ tail' = IF tail + SizeofPos >= Size THEN 0 ELSE tail
  /\ want' = m
  /\ pc' = "popLoad"
  /\ UNCHANGED <<data, head, overflow, size, bytes, cnt, view, out, history>>

PopLoad ==
  /\ pc = "popLoad"
  /\ size' \in SizesAt(data, tail)
  /\ pc' = IF size' = 0 THEN "popWrap" ELSE "popCopy"
  /\ UNCHANGED <<ring, overflow, want, bytes, cnt, view, out, history>>

(* Slips: the tail is not reset, the size is not read again.               *)
PopWrapKeepsTail ==
  /\ pc = "popWrap"
  /\ size' = data[0]
  /\ pc' = "popCopy"
  /\ UNCHANGED <<ring, overflow, want, bytes, cnt, view, out, history>>
PopWrapKeepsSize ==
  /\ pc = "popWrap"
  /\ tail' = 0
  /\ pc' = "popCopy"
  /\ UNCHANGED <<data, head, overflow, size, want, bytes, cnt, view, out, history>>

PopWrap ==
  /\ pc = "popWrap"
  /\ size' = data[0]
  /\ tail' = 0
  /\ pc' = "popCopy"
  /\ UNCHANGED <<data, head, overflow, want, bytes, cnt, view, out, history>>

copySize == Smaller(want, size)

PopCopy ==
  /\ pc = "popCopy"
  /\ bytes' = PayloadAt(data, tail, copySize)
  /\ pc' = "popAdvance"
  /\ UNCHANGED <<ring, overflow, size, want, cnt, view, out, history>>

(* Slip: the tail moves past what was copied only.                         *)
PopAdvanceByCopy ==
  /\ pc = "popAdvance"
  /\ tail' = (tail + SizeofPos + copySize) % PosRange
  /\ out' = Result("pop", IF want = 0 THEN size ELSE copySize, bytes)
  /\ queue' = IF queue = <<>> THEN queue ELSE Tail(queue)
  /\ view' = NoView
  /\ size' = 0 /\ want' = 0 /\ bytes' = {}
  /\ pc' = "ready"
  /\ UNCHANGED <<data, head, overflow, cnt, unreported>>

PopAdvance ==
  /\ pc = "popAdvance"
  /\ tail' = (tail + SizeofPos + size) % PosRange
  /\ out' = Result("pop", IF want = 0 THEN size ELSE copySize, bytes)
  /\ queue' = IF queue = <<>> THEN queue ELSE Tail(queue)
  /\ view' = NoView
  /\ size' = 0 /\ want' = 0 /\ bytes' = {}
  /\ pc' = "ready"
  /\ UNCHANGED <<data, head, overflow, cnt, unreported>>

-----------------------------------------------------------------------------
(* ringOverflowed, called by the main loop: a load and a store.            *)

OverflowRead ==
  /\ pc = "ready"
  /\ cnt' = overflow
  /\ pc' = "overflowClear"
  /\ UNCHANGED <<ring, overflow, size, want, bytes, view, out, history>>

(* Slip: the count is not reset.                                           *)
OverflowClearForgets ==
  /\ pc = "overflowClear"
  /\ unreported' = unreported - cnt
  /\ cnt' = 0
  /\ pc' = "ready"
  /\ UNCHANGED <<ring, overflow, size, want, bytes, view, out, queue>>

OverflowClear ==
  /\ pc = "overflowClear"
  /\ overflow' = 0
  /\ unreported' = unreported - cnt
  /\ cnt' = 0
  /\ pc' = "ready"
  /\ UNCHANGED <<ring, size, want, bytes, view, out, queue>>

-----------------------------------------------------------------------------

ringPeek == PeekEmpty \/ PeekCheck \/ PeekLoad \/ PeekWrap
ringPop ==
  \/ PopEmpty \/ (\E m \in OutSizes : PopCheck(m))
  \/ PopLoad \/ PopWrap \/ PopCopy \/ PopAdvance
ringOverflowed == OverflowRead \/ OverflowClear

Consumer == ringPeek \/ ringPop \/ ringOverflowed

Next == Consumer \/ \E s \in Sizes, t \in Tags : ringPush(s, t)

Spec == Init /\ [][Next]_vars

(***************************************************************************)
(* The same ring with a producer that stays clear of five cases the code   *)
(* gets wrong: a head whose next position does not fit in a RingPos_t, a   *)
(* tail exactly one size field ahead of the head (the free count           *)
(* underflows), an element that would leave the head on the last byte      *)
(* (ringPeek reads beyond the array), one that ends exactly at the end of  *)
(* the buffer while its length does not fit in front of the tail, and a    *)
(* wrapped element whose size needs more than a byte.                      *)
(***************************************************************************)
Clear(s) ==
  /\ head + SizeofPos + s < PosRange
  /\ tail # head + SizeofPos
  /\ head + SizeofPos + s # Size - 1
  /\ head + SizeofPos + s = Size => s + SizeofPos + 1 <= tail
  /\ head + SizeofPos + s >= Size => s < ByteRange

SafeNext ==
  \/ Consumer
  \/ \E s \in Sizes, t \in Tags : 
       PushRejected(s) \/ (Clear(s) /\ (PushBack(s, t) \/ PushWrap(s, t)))

SafeSpec == Init /\ [][SafeNext]_vars

(* The sizes of amr.c, in a buffer that is not one byte over a multiple of *)
(* four: an element with its size field fills a multiple of four bytes and *)
(* none is longer than a byte can say.  amr.c's own ring is one: elements  *)
(* of 24, 28 and 104 bytes in 512.                                         *)
Aligned ==
  /\ \A s \in Sizes : (s + SizeofPos) % 4 = 0 /\ s < ByteRange
  /\ Size % 4 # 1 /\ Size + ByteRange < PosRange

(* The one of the five cases that such a ring can still meet, and amr.c's  *)
(* does (the run ring_exact_fit): ringFree counts the bytes up to the very *)
(* end of the buffer as room, ringPush does not use the last of them and   *)
(* wraps, over the tail or onto it.                                        *)
ExactFit(s) ==
  /\ 0 < tail /\ tail <= head
  /\ head + SizeofPos + s = Size /\ tail <= s + SizeofPos

(* The ring up to the first exact fit.                                     *)
FitNext ==
  Consumer \/ \E s \in Sizes, t \in Tags : ~ExactFit(s) /\ ringPush(s, t)

FitSpec == Init /\ [][FitNext]_vars

-----------------------------------------------------------------------------
(* The types of the variables; head and tail are indices into the buffer. *)
CallStates == {"ready", "peekLoad", "peekWrap", "popLoad", "popWrap",
               "popCopy", "popAdvance", "overflowClear"}

TypeOK ==
  /\ data \in [Addr -> Byte]
  /\ head \in Addr /\ tail \in Addr
  /\ overflow \in Byte
  /\ pc \in CallStates
  /\ size \in Pos /\ want \in OutSizes \cup {0}
  /\ bytes \in SUBSET Byte /\ cnt \in Byte
  /\ view \in [at : Addr, size : Pos]
  /\ out \in [call : {"none", "peek", "pop"}, len : Pos,
              bytes : SUBSET Byte]
  /\ queue \in Seq(Frame)
  /\ unreported \in Nat

(* Addresses unrolled from a tail t: the order in which they are read.     *)
Unrolled(t, a) == IF a >= t THEN a ELSE a + Size

(* The bytes of f hold its size and its payload. *)
Stored(mem, f) ==
  /\ mem[f.at] = f.size % ByteRange /\ mem[f.at + 1] = f.size \div ByteRange
  /\ \A a \in Addr : f.at + SizeofPos <= a /\ a < End(f) => mem[a] = f.tag

(* A reader whose tail is p finds f: it starts there, or p holds a wrap    *)
(* marker and f starts at the front with a size that fits in a byte.       *)
Marker(mem, p) == p + 1 \in Addr /\ mem[p] = 0 /\ mem[p + 1] = 0
FoundFrom(mem, p, f) ==
  f.at = p \/ (f.at = 0 /\ Marker(mem, p) /\ f.size < ByteRange)

FramesStored ==
  \A i \in 1..Len(queue) : Stored(data, queue[i]) /\ End(queue[i]) < Size
FramesLinked ==
  /\ queue = <<>> => head = tail
  /\ queue # <<>> =>
       FoundFrom(data, tail, queue[1]) /\ End(queue[Len(queue)]) = head
  /\ \A i \in 1..(Len(queue) - 1) : FoundFrom(data, End(queue[i]), queue[i + 1])
FramesOrdered ==
  LET first(i) == Unrolled(tail, queue[i].at)
      next(i)  == first(i) + SizeofPos + queue[i].size
  IN  /\ \A i, j \in 1..Len(queue) : i < j => next(i) <= first(j)
      /\ \A i \in 1..Len(queue) : next(i) <= Unrolled(tail, head)

(* Every accepted message is intact in the buffer, the messages lie one    *)
(* after the other between tail and head without overlap, and a reader     *)
(* that follows the size fields and wrap markers from the tail meets       *)
(* exactly them in order; the ring looks empty exactly when none is left   *)
(* (ringPush against ringFree, ringPeek and ringPop).                      *)
LayoutInv == 
  /\ FramesStored /\ FramesLinked /\ FramesOrdered
  /\ head # Size - 1

(* What the main loop has read inside a call is still true when it uses    *)
(* it, whatever the handler pushed since (ringPeek and ringPop).           *)
CallInv ==
  /\ pc \in {"peekLoad", "peekWrap", "popLoad", "popWrap", "popCopy", "popAdvance"}
       => queue # <<>>
  /\ pc \in {"peekWrap", "popWrap"} =>
       queue[1].at = 0 /\ queue[1].size < ByteRange
  /\ pc \in {"popCopy", "popAdvance"} =>
       tail = queue[1].at /\ size = queue[1].size
  /\ pc = "popAdvance" =>
       bytes = IF copySize = 0 THEN {} ELSE {queue[1].tag}
  /\ pc # "popAdvance" => bytes = {}

(* The pointer a ringPeek gave out stays good until ringPop: it is the     *)
(* oldest message, which neither a push nor the start of the pop moves or  *)
(* overwrites (ringPeek, as amrProcessMsgs uses it).                       *)
ViewStable ==
  view.size > 0 =>
    /\ queue # <<>> /\ tail = view.at
    /\ view = [at |-> queue[1].at, size |-> queue[1].size]
    /\ Stored(data, queue[1])

(* An element of size s has room, either behind the head or in front of    *)
(* the tail, with a byte to spare so that head and tail do not meet.       *)
Fits(s) ==
  IF head >= tail
    THEN head + SizeofPos + s < Size \/ s + SizeofPos < tail
    ELSE head + SizeofPos + s < tail

(* ringFree never turns away an element that has room, and the only one it *)
(* promises room to that ringPush does not have is an exact fit.           *)
FreeIsExact ==
  \A s \in Sizes : s <= ringFree(head, tail) <=> (Fits(s) \/ ExactFit(s))

(* Once drained the ring takes any message, wherever its indices stopped,  *)
(* and none is an exact fit: otherwise an empty ring would turn a long     *)
(* message away for ever, or lose it at once (ringFree, ringPush).         *)
EmptyTakesAll ==
  IsEmpty => \A s \in Sizes : s <= ringFree(head, tail) /\ ~ExactFit(s)

(* ringOverflowed never reports a drop twice or one that did not happen,   *)
(* although the handler counts between its load and its store and the      *)
(* counter is one byte.                                                    *)
ReportsAreReal ==
  overflow <= unreported /\ (pc = "overflowClear" => cnt <= unreported)

(* A push never leaves the head on the tail: the ring would look empty.    *)
HeadClearOfTail == [][queue' # queue /\ head' # head => head' # tail']_vars

(* The ring is a lossy first-in first-out queue of messages. *)
Contents == [i \in 1..Len(queue) |-> [size |-> queue[i].size, tag |-> queue[i].tag]]
Fifo == INSTANCE MsgFifo WITH queue <- Contents
RefinesFifo == Fifo!Spec

=============================================================================
