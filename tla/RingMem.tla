------------------------------ MODULE RingMem ------------------------------
(***************************************************************************)
(* The memory of the message ring of ring/ringbuf.c and the arithmetic on  *)
(* its two indices.                                                        *)
(*                                                                         *)
(* An element occupies consecutive bytes: a RingPos_t with its size (two   *)
(* bytes, low byte first on the little-endian ESP8266), then its payload.  *)
(* An element never straddles the end of the buffer: one that does not fit *)
(* behind the head goes to address 0, and a size field of 0 at the old     *)
(* head tells the reader so.  The payload is abstracted to one byte value  *)
(* repeated, the element's tag: enough to see whether a byte of a live     *)
(* element was overwritten.                                                *)
(*                                                                         *)
(* The module has no variables: RingBuf supplies head, tail and data.      *)
(***************************************************************************)
EXTENDS Integers

CONSTANT Size                \* ring->size, the length of the data array

SizeofPos == 2               \* sizeof(RingPos_t)
ByteRange == 256             \* values of a uint8_t
PosRange  == 65536           \* values of a RingPos_t (uint16_t)

(* ringInit refuses a buffer no longer than one size field, and its size   *)
(* argument is a RingPos_t.                                                *)
ASSUME SizeAssumption == Size \in Nat /\ SizeofPos < Size /\ Size < PosRange

Byte == 0..(ByteRange - 1)
Pos  == 0..(PosRange - 1)
Addr == 0..(Size - 1)

-----------------------------------------------------------------------------

Larger(a, b) == IF a >= b THEN a ELSE b
Smaller(a, b) == IF a < b THEN a ELSE b

(* ringFree: the payload size the ring reports it can take.  With the head *)
(* at or past the tail there are two holes, one behind the head and one in *)
(* front of the tail, else only the gap between them.                      *)
FreeBack(head, tail) ==
  LET sizeAvail == IF tail = 0 THEN Size - 1 ELSE Size
  IN  IF head + SizeofPos <= sizeAvail THEN sizeAvail - SizeofPos - head ELSE 0

FreeFront(tail) == IF tail >= SizeofPos + 1 THEN tail - SizeofPos - 1 ELSE 0

(* Slips for the mutation runs: no byte to spare, no room for the size.    *)
FreeGapNoSpare(head, tail) ==
  IF tail >= head + SizeofPos THEN tail - head - SizeofPos ELSE 0
FreeGapNoHeader(head, tail) ==
  IF tail >= head + SizeofPos THEN tail - head - 1 ELSE 0

(* The subtraction is on unsigned integers, its result is cut to 16 bits.  *)
FreeGap(head, tail) ==
  IF tail >= head + SizeofPos THEN (tail - head - SizeofPos - 1) % PosRange ELSE 0

(* Slips: the hole in front of the tail is forgotten, an empty ring is     *)
(* taken for a full one.                                                   *)
ringFreeBackOnly(head, tail) ==
  IF head >= tail THEN FreeBack(head, tail) ELSE FreeGap(head, tail)
ringFreeStrict(head, tail) ==
  IF head > tail THEN Larger(FreeBack(head, tail), FreeFront(tail))
                 ELSE FreeGap(head, tail)

ringFree(head, tail) ==
  IF head >= tail THEN Larger(FreeBack(head, tail), FreeFront(tail))
                  ELSE FreeGap(head, tail)

-----------------------------------------------------------------------------

(* memcpy of a size field to address p. *)
PutSize(mem, p, n) ==
  [mem EXCEPT ![p] = n % ByteRange, ![p + 1] = n \div ByteRange]

(* An element of n payload bytes, all equal to tag, written at address p.   *)
PutElement(mem, p, n, tag) ==
  LET sized == PutSize(mem, p, n)
  IN  [a \in Addr |->
         IF a \in (p + SizeofPos)..(p + SizeofPos + n - 1) THEN tag ELSE sized[a]]

(* Slip: no wrap marker.                                                    *)
PutMarkerOmitted(mem, p) == mem

(* The wrap marker: a zero size field at p, if a size field still fits      *)
(* there.                                                                   *)
PutMarker(mem, p) ==
  IF p + SizeofPos <= Size THEN PutSize(mem, p, 0) ELSE mem

(* What a load from address a may return: beyond the end of the array it is *)
(* undefined behaviour, so any byte.                                        *)
BytesAt(mem, a) == IF a \in Addr THEN {mem[a]} ELSE Byte

(* memcpy of a size field from address p. *)
SizesAt(mem, p) ==
  {lo + ByteRange * hi : lo \in BytesAt(mem, p), hi \in BytesAt(mem, p + 1)}

(* The distinct bytes of n payload bytes of the element at p.               *)
PayloadAt(mem, p, n) ==
  {mem[a] : a \in Addr \cap ((p + SizeofPos)..(p + SizeofPos + n - 1))}

=============================================================================
