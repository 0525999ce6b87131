# ert-amr: TLA+ models, model checking and proofs

ert-amr receives the radio messages of utility meters (SCM, SCM+, IDM) on an
ESP8266 with a Si446x radio. The radio clocks out raw half bits, a GPIO interrupt
handler decodes them and pushes whole messages onto a ring, and the main loop
takes them off, checks them and calls the application.

This directory holds TLA+ modules for that program, the TLC configurations that
check them on small instances, and TLAPS proofs for every instance.

## The system

| Component | Source | State | Operations | Status |
|---|---|---|---|---|
| message ring | `ring/ringbuf.c` | `data`, `head`, `tail`, `overflow` | `ringPush` (handler); `ringPeek`, `ringPop`, `ringOverflowed` (main loop) | modelled, proved |
| bit decoder | `amr.c:208-313` | two doubled circular bit buffers, head bit, previous half bit | `amrProcessRxBit` (handler) | modelled, proved |
| message loop | `amr.c:480-541` | the message being worked on, in place in the ring | `amrProcessMsgs` (main loop) | modelled, proved |
| parsers, checksums | `amr.c:92-190, 315-478` | one static struct per type, the callback | `extractBits`, CRCs, `parse...Msg`, `registerAmrMsgCallback` | modelled, proved |
| ESP8266 glue | `amr_hal.c`, `amr.c:192-205` | interrupt enable, initialised, enabled | `amrInit`, `amrEnable`, `amrHalInit`, `amrHalEnable`, handler | modelled but for the pins |
| radio start-up | `radio.c`, `si446x_api_lib.c:29-108` | place in the configuration array | reset, power up, load, start RX | modelled, proved |
| radio configurations | `radio_config_si4463_direct_rx`, `..._tx`, `si446x_patch.h` | none | patch, power up, pins, properties | modelled without values |
| radio command layer | `radio_comm.c`, `radio_hal.c` | `ctsWentHigh`, poll counter | `SendCmd`, `GetResp`, `PollCTS`, `ReadData`, `WriteData` | modelled, proved |
| command library | `si446x_api_lib.c`, `si446x_nirq.c`, `si446x_cmd.h` | `Pro2Cmd`, `Si446xCmd` | 47 functions, one per command and use | modelled, proved |
| SPI driver | `spi.c` | `SPI_USER`, `SPI_W0` | `spi_init`, `spi_mode`, `spi_transfer32`, `spi_transfer` | partly |
| printing, property masks, compiler names | | | | not modelled |

How they interact:

* The handler calls the decoder, which calls `ringPush`: one uninterrupted call
  per half bit. The main loop is the only one to peek and pop. Nothing guards the
  ring: both sides read and write `head`, `tail`, `data` and `overflow`, and the
  handler runs between any two instructions of the main loop.
* The main loop works on a message where it lies in the ring (it shifts it to a
  byte boundary in place) and pops it afterwards.
* `amrInit` sets up the ring and then the radio. When it is called again the old
  handler is still enabled until `amrHalInit` turns it off, and pushes into a ring
  whose fields are being replaced. While the radio boots interrupts are off.
* A command goes to the chip only after it has answered that it is clear to send;
  all commands and answers share one buffer, all decoded answers one union.

What is hard about it: the ring's index arithmetic at the end of the buffer, under
every interleaving; a decoder that writes headers into the very buffer it still
receives into; windows as long as the buffer they slide over; retries and
timeouts towards a chip that may be slow, fail, or never answer. `PROJECT.json`
lists these hazards at their lines with the properties that would catch them.

## Modules

| Module | What it is |
|---|---|
| `MsgFifo` | What a message ring promises: a first-in first-out queue that may lose a message only when it is offered, and only pops what is oldest. |
| `RingMem` | The ring's memory: sizes, `ringFree`, writing and reading elements as bytes. |
| `RingBuf` | The ring: `ringPush` as one step of the handler, `ringPeek`, `ringPop` and `ringOverflowed` in steps of one shared access each. Properties; refinement of `MsgFifo`. |
| `RingBufProofs`, `RingFifoProofs` | TLAPS proofs about `RingBuf`: its invariants; its free space and the refinement of `MsgFifo`. |
| `AmrLoop` | `amrProcessMsgs` on top of `RingBuf`. |
| `AmrLoopProofs` | TLAPS proofs about `AmrLoop`, on top of those about `RingBuf`. |
| `RxDecoder` | `amrProcessRxBit`, at the level of bits. |
| `RxDecoderProofs` | TLAPS proofs about `RxDecoder`. |
| `Parsers`, `CrcTables` | The three parsers, both checksums with their tables, `extractBits`, the callback. |
| `ParserProofs` | TLAPS proofs about `Parsers`. |
| `RadioConfig` | The two configuration arrays and the patch, command by command. |
| `RadioBoot` | `amrHalInit` down to the SPI transfer, with the chip as environment; `EXTENDS RadioConfig`. |
| `RadioBootProofs` | TLAPS proofs about `RadioBoot`. |
| `RadioCmds` | The 29 commands of `si446x_cmd.h`: ids, counts, positions of arguments and replies. |
| `SpiBus` | The SPI driver: flags, order of bytes, what a transfer leaves in a buffer. |
| `RadioApi` | The functions of the command library as calls, and the machine that makes them; `EXTENDS RadioCmds, SpiBus`. |
| `RadioApiProofs` | TLAPS proofs about `RadioApi`. |
| `MCRingBuf`, `MCAmrLoop`, `MCRxDecoder`, `MCParsers`, `MCRadioBoot`, `MCRadioApi` | Instances for TLC. |

Correspondence, module by module:

* **RingBuf.** Variables carry the source's names. `pc` and `size`, `want`,
  `bytes`, `cnt` are the point and the locals of the call the main loop is in;
  `view` is the pointer the last `ringPeek` gave out; `queue` and `unreported` are
  history. A payload is one byte value repeated: enough to see that a byte of a
  live message was overwritten. Sizes and indices are exact, arithmetic wraps at
  8 and 16 bits as in C, a read beyond the array returns any byte. `Init` is
  `ringInit`; null arguments, which `amr.c` never passes, are left out.
* **AmrLoop.** `loop` is where `amrProcessMsgs` is, `byteAt` its index `i`. It
  `EXTENDS RingBuf` and uses the ring's own steps. The handler pushes between any
  two bytes of the shift. The parsers are their checksum test and the callback.
  Between two calls the application may call `amrEnable` and `amrInit`; the latter
  clears the buffer, then assigns the fields of `msgRing` one by one in any order,
  and only then turns the handler off.
* **RxDecoder.** The buffers are arrays of bits with `ByteBits` bits per byte.
  Sizes and preambles are constants. `hist` and `since` are history. What a call
  pushes is the variable `pushed`, already aligned as `amrProcessMsgs` would.
* **Parsers.** A number is the set of its one bits, a message the set of its one
  bits in sending order. `air` is what will arrive, already shifted to a byte
  boundary; each parser is one action, the whole call. `heard` and `called` are
  history. The tables of `CrcTables` are those of the code, entry by entry. Messages
  are sent with a right checksum (`SealedAssumption`, which TLC checks of those it
  sends); what is received is such a message with any of its bits wrong.
* **RadioConfig, RadioBoot.** A command of an array is its length byte, the bytes
  that really follow, the properties it sets, and which interrupts it lets pull
  NIRQ low. TLC checks as an assumption that both arrays are well formed: every
  length byte is right, every property exists, none is set twice. `stage` is the
  command the driver is at, `phase` where it is in `radio_comm_SendCmdGetResp`.
  `chip`, `pending`, `armed` (NIRQ is low when something is in both) and `answer`
  are the radio, external: it boots and finishes commands when it likes, or never,
  refuses any of them, and raises any interrupt with any command. Delays are left
  out: the chip may take any time.
* **SpiBus, RadioCmds, RadioApi.** A byte is where it comes from (an argument of
  this call, the answer to it, the ones a buffer is preset to, an earlier call)
  and the field it stands for. A function of the library is a record: the command,
  the arguments it fills in and where, how many bytes it sends and reads, which
  fields it copies to the union and which it uses. The tables of `si446x_cmd.h` are
  separate, so a function that disagrees with them shows. `call`, `phase`, `Pro2Cmd`,
  `Si446xCmd`, `ctsWentHigh` and `user` (the register `SPI_USER`) are the driver's
  state; `frame` and `chip` the radio's. The extended and full parts of the
  library are modelled though `bsp.h:27-28` leaves them out of the deployed
  build: they are in the source and share buffers and CTS with the rest.

Operators that follow a comment starting with "Slip" are not part of the model:
each is a definition with one plausible mistake, used to see that a property
fails with it.

## Runs

Runs that pass:

| Run | Bounds | Shows |
|---|---|---|
| `ring_aligned` | buffer of 24 bytes, messages of 2 and 6 bytes, two tags, `maxsize` 0 and 3, two unreported drops; up to the first exact fit (`FitSpec`) | With elements and a buffer that fill multiples of four bytes, as all of amr.c's do, and as long as no push is the exact fit of `ring_exact_fit`, the ring holds its layout, never uses stale data, keeps the peeked message, offers what fits and nothing more but the exact fit, always takes a message when empty, never reports a drop that did not happen and refines `MsgFifo`. |
| `ring_traps` | buffer of 14 bytes, messages of 1 to 4 | Layout, calls, views and refinement with any sizes, if the producer stays clear of five cases (`Clear`), the exact fit among them. |
| `loop` | buffer of 24, messages of 2 and 6 bytes, header of 1, bit offsets 0 and 2; up to the first exact fit (`FitLoopSpec`) | A message is shifted once, whole, without touching others, handed over exactly once if valid, and popped in any case; the loop keeps draining. All of it also when the application disables, enables and initialises the receiver again while the handler runs. After an exact fit none of it holds: waiting messages are overwritten, or lost because the ring looks empty. |
| `decoder` | bytes of 2 bits, messages of 2, 3 and 5 bytes, header of 2 bytes | Alone on the air, in either alignment and at any offset, an SCM is pushed at its last bit exactly when it was received. So is an IDM or SCM+ if the newest bit happens to equal the first bit of the message, over which it was written; otherwise nothing is promised (`decoder_plus`). What is pushed is what was received, but for that first bit. An SCM after SCMs is decoded as if alone. |
| `parsers` | full-size messages: all zeros, all ones, every single bit of them, after another one of the type; one wrong bit, two that lie near each other, or 16 in a row, in a message after a good one that differs from it everywhere | Every message that arrives as sent is accepted and decoded to the fields that were sent; a message with errors is refused and all structs keep the messages before; `extractBits` is right at every offset and length. Every other pair of wrong bits, and bursts with gaps, are covered by `ParserDetects`. |
| `boot` | the array the receiver is built with; after a reset what `si446x_prop.h` says is armed; a timeout after three polls; `amrEnable` of 0 and 1 | No command on a stale CTS; no reception before every command of the array has been given to the chip since its last reset (not: has been taken by it, see `boot_silent`); the boot's loops end unless the chip keeps interrupting. |
| `api` | all functions but three (see below); properties one or twelve at a time, reads of one or all bytes | No command to a busy chip; every command whole and in its place, through whatever `SPI_USER` was left at; every field copied from its own position in what this call's transfer left in `Pro2Cmd`, never from an earlier call (not: from the answer, see `api_answer`). |

Runs in which TLC finds a violation of what the repository says:

| Run | The code | The repository says |
|---|---|---|
| `ring_exact_fit` (deployed sizes, 512 bytes) | An element that ends exactly at the end of the buffer is accepted as fitting but wrapped: the head lands on the tail and a full ring looks empty. | `test/ringbuftest.cpp:200` |
| `decoder_plus` | The first bit of the longest window is overwritten by the newest bit, so the SCM+ preamble inside an IDM (and an IDM itself) is only found if the bit after the window is 0. | `amr.c:240` |
| `boot_silent` (the deployed array) | A command error never pulls NIRQ low: after a reset only "chip ready" does, and the array itself disables all interrupts. A refused command is passed over. | `si446x_api_lib.c:98` |
| `api_args` | `si446x_tx_hop` fills in eight arguments and sends the id alone. | `si446x_api_lib.c:686` |
| `api_answer` | `spi_transfer` copies nothing: every field of every reply is all ones. | `spi.c:290` |

Two consequences of these are in the passing runs. Any interrupt that pulls NIRQ low
during the load is taken for a command error, because the status that is read is
all ones, and the configuration starts again. And a CTS
timeout is never returned to the retry loop, as `si446x_api_lib.c:92` would have it:
`radio_comm_GetResp` loops for ever (`phase = "hung"`).

Why the bounds are enough: 24 bytes hold several small messages or two of different
size and reach every relation of head, tail and end of buffer that a multiple of
four allows, as 512 bytes are one, with wraps of both kinds; 14 bytes with four sizes reach every residue. A message wider than the
bounds differs only in how many equal bytes it has. Two unreported drops leave one
before and one between the load and the store of the count; past its wrap at 256
the theorem `OverflowReports` covers it. In the decoder two bits per byte keep offset, byte
copying and the header in place apart; the preambles keep what matters (the IDM's
ends in the SCM+'s, both start with a zero), and the longest window is the whole
circle as in amr.c. In the boot the
array is the real one, command by command; three polls leave a first, a middle and the one that times out. The calls of the
library only meet in the two buffers, CTS and `SPI_USER`, which any two calls in a
row exercise, and the run makes all sequences of them.

Three functions are left out of `api` because its properties do not hold of them:
`si446x_tx_hop` (above); `si446x_get_adc_reading`, which sends three bytes and fills in
two (`si446x_api_lib.c:513`); and `si446x_disp_gpio_pin_cfg`, which makes no call and prints the pins
the union happens to hold (`812`). So are calls beyond their buffers (more than
12 values of `si446x_set_property`, more than 16 of `si446x_get_property`), which
nothing prevents; `FieldsFresh` speaks of the bytes that were asked for, while the
fast response registers and `si446x_get_property` copy more than that.

The parsers run at their real sizes. Whatever a field is, it is put together from
bits of the message by shifts and unions, so a message for every single bit shows
where each bit goes. A checksum accepts or rejects a pattern of errors whatever the
message (`Undetected`), so one message per type carries them; the sender computes the checksum as
the remainder of a polynomial, not with the tables. Two fields are left out of
`HandsOver`: `lastExcess` and `lastResidual` of an IDM of type 0x18 take their
lowest byte from their highest (`amr.c:417, 419` read `head[0]` twice), which looks
like a slip, but nothing in the repository says what they should be.

With any sizes two more cases exist besides the run above: with the tail exactly
one size field ahead of the head, `ringFree` underflows to 65535
(`ringbuf.c:61`); and with the tail on the last byte of the buffer `ringPeek`, unlike
`ringPop`, reads the size field beyond the array (`137`). `Clear` excludes them. With
`Aligned` sizes, those of amr.c among them, neither can happen: of the five cases
only the exact fit is left. amr.c's own 512 bytes do meet it, so everything said
of aligned rings and of the loop is said of the time before the first one.

The decoder runs assume one transmitter aligned with one of the two buffers, any
bits: the other buffer then decodes zeros only. `CHECK_DEADLOCK` is never
switched off.

An element of 256 bytes or more is not run either: after a wrap its size would be
read from one byte (`ringbuf.c:139, 171`); amr.c pushes at most 102 and `Clear` and
`Aligned` exclude it.

Two inputs are left out on purpose: `amrEnable` with an argument other than 0 or
1 (`amrHalRunning` would answer 0 for 2 although interrupts are on), and a
configuration array with a command longer than 16 bytes (`vRadio_Init` would retry
for ever; the arrays in `ezradio/include` have none).

## Fairness

* `AmrLoop`: weak fairness of `amrProcessMsgs` as a whole and of `amrInit`, both code of
  one thread that runs. The main loop runs
  whenever no interrupt is being served, and at the radio's bit rate there is time
  for it between two interrupts. Nothing is assumed of the handler: messages may
  arrive at any rate or stop; nor of the radio coming up (`RadioUp`), which is up to
  the chip.
* `RadioBoot`: weak fairness of the driver, a single thread that runs; none of
  the chip.

The other specifications only state safety.

## Proofs

`RingBufProofs` (checked by tlapm 1.4.5 to the last leaf) proves for every buffer
size, every set of message sizes and tags and every bound:

* `SafeTypes`, `SafeLayout`, `SafeCalls`, `SafeViews`: `SafeSpec` implies `TypeOK`,
  `LayoutInv`, `CallInv` and `ViewStable`.
* `AlignedSafe`: with `Aligned` sizes `FitSpec` implies all four. `Aligned` holds of
  amr.c's ring (elements of 24, 28 and 104 bytes in 512), and `FitSpec` restricts its
  handler in one thing: no push is an exact fit. With one, `LayoutInv` is false
  (`ring_exact_fit`).
* `OverflowReports`: `Spec` implies `ReportsAreReal`.

They rest on the ASSUMEs of `RingMem` and `RingBuf` about the constants only.

The argument: `TypeOK`, `LayoutInv`, `CallInv` and `ViewStable` are inductive only
together. A pop moves the tail to where the *next* message is found, which
`LayoutInv` knows (`FramesLinked`); a push must not overwrite any message, which
follows from the exact hole `ringFree` speaks of and from `FramesOrdered`; and a
call of the main loop that the handler interrupts goes on with values that
`CallInv` says are still those of the oldest message, because a push never changes
the tail or a live byte. The aligned theorem adds that indices stay multiples of
four (`Lined`). Then the head meets neither the place before the tail nor the last
byte (`LinedBounds`), an element that ends at the end of the buffer has room in
front of the tail or is an exact fit (`EndIsFront`), and so every step of `FitSpec`
is one of `SafeSpec` (`LinedIsClear`).

`RingFifoProofs` builds on these invariants:

* `SafeFifo`, `AlignedFifo`: `SafeSpec`, and with `Aligned` sizes `FitSpec`, imply
  `RefinesFifo`, that is, the ring implements `MsgFifo`.
* `AlignedFree`: with `Aligned` sizes `FitSpec` implies `FreeIsExact`: what is offered
  is what fits, and the exact fit, which does not.
* `AlignedTakesAll`: if moreover the buffer holds more than two of the longest messages
  with their size fields (`Ample`), `FitSpec` implies `EmptyTakesAll`: an empty ring
  takes everything, and nothing is an exact fit of it.

For the refinement each step is mapped on its own: a push appends its message to
`Contents`; a `ringPeek` that answers has read the size of the oldest message
(`LoadAtTail`, `FrontByte`); the last step of a `ringPop` has the oldest message's
size and bytes (`CallInv`) and the caller's length (`WantInv`); every other step
leaves queue and result alone.

`AmrLoopProofs` proves for every aligned buffer, set of messages, length of the header
and set of valid tags:

* `LoopTypes`, `LoopOthersIntact`, `LoopParsesRight`: with `Aligned` sizes `FitLoopSpec`
  implies `LoopTypeOK`, `OthersIntact` and `ParsedRight`.

The loop breaks what the ring promises: it shifts the message it reads in place, so
the bytes of the oldest message are no longer those that were pushed, and `amrInit`
replaces the ring under the handler. The proof therefore looks at the ring with the
oldest message put back as it was pushed (`Unshifted`) and, while `amrInit` is at
work, with the tail it is about to have (`TailToBe`). Of the ring seen so
(`Seen == INSTANCE RingBufProofs WITH data <- Unshifted, tail <- TailToBe`) all the
lemmas of `RingBufProofs` hold, and each step of loop or handler is a step of it or
changes nothing in it. `LoopInv` is that invariant together with which call of the
ring the loop can be in (`PlaceInv`), how far the message is straight (`ShiftInv`: up
to `byteAt`, and not a byte more), and in which order `amrInit` can meet a push
(`RenewInv`: once the head is 0, pushes stay below the old tail until that is 0 too).
Types, `OthersIntact` and `ParsedRight` are not inductive without the ring's own
invariant, which says that a push never reaches the message being shifted, nor
without `ShiftInv`. TLC checked `LoopInv` on the instance of the run `loop` before it
was proved. `ParsedRight` also needs `ChecksumAssumption`: a checksum is a function of
the bytes it is computed over, so two tags that are the same once straight (33 and
36, for instance) are both valid or both not. Without it the theorem is false,
though the tags of the run happen not to show it.

`RxDecoderProofs` proves for every number of bits in a byte, every length of messages
and header that fits the circle (`SizesFit`) and every three preambles that fit their
messages and are not all zeros (`PreamblesFit`):

* `DecoderTypes`, `DecoderAlone`, `DecoderScms`: `Spec` implies `TypeOK`, `AloneIsExact` and
  `ScmAfterScm`.

The two properties speak of the bits on the air, the code of what it finds in two
copies of a circle in which headers and shifted bytes were written since. `KeptInv`
says which bits can be trusted: those decoded after the last header was written
(`Trusted`), and that both copies of them are what was decoded (`hist`). A new bit
adds one that can be trusted, a message recognised takes away those older than what
it overwrites. From there the windows the code compares are those of the history,
but for the first bit of the longest window: that has left the circle when the
newest bit was written over it. `gone` keeps it, `Received` speaks of the bits as
they were on the air, and `FirstBitKept` says when the difference does not show.
For SCMs one more fact is needed: the header of an SCM lies entirely behind the
bits of the SCM, so only bits that the next SCM does not use are lost.

`RadioBootProofs` proves for every configuration array, timeout and argument of
`amrEnable`:

* `BootTypes`, `BootCts`, `BootConfigured`: `Spec` implies `TypeOK`, `CtsIsFresh` and
  `RxConfigured`.

`CtsIsFresh` needs little: the chip leaves "ready" only when a command is sent or
it is reset, and both forget CTS. `RxConfigured` is not inductive: `ExecutedInv` adds
how many commands the chip has been given when the driver is at each one, and that
a reset starts from the first again. Whether the chip takes or refuses a command
plays no part, and with the arrays of the repository a refusal does not show: that
is `TakesAll`, which `boot_silent` refutes. No theorem claims it.

`RadioApiProofs` proves for every set of calls:

* `ApiLosesNothing`: `Spec` implies `NothingLost`.
* `ApiFramesWhole`: if every call is laid out as the tables of `si446x_cmd.h` say
  (`LaidOut`), `Spec` implies `FramesWhole`.

* `ApiTypes`, `ApiFieldsFresh`: if every call reads and copies no more
  than fits and what it copies is where the tables have it (`Answered`), `Spec` implies
  `TypeOK` and `FieldsFresh`.

`LaidOut` and `Answered` are about one call, not about an execution. That all calls of
the `api` run have both, and those of every other length that fits, TLC checks as
`SoundAssumption` of `MCRadioApi`; the theorems then say that any sequence of them
keeps the properties.

`FramesWhole` speaks of what the chip has got; `FrameInv` adds what makes it so: the
buffer holds the id and the arguments from the beginning of a call until it is
sent, and, since a transfer writes `SPI_USER` before it looks the orders of bytes
up, the SPI driver changes no byte whatever the register held (`Survives`).

For the answers `AnswerInv` adds where in the call the driver is and that `Pro2Cmd`
holds, from the answer on, what this call's transfer left at the position of each
byte it asked for and, beyond them, whatever was there; the copy into the union
takes each field from there. It is about where a byte is taken from: with the
driver as it is the transfer leaves the ones that were preset, and no answer.

`ParserProofs` proves for every set of transmissions (`Airs`), that is, for every
message with a right checksum and any bits of it wrong:

* `ParserTypes`, `ParserHandsOver`, `ParserExtracts`: `Spec` implies `TypeOK`, `HandsOver`
  and `ExtractsBits`.
* `ParserDetects`: from four facts of the tables (`TablesDetect`) `Spec` implies
  `Detects`: in any message one or two wrong bits anywhere in what the checksum
  covers, and any errors within 16 bits in a row, are refused and the three structs
  stay as they were.

Here the invariant is simple (`ParserInv`: a struct holds what its parser makes of
some bits, after a message without errors of that message) and the work is in the
operators. Each conversion is described by the bits it lets through, element by
element, up to `memcpy` and the two `NTOH_`. The loop of `extractBits` has a closed
form after every turn, the bits up to there and of them the last 32 (`TakesBytes`).
The places of the fields follow from their widths (`ScmPlaces`, `StdPlaces`,
`X18Places`), and field by field struct and layout agree (`StructAsSent`). The
checksum of a sum is the sum of the checksums (`CrcLinear`), so an error is seen in
every message or in none (`Undetected`), and only the errors have to be looked at. Two wrong bits are detected
because the single bits leave remainders that all differ (`BitsDiffer`, `PairShows`).
Errors within 16 bits lie in three bytes; after them the checksum would have to be
zero, and since an entry has a one no higher than the highest of its index
(`LowestStays`), going back through the bytes none of them can have a one (`ThreeBytes`, `BurstShows`); behind
them come zeros, which leave a checksum that is not zero so (`TurnIdle`). The four
hypotheses (`Linear` and `LowestStays` of both tables, `BitsDiffer` of each type) are
constant formulas, which TLC evaluates for the code's tables as
`DetectionAssumption` of `MCParsers`.

The induction over turns, bytes and fields is `Induction`: over the elements of a set
of natural numbers, from the fact that strict inclusion orders finite sets well,
which unlike the induction theorems of the library takes no operator.

Only model-checked:

* Liveness (`KeepsDraining`, the ends of the boot's loops): liveness under fairness and
  ENABLED are out of the prover's reach.
* What is a fact about one table or one set of calls, and checked by evaluation: what
  detection rests on (`DetectionAssumption`), the layout of the library's calls
  (`SoundAssumption`), the form of the configuration arrays.
* What the five runs with a violation show: it is not true of the code.

## Not modelled

* Printing of messages and of chip information: formatted output without state.
* The values of the properties, the masks and ranges of `si446x_prop.h`, and the
  bits within a byte in `si446x_cmd.h`: what they mean is up to the chip.
* Pins, clock divider and idle edge of the SPI, delays: pure I/O. How many bits
  `spi_transfer` clocks is left out too; with a block length of 0 it comes to 512,
  64 bytes of reply the chip sends and nobody reads (`spi.c:329`).
* `compiler_defs.h`, `bsp.h` and the code for other boards: names and branches this
  build does not take.
* What `lastExcess` and `lastResidual` should be; arguments other than 0 and 1 of
  `amrEnable`.
* The composition of decoder, ring, loop and parsers on one transmission: each hands
  the next a message the next one's model takes as its input in full generality
  (any message, at any time), so the composition adds states and no behaviour.
