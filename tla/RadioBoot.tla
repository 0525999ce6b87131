----------------------------- MODULE RadioBoot -----------------------------
(***************************************************************************)
(* Bringing up the Si446x: amrHalInit and amrEnable (amr_hal.c),           *)
(* vRadio_Init and vRadio_StartRX (radio.c), the command layer below them  *)
(* (si446x_api_lib.c, radio_comm.c) and the SPI transfer that reads a      *)
(* response (radio_hal.c, spi.c).                                          *)
(*                                                                         *)
(* The driver may send a command only when the chip says it is clear to    *)
(* send (CTS), which it asks by polling; ctsWentHigh remembers a positive  *)
(* answer until it is used.  The chip is external: it boots and executes   *)
(* commands at its own pace, or not at all, and may raise an interrupt     *)
(* with any of them.  Delays are left out: the chip may take any time.     *)
(***************************************************************************)
EXTENDS RadioConfig

CONSTANTS Config,        \* the commands of the configuration array
          ResetArmed,    \* the interrupts that pull NIRQ low after a reset
          CtsTimeout,    \* RADIO_CTS_TIMEOUT
          Enables        \* arguments of amrEnable

(* An array never holds a command of length 0: that ends it.               *)
Commands == [len : Nat \ {0}, size : Nat, sets : SUBSET DOMAIN Groups,
             start : Nat, num : Nat, arms : SUBSET SUBSET ChipPend]

ASSUME ConfigAssumption == Config \in Seq(Commands) /\ Config # <<>>
ASSUME ResetAssumption == ResetArmed \subseteq ChipPend
ASSUME TimeoutAssumption == CtsTimeout \in Nat \ {0}
ASSUME EnablesAssumption == Enables \subseteq 0..255

VARIABLES stage,         \* what the driver is doing
          phase,         \* where it is in radio_comm_SendCmdGetResp
          next,          \* the configuration command to load next
          errCnt,        \* polls left
          ctsWentHigh,
          chipPend,      \* Si446xCmd.GET_INT_STATUS.CHIP_PEND
          chip,          \* external: what the chip is doing
          pending,       \* external: interrupts it has raised
          armed,         \* external: those of them that pull NIRQ low
          answer,        \* external: its response to the last command
          executed,      \* history: configuration commands it was given since
                         \* its reset and is done with, taken or refused
          refused,       \* history: there was one of the latter
          hal            \* amr_hal.c: interrupts on, handler attached, flags

comm == <<phase, errCnt, ctsWentHigh, chipPend>>
history == <<executed, refused>>
chipVars == <<chip, pending, armed, answer, history>>
vars == <<stage, phase, next, errCnt, ctsWentHigh, chipPend, chip, pending, armed,
          answer, executed, refused, hal>>

Init ==
  /\ stage = "app" /\ phase = "done" /\ next = 1
  /\ errCnt = CtsTimeout /\ ctsWentHigh = FALSE /\ chipPend = {}
  /\ chip = "shutdown" /\ pending = {} /\ armed = ResetArmed /\ answer = {}
  /\ executed = 0 /\ refused = FALSE
  /\ hal = [intr |-> FALSE, attached |-> FALSE, initialized |-> FALSE, enabled |-> 0]

-----------------------------------------------------------------------------
(* The chip.                                                               *)

Boot ==
  /\ chip = "booting"
  /\ chip' = "ready"
  /\ pending' \in SUBSET {"ready"}
  /\ UNCHANGED <<stage, next, comm, armed, answer, history, hal>>

(* GET_INT_STATUS answers what is pending and clears it.                    *)
FinishStatus ==
  /\ chip = "status"
  /\ chip' = "ready" /\ answer' = pending /\ pending' = {}
  /\ UNCHANGED <<stage, next, comm, armed, history, hal>>

(* A configuration command is refused, which raises an error that shows at  *)
(* NIRQ only when errors are armed, or taken, which may arm others.         *)
Refuse ==
  /\ pending' = pending \cup {"cmdError"} /\ refused' = TRUE
  /\ UNCHANGED armed

Take ==
  /\ armed' \in IF Config[next].arms = {} THEN {armed} ELSE Config[next].arms
  /\ pending' \in {pending, pending \cup {"ready"}}
  /\ UNCHANGED refused

FinishConfig ==
  /\ chip = "config"
  /\ chip' = "ready" /\ answer' = {}
  /\ Refuse \/ Take
  /\ executed' = executed + 1
  /\ UNCHANGED <<stage, next, comm, hal>>

FinishOther ==
  /\ chip = "other"
  /\ chip' = "ready" /\ answer' = {}
  /\ \E raised \in SUBSET ChipPend : pending' = pending \cup raised
  /\ UNCHANGED <<stage, next, comm, armed, history, hal>>

Chip == Boot \/ FinishStatus \/ FinishConfig \/ FinishOther

NirqLow == pending \cap armed # {}

-----------------------------------------------------------------------------
(* radio_comm_SendCmd and radio_comm_GetResp: a stage sends one command.   *)

Statuses == {"firstStatus", "configStatus", "lastStatus", "rxStatus"}
GetsResponse == stage \in Statuses \cup {"config"}

Command == IF stage \in Statuses THEN "status"
           ELSE IF stage = "config" THEN "config" ELSE "other"

(* Slips: polls are not counted, or counted in two places.                  *)
CountDownNever(n) == n
CountDownTwice(n) == n - 2

CountDown(n) == n - 1

(* The chip is busy: poll again, and when CTS took too long, loop for ever. *)
PollBusy ==
  /\ phase \in {"send", "response"} /\ (phase = "send" => ~ctsWentHigh)
  /\ chip # "ready"
  /\ errCnt' = CountDown(errCnt)
  /\ phase' = IF errCnt' = 0 THEN "hung" ELSE phase
  /\ UNCHANGED <<stage, next, ctsWentHigh, chipPend, chipVars, hal>>

(* while(1), "CTS should never take this long". *)
Hang == phase = "hung" /\ UNCHANGED vars

(* radio_comm_PollCTS finds the chip ready for the next command.           *)
PollReady ==
  /\ phase = "send" /\ ~ctsWentHigh
  /\ chip = "ready"
  /\ ctsWentHigh' = TRUE /\ errCnt' = CtsTimeout
  /\ UNCHANGED <<stage, next, phase, chipPend, chipVars, hal>>

(* The command is clocked out: a chip that is not ready does not take it.  *)
SendCmd ==
  /\ phase = "send" /\ ctsWentHigh
  /\ chip' = IF chip = "ready" THEN Command ELSE chip
  /\ ctsWentHigh' = FALSE
  /\ phase' = IF GetsResponse THEN "response" ELSE "done"
  /\ UNCHANGED <<stage, next, errCnt, chipPend, pending, armed, answer, history, hal>>

(* spi_transfer never sets the length of a block: the buffer, filled with   *)
(* ones by radio_hal_SpiReadData, keeps them whatever the chip sent.        *)
spi_transfer(buffer, sent) == buffer

(* The chip answers: CTS is remembered for the next command.               *)
GetResp ==
  /\ phase = "response"
  /\ chip = "ready"
  /\ chipPend' = IF stage \in Statuses THEN spi_transfer(ChipPend, answer) ELSE chipPend
  /\ ctsWentHigh' = TRUE /\ errCnt' = CtsTimeout
  /\ phase' = "done"
  /\ UNCHANGED <<stage, next, chipVars, hal>>

-----------------------------------------------------------------------------
(* The stages: what follows when a command is done.                        *)

At(s) == stage = s /\ phase = "done"
Send(s) == stage' = s /\ phase' = "send"

(* amrHalInit, called by amrInit, also a second time: interrupts are off    *)
(* until the radio is up.                                                   *)
amrHalInit ==
  /\ At("app")
  /\ hal' = [hal EXCEPT !.intr = FALSE, !.attached = TRUE]
  /\ stage' = "reset" /\ next' = 0
  /\ UNCHANGED <<comm, chipVars>>

(* Where a reset leads: the first time the chip is powered up by a command, *)
(* after an error the configuration array does it.                          *)
AfterReset == IF next = 0 THEN "powerUp" ELSE "config"

ResetChip ==
  /\ chip' = "booting" /\ pending' = {} /\ armed' = ResetArmed /\ answer' = {}
  /\ executed' = 0 /\ refused' = FALSE

(* Slip: the CTS of the time before the reset is kept. *)
vRadio_PowerUpKeepsCts ==
  /\ At("reset")
  /\ ResetChip
  /\ Send(AfterReset)
  /\ UNCHANGED <<next, errCnt, ctsWentHigh, chipPend, hal>>

(* vRadio_PowerUp: si446x_reset shuts the chip down, lets it boot, and      *)
(* forgets CTS.                                                             *)
vRadio_PowerUp ==
  /\ At("reset")
  /\ ResetChip
  /\ ctsWentHigh' = FALSE
  /\ Send(AfterReset)
  /\ UNCHANGED <<next, errCnt, chipPend, hal>>

(* A stage that is followed by another whatever the chip did: the power up  *)
(* by a status; the status that ends vRadio_Init by the one vRadio_StartRX  *)
(* begins with, and that by the start.                                      *)
Successor == [powerUp |-> "firstStatus", lastStatus |-> "rxStatus",
              rxStatus |-> "startRx"]

NextStage ==
  /\ stage \in DOMAIN Successor /\ phase = "done"
  /\ Send(Successor[stage])
  /\ UNCHANGED <<next, errCnt, ctsWentHigh, chipPend, chipVars, hal>>

(* Slip: after the reset the array goes on at the command that failed.      *)
RetryResumes == stage' = "reset" /\ phase' = "done" /\ next' = next

(* The loop of vRadio_Init: reset and load everything again. *)
Retry == stage' = "reset" /\ phase' = "done" /\ next' = 1

(* si446x_configuration_init at command n of the array. *)
Load(n) ==
  IF n > Len(Config) THEN Send("lastStatus") /\ next' = n
  ELSE IF Config[n].len > 16 THEN Retry
  ELSE Send("config") /\ next' = n

StartConfig ==
  /\ At("firstStatus")
  /\ Load(1)
  /\ UNCHANGED <<errCnt, ctsWentHigh, chipPend, chipVars, hal>>

(* A command of the array is over: an interrupt may mean an error.          *)
ConfigSent ==
  /\ At("config")
  /\ IF NirqLow THEN Send("configStatus") /\ UNCHANGED next
                ELSE Load(next + 1)
  /\ UNCHANGED <<errCnt, ctsWentHigh, chipPend, chipVars, hal>>

ConfigChecked ==
  /\ At("configStatus")
  /\ IF "cmdError" \in chipPend THEN Retry ELSE Load(next + 1)
  /\ UNCHANGED <<errCnt, ctsWentHigh, chipPend, chipVars, hal>>

(* amrHalInit once the radio receives. *)
HalReady ==
  /\ At("startRx")
  /\ stage' = "app"
  /\ hal' = [hal EXCEPT !.intr = TRUE, !.initialized = TRUE, !.enabled = 1]
  /\ UNCHANGED <<comm, next, chipVars>>

amrHalEnable(e) ==
  /\ At("app")
  /\ hal' = [hal EXCEPT !.intr = (e # 0), !.enabled = e]
  /\ UNCHANGED <<stage, next, comm, chipVars>>

(* amrHalRunning: the bitwise and of the two flags. *)
amrHalRunning == hal.initialized /\ hal.enabled % 2 = 1

-----------------------------------------------------------------------------

(* Everything that goes on by itself once amrHalInit is called. *)
Driver ==
  \/ PollBusy \/ Hang \/ PollReady \/ SendCmd \/ GetResp
  \/ vRadio_PowerUp \/ NextStage \/ StartConfig \/ ConfigSent \/ ConfigChecked
  \/ HalReady

Next == Driver \/ Chip \/ amrHalInit \/ \E e \in Enables : amrHalEnable(e)

(* The driver is one thread that runs; nothing is assumed of the chip.      *)
Spec == Init /\ [][Next]_vars /\ WF_vars(Driver)

-----------------------------------------------------------------------------
(* The types of the variables. *)
Stages == {"app", "reset", "powerUp", "config", "startRx"} \cup Statuses

TypeOK ==
  /\ stage \in Stages /\ phase \in {"send", "response", "done", "hung"}
  /\ next \in 0..(Len(Config) + 1)
  /\ errCnt \in 0..CtsTimeout /\ (errCnt = 0 <=> phase = "hung")
  /\ ctsWentHigh \in BOOLEAN
  /\ chipPend \subseteq ChipPend /\ pending \subseteq ChipPend
  /\ armed \subseteq ChipPend /\ refused \in BOOLEAN
  /\ answer \subseteq ChipPend
  /\ chip \in {"shutdown", "booting", "ready", "status", "config", "other"}
  /\ executed \in 0..Len(Config)
  /\ hal \in [intr : BOOLEAN, attached : BOOLEAN, initialized : BOOLEAN,
              enabled : Enables \cup {0, 1}]

(* A remembered CTS is never out of date: whenever the driver would send   *)
(* on the strength of it the chip is ready, also right after a reset in    *)
(* the middle of a configuration (ctsWentHigh in radio_comm.c).            *)
CtsIsFresh == ctsWentHigh => chip = "ready"

Receiving == stage \in {"rxStatus", "startRx"} \/ (hal.intr /\ hal.attached)

(* The receiver is only started, and its interrupts only reach the         *)
(* decoder, when the chip has been given every command of the array since  *)
(* its last reset: a boot that starts over begins with the first again,    *)
(* and none is sent to a chip that does not listen (vRadio_Init,           *)
(* amrHalInit).  Whether the chip took them is another question.           *)
RxConfigured == Receiving => executed = Len(Config)

(* The receiver is only started when the chip has taken every command: an  *)
(* error is found, and the configuration loaded again (the check of NIRQ   *)
(* in si446x_configuration_init, the loop of vRadio_Init).                 *)
TakesAll == Receiving => ~refused

(* The boot ends: the radio is up, or the driver hangs on a chip that does *)
(* not answer, or the chip interrupts again and again (the loops of        *)
(* radio_comm_GetResp, radio_comm_SendCmd and vRadio_Init).                *)
BootEnds ==
  <>[](stage # "app" /\ phase # "hung") => []<>NirqLow

=============================================================================
