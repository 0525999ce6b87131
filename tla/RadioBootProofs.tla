-------------------------- MODULE RadioBootProofs --------------------------
(***************************************************************************)
(* Proofs about RadioBoot: for every configuration array and every timeout *)
(* a remembered CTS is fresh, and reception starts only when the chip has  *)
(* been given the whole array since its last reset.                        *)
(*                                                                         *)
(* The second does not follow from itself: how many commands the chip has  *)
(* been given is known at the end only because it is known at every stage, *)
(* and a command counts only because the CTS it was sent on was fresh.     *)
(***************************************************************************)
EXTENDS RadioBoot, TLAPS

(* Which phases a stage has, and what the chip may be doing meanwhile.     *)
PhasesInv ==
  /\ stage \in {"app", "reset"} => phase = "done"
  /\ stage = "reset" => next \in {0, 1}
  /\ chip = "config" => stage = "config" /\ phase \in {"response", "hung"}
  /\ stage = "config" /\ phase \in {"response", "done"} => chip \in {"config", "ready"}
  /\ stage \in {"config", "configStatus"} => next \in 1..Len(Config)

(* How many commands the chip has been given at each stage.                *)
ExecutedInv ==
  /\ stage \in {"powerUp", "firstStatus"} => executed = 0
  /\ stage = "config" =>
       /\ phase = "send" \/ chip = "config" => executed = next - 1
       /\ phase \in {"response", "done"} /\ chip = "ready" => executed = next
       /\ executed \in {next - 1, next}
  /\ stage = "configStatus" => executed = next
  /\ stage \in {"lastStatus", "rxStatus", "startRx"} => executed = Len(Config)
  /\ stage = "app" /\ hal.attached => executed = Len(Config)
  /\ stage # "app" => ~hal.intr

BootInv == TypeOK /\ CtsIsFresh /\ PhasesInv /\ ExecutedInv

-----------------------------------------------------------------------------

(* The array is not empty, and its length is a number. *)
LEMMA ConfigLength == Len(Config) \in Nat /\ Len(Config) >= 1
  BY ConfigAssumption

(* Loading command n is safe when the chip was given the ones before it.   *)
LEMMA LoadKeeps ==
  ASSUME BootInv, NEW n \in 1..(Len(Config) + 1), Load(n), executed = n - 1,
         phase = "done", stage # "app",
         UNCHANGED <<errCnt, ctsWentHigh, chipPend, chipVars, hal>>
  PROVE  BootInv'
<1> USE ConfigLength, ResetAssumption
<1>1. chip # "config"
  BY DEF BootInv, PhasesInv
<1>2. \/ /\ stage' \in {"lastStatus", "config"} /\ phase' = "send" /\ next' = n
         /\ stage' = "lastStatus" => n = Len(Config) + 1
         /\ stage' = "config" => n \in 1..Len(Config)
      \/ stage' = "reset" /\ phase' = "done" /\ next' = 1
  <2>1. CASE n > Len(Config)
    BY <2>1 DEF Load, Send
  <2>2. CASE n <= Len(Config)
    <3>1. IF Config[n].len > 16 THEN Retry ELSE Send("config") /\ next' = n
      BY <2>2 DEF Load
    <3> QED
      BY <2>2, <3>1 DEF Send, Retry
  <2> QED
    BY <2>1, <2>2
<1>3. TypeOK'
  BY <1>2 DEF BootInv, TypeOK, Stages, Statuses, chipVars, history
<1>4. CtsIsFresh'
  BY DEF BootInv, CtsIsFresh, chipVars, history
<1>5. PhasesInv'
  BY <1>1, <1>2 DEF PhasesInv, At, chipVars, history
<1>6. ExecutedInv'
  BY <1>1, <1>2 DEF BootInv, TypeOK, ExecutedInv, chipVars, history
<1> QED
  BY <1>3, <1>4, <1>5, <1>6 DEF BootInv

(* Starting over is always safe. *)
LEMMA RetryKeeps ==
  ASSUME BootInv, Retry, phase = "done", stage # "app",
         UNCHANGED <<errCnt, ctsWentHigh, chipPend, chipVars, hal>>
  PROVE  BootInv'
<1> USE ConfigLength, ResetAssumption
<1>1. TypeOK'
  BY DEF BootInv, TypeOK, Retry, Stages, Statuses, chipVars, history
<1>2. CtsIsFresh'
  BY DEF BootInv, CtsIsFresh, chipVars, history
<1>3. PhasesInv'
  BY DEF BootInv, PhasesInv, Retry, At, chipVars, history
<1>4. ExecutedInv'
  BY DEF BootInv, ExecutedInv, Retry, chipVars, history
<1> QED
  BY <1>1, <1>2, <1>3, <1>4 DEF BootInv

LEMMA BootInit == Init => BootInv
<1> SUFFICES ASSUME Init PROVE BootInv
  OBVIOUS
<1>1. TypeOK
  <2>1. hal \in [intr : BOOLEAN, attached : BOOLEAN, initialized : BOOLEAN,
                 enabled : Enables \cup {0, 1}]
    BY DEF Init
  <2>2. stage \in Stages
    BY DEF Init, Stages
  <2>3. ctsWentHigh \in BOOLEAN /\ refused \in BOOLEAN
    BY Zenon DEF Init
  <2>4. armed \subseteq ChipPend
    BY ResetAssumption DEF Init
  <2> QED
    BY <2>1, <2>2, <2>3, <2>4, ConfigLength, TimeoutAssumption DEF Init, TypeOK, ChipPend
<1>2. CtsIsFresh /\ PhasesInv /\ ExecutedInv
  BY DEF Init, CtsIsFresh, PhasesInv, ExecutedInv, At
<1> QED
  BY <1>1, <1>2 DEF BootInv

(* Whatever the chip does leaves the invariant alone. *)
LEMMA ChipKeeps == BootInv /\ Chip => BootInv'
<1> SUFFICES ASSUME BootInv, Chip PROVE BootInv'
  OBVIOUS
<1> USE ConfigLength, ResetAssumption
<1>1. CASE Boot
  <2>1. TypeOK' /\ CtsIsFresh'
    BY <1>1 DEF BootInv, TypeOK, CtsIsFresh, Boot, ChipPend, comm, history
  <2>2. PhasesInv' /\ ExecutedInv'
    BY <1>1 DEF BootInv, TypeOK, PhasesInv, ExecutedInv, At, Boot, comm, history
  <2> QED
    BY <2>1, <2>2 DEF BootInv
<1>2. CASE FinishStatus
  <2>1. TypeOK' /\ CtsIsFresh'
    BY <1>2 DEF BootInv, TypeOK, CtsIsFresh, FinishStatus, ChipPend, comm, history
  <2>2. PhasesInv' /\ ExecutedInv'
    BY <1>2 DEF BootInv, TypeOK, PhasesInv, ExecutedInv, At, FinishStatus, comm, history
  <2> QED
    BY <2>1, <2>2 DEF BootInv
<1>3. CASE FinishConfig
  <2>1. /\ executed = next - 1 /\ next \in 1..Len(Config) /\ stage = "config"
        /\ phase \in {"response", "hung"} /\ next' = next /\ stage' = stage
        /\ phase' = phase
    BY <1>3 DEF BootInv, PhasesInv, ExecutedInv, FinishConfig, comm
  <2>2. executed' = executed + 1
    BY <1>3 DEF FinishConfig
  <2>3. /\ armed' \subseteq ChipPend /\ pending' \subseteq ChipPend
        /\ refused' \in BOOLEAN
    <3>1. CASE Refuse
      <4>1. refused' \in BOOLEAN
        BY <3>1, Zenon DEF Refuse
      <4> QED
        BY <3>1, <4>1 DEF BootInv, TypeOK, Refuse, ChipPend
    <3>2. CASE Take
      <4>1. armed' \subseteq ChipPend
        <5>1. Config[next].arms \in SUBSET SUBSET ChipPend
          <6>1. Config[next] \in Commands
            BY <2>1, ConfigAssumption
          <6> QED
            BY <6>1 DEF Commands
        <5> QED
          BY <3>2, <5>1 DEF BootInv, TypeOK, Take
      <4> QED
        BY <3>2, <4>1 DEF BootInv, TypeOK, Take, ChipPend
    <3> QED
      BY <1>3, <3>1, <3>2 DEF FinishConfig
  <2>4. TypeOK' /\ CtsIsFresh'
    BY <1>3, <2>1, <2>2, <2>3 DEF BootInv, TypeOK, CtsIsFresh, FinishConfig, comm
  <2>5. PhasesInv' /\ ExecutedInv'
    BY <1>3, <2>1, <2>2 DEF BootInv, PhasesInv, ExecutedInv, At, FinishConfig, comm
  <2> QED
    BY <2>4, <2>5 DEF BootInv
<1>4. CASE FinishOther
  <2>1. TypeOK' /\ CtsIsFresh'
    BY <1>4 DEF BootInv, TypeOK, CtsIsFresh, FinishOther, ChipPend, comm, history
  <2>2. PhasesInv' /\ ExecutedInv'
    BY <1>4 DEF BootInv, TypeOK, PhasesInv, ExecutedInv, At, FinishOther, comm, history
  <2> QED
    BY <2>1, <2>2 DEF BootInv
<1> QED
  BY <1>1, <1>2, <1>3, <1>4 DEF Chip

(* The four steps of a command. *)
LEMMA CommandKeeps ==
  BootInv /\ (PollBusy \/ PollReady \/ SendCmd \/ GetResp) => BootInv'
<1> USE ConfigLength, TimeoutAssumption, ResetAssumption
<1>1. ASSUME BootInv, PollBusy PROVE BootInv'
  <2>1. TypeOK' /\ CtsIsFresh'
    BY <1>1 DEF BootInv, TypeOK, CtsIsFresh, PollBusy, CountDown, chipVars, history
  <2>2. PhasesInv' /\ ExecutedInv'
    BY <1>1 DEF BootInv, TypeOK, PhasesInv, ExecutedInv, At, PollBusy, chipVars, history
  <2> QED
    BY <2>1, <2>2 DEF BootInv
<1>2. ASSUME BootInv, PollReady PROVE BootInv'
  <2>1. TypeOK' /\ CtsIsFresh'
    BY <1>2 DEF BootInv, TypeOK, CtsIsFresh, PollReady, chipVars, history
  <2>2. PhasesInv' /\ ExecutedInv'
    BY <1>2 DEF BootInv, TypeOK, PhasesInv, ExecutedInv, At, PollReady, chipVars, history
  <2> QED
    BY <2>1, <2>2 DEF BootInv
<1>3. ASSUME BootInv, SendCmd PROVE BootInv'
  <2>1. chip = "ready" /\ chip' = Command /\ ~ctsWentHigh'
    BY <1>3 DEF BootInv, CtsIsFresh, SendCmd
  <2>2. TypeOK' /\ CtsIsFresh'
    BY <1>3, <2>1 DEF BootInv, TypeOK, CtsIsFresh, SendCmd, Command, history
  <2>3. PhasesInv'
    BY <1>3, <2>1 DEF BootInv, PhasesInv, At, SendCmd, Command, GetsResponse, Statuses, history
  <2>4. ExecutedInv'
    BY <1>3, <2>1 DEF BootInv, TypeOK, ExecutedInv, SendCmd, Command, GetsResponse,
                      Statuses, history
  <2> QED
    BY <2>2, <2>3, <2>4 DEF BootInv
<1>4. ASSUME BootInv, GetResp PROVE BootInv'
  <2>1. TypeOK' /\ CtsIsFresh'
    BY <1>4 DEF BootInv, TypeOK, CtsIsFresh, GetResp, spi_transfer, chipVars, history
  <2>2. PhasesInv'
    BY <1>4 DEF BootInv, PhasesInv, At, GetResp, spi_transfer, Statuses, ChipPend, chipVars, history
  <2>3. ExecutedInv'
    BY <1>4 DEF BootInv, ExecutedInv, GetResp, chipVars, history
  <2> QED
    BY <2>1, <2>2, <2>3 DEF BootInv
<1> QED
  BY <1>1, <1>2, <1>3, <1>4

(* Everything between two commands. *)
LEMMA StageKeeps ==
  BootInv /\ (vRadio_PowerUp \/ NextStage \/ StartConfig \/ ConfigSent
             \/ ConfigChecked \/ HalReady) => BootInv'
<1> USE ConfigLength, ResetAssumption
<1>1. ASSUME BootInv, vRadio_PowerUp PROVE BootInv'
  <2>1. TypeOK' /\ CtsIsFresh'
    <3>1. stage' \in Stages /\ phase' = "send" /\ phase = "done"
      BY <1>1 DEF vRadio_PowerUp, At, Send, AfterReset, Stages
    <3>2. ctsWentHigh' = FALSE /\ ctsWentHigh' \in BOOLEAN
      BY <1>1, Zenon DEF vRadio_PowerUp
    <3>3. refused' \in BOOLEAN
      BY <1>1, Zenon DEF vRadio_PowerUp, ResetChip
    <3> QED
      BY <1>1, <3>1, <3>2, <3>3
         DEF BootInv, TypeOK, CtsIsFresh, vRadio_PowerUp, ResetChip
  <2>2. PhasesInv' /\ ExecutedInv'
    BY <1>1 DEF BootInv, TypeOK, PhasesInv, ExecutedInv, vRadio_PowerUp, ResetChip, At, Send, AfterReset
  <2> QED
    BY <2>1, <2>2 DEF BootInv
<1>2. ASSUME BootInv, NextStage PROVE BootInv'
  <2>1. stage \in {"powerUp", "lastStatus", "rxStatus"} /\ phase = "done"
        /\ stage' = Successor[stage] /\ phase' = "send"
    BY <1>2 DEF NextStage, Send, Successor
  <2>2. \/ stage = "powerUp" /\ stage' = "firstStatus"
        \/ stage = "lastStatus" /\ stage' = "rxStatus"
        \/ stage = "rxStatus" /\ stage' = "startRx"
    BY <2>1 DEF Successor
  <2>3. TypeOK' /\ CtsIsFresh'
    BY <1>2, <2>1, <2>2 DEF BootInv, TypeOK, CtsIsFresh, NextStage, Stages, Statuses, chipVars, history
  <2>4. PhasesInv' /\ ExecutedInv'
    BY <1>2, <2>1, <2>2 DEF BootInv, PhasesInv, ExecutedInv, NextStage, At, chipVars, history
  <2> QED
    BY <2>3, <2>4 DEF BootInv
<1>3. ASSUME BootInv, StartConfig PROVE BootInv'
  <2>1. executed = 0 /\ phase = "done" /\ stage # "app"
    BY <1>3 DEF BootInv, ExecutedInv, StartConfig, At
  <2> QED
    BY <1>3, <2>1, LoadKeeps DEF StartConfig
<1>4. ASSUME BootInv, ConfigSent PROVE BootInv'
  <2>1. stage = "config" /\ phase = "done" /\ next \in 1..Len(Config)
        /\ executed = next
    BY <1>4 DEF BootInv, PhasesInv, ExecutedInv, ConfigSent, At
  <2>2. CASE NirqLow
    <3>1. TypeOK' /\ CtsIsFresh'
      <4>1. stage' \in Stages /\ phase' = "send" /\ UNCHANGED next
        BY <1>4, <2>2 DEF ConfigSent, Send, Stages, Statuses
      <4> QED
        BY <1>4, <2>1, <4>1 DEF BootInv, TypeOK, CtsIsFresh, ConfigSent, chipVars, history
    <3>2. PhasesInv' /\ ExecutedInv'
      BY <1>4, <2>1, <2>2 DEF BootInv, PhasesInv, ExecutedInv, ConfigSent, Send, At, chipVars, history
    <3> QED
      BY <3>1, <3>2 DEF BootInv
  <2>3. CASE ~NirqLow
    <3>1. executed = (next + 1) - 1 /\ next + 1 \in 1..(Len(Config) + 1) /\ Load(next + 1)
      BY <1>4, <2>1, <2>3 DEF ConfigSent
    <3> QED
      BY <1>4, <2>1, <3>1, LoadKeeps DEF ConfigSent
  <2> QED
    BY <2>2, <2>3
<1>5. ASSUME BootInv, ConfigChecked PROVE BootInv'
  <2>1. /\ stage = "configStatus" /\ phase = "done" /\ next \in 1..Len(Config)
        /\ executed = next
    BY <1>5 DEF BootInv, PhasesInv, ExecutedInv, ConfigChecked, At
  <2>2. CASE "cmdError" \in chipPend
    BY <1>5, <2>1, <2>2, RetryKeeps DEF ConfigChecked
  <2>3. CASE "cmdError" \notin chipPend
    <3>1. executed = (next + 1) - 1 /\ next + 1 \in 1..(Len(Config) + 1) /\ Load(next + 1)
      BY <1>5, <2>1, <2>3 DEF ConfigChecked
    <3> QED
      BY <1>5, <2>1, <3>1, LoadKeeps DEF ConfigChecked
  <2> QED
    BY <2>2, <2>3
<1>6. ASSUME BootInv, HalReady PROVE BootInv'
  <2>1. TypeOK' /\ CtsIsFresh'
    BY <1>6 DEF BootInv, TypeOK, CtsIsFresh, HalReady, Stages, comm, chipVars, history
  <2>2. PhasesInv' /\ ExecutedInv'
    BY <1>6 DEF BootInv, TypeOK, PhasesInv, ExecutedInv, HalReady, At, comm, chipVars, history
  <2> QED
    BY <2>1, <2>2 DEF BootInv
<1> QED
  BY <1>1, <1>2, <1>3, <1>4, <1>5, <1>6

(* The calls of the application. *)
LEMMA AppKeeps ==
  BootInv /\ (amrHalInit \/ \E e \in Enables : amrHalEnable(e)) => BootInv'
<1> USE ConfigLength, ResetAssumption
<1>1. ASSUME BootInv, amrHalInit PROVE BootInv'
  <2>1. TypeOK' /\ CtsIsFresh'
    <3>1. hal' \in [intr : BOOLEAN, attached : BOOLEAN, initialized : BOOLEAN,
                    enabled : Enables \cup {0, 1}]
      BY <1>1 DEF BootInv, TypeOK, amrHalInit
    <3> QED
      BY <1>1, <3>1 DEF BootInv, TypeOK, CtsIsFresh, amrHalInit, Stages, comm, chipVars, history
  <2>2. PhasesInv' /\ ExecutedInv'
    BY <1>1 DEF BootInv, TypeOK, PhasesInv, ExecutedInv, amrHalInit, At, comm, chipVars, history
  <2> QED
    BY <2>1, <2>2 DEF BootInv
<1>2. ASSUME BootInv, NEW e \in Enables, amrHalEnable(e) PROVE BootInv'
  <2>1. TypeOK' /\ CtsIsFresh'
    BY <1>2, EnablesAssumption DEF BootInv, TypeOK, CtsIsFresh, amrHalEnable, comm, chipVars, history
  <2>2. PhasesInv' /\ ExecutedInv'
    BY <1>2 DEF BootInv, TypeOK, PhasesInv, ExecutedInv, amrHalEnable, At, comm, chipVars, history
  <2> QED
    BY <2>1, <2>2 DEF BootInv
<1> QED
  BY <1>1, <1>2

LEMMA BootStep == BootInv /\ [Next]_vars => BootInv'
<1> SUFFICES ASSUME BootInv, [Next]_vars PROVE BootInv'
  OBVIOUS
<1>1. CASE Hang \/ UNCHANGED vars
  <2>1. TypeOK' /\ CtsIsFresh'
    BY <1>1 DEF BootInv, TypeOK, CtsIsFresh, Hang, vars
  <2>2. PhasesInv' /\ ExecutedInv'
    BY <1>1 DEF BootInv, PhasesInv, ExecutedInv, At, Hang, vars
  <2> QED
    BY <2>1, <2>2 DEF BootInv
<1> QED
  BY <1>1, ChipKeeps, CommandKeeps, StageKeeps, AppKeeps DEF Next, Driver

-----------------------------------------------------------------------------

(* The types hold for every array, timeout and set of arguments            *)
(* (RadioBoot as a whole).                                                 *)
THEOREM BootTypes == Spec => []TypeOK
<1>1. BootInv => TypeOK
  BY DEF BootInv
<1> QED
  BY <1>1, BootInit, BootStep, PTL DEF Spec

(* The driver never sends a command on the strength of a CTS that is out   *)
(* of date (radio_comm_SendCmd, si446x_reset).                             *)
THEOREM BootCts == Spec => []CtsIsFresh
<1>1. BootInv => CtsIsFresh
  BY DEF BootInv
<1> QED
  BY <1>1, BootInit, BootStep, PTL DEF Spec

(* Reception is started, and interrupts reach the decoder, only when the   *)
(* chip has been given the whole array, whichever it is, since its last    *)
(* reset (vRadio_Init, amrHalInit).                                        *)
THEOREM BootConfigured == Spec => []RxConfigured
<1>1. BootInv => RxConfigured
  BY DEF BootInv, ExecutedInv, RxConfigured, Receiving
<1> QED
  BY <1>1, BootInit, BootStep, PTL DEF Spec

=============================================================================
