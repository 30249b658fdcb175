-------------------------- MODULE LedDriver_proofs --------------------------
(***************************************************************************)
(* Proofs about the LED driver, for every number of pixels, frame length   *)
(* and timeout.                                                            *)
(***************************************************************************)
EXTENDS LedDriver, TLAPS

Waiting == {"poll", "time", "stop"}
Ending == {"stop", "abort", "stopped"}

DmaType == [state : {"READY", "BUSY"}, locked : BOOLEAN, enabled : BOOLEAN,
            it : SUBSET {"HT", "TC", "TE"}, flags : SUBSET {"HT", "TC", "TE"},
            left : 0 .. SK6805_DMA_SLOT_COUNT]
TimType == [channel : {"READY", "BUSY"}, request : BOOLEAN, output : BOOLEAN,
            due : BOOLEAN]

(* What the DMA channel guarantees whatever the task does: a raised error  *)
(* has disabled it, a raised completion comes with the last slot, and one  *)
(* whose handle is free has nothing to deliver and nothing to send.        *)
ChannelInv ==
  /\ "TC" \in dma.flags => dma.left = 0
  /\ "TE" \in dma.flags => ~dma.enabled
  /\ dma.state = "READY" =>
       /\ ~dma.locked
       /\ dma.flags \intersect dma.it = {}
       /\ tim.request => dma.left = 0 \/ ~dma.enabled

(* What ties the commit to the transfer.                                   *)
CommitInv ==
  /\ pc = "start" => ~s_transfer_complete /\ ~s_transfer_error
  /\ s_transfer_complete => dma.left = 0
  /\ tim.request => pc \in Waiting
  /\ tim.output => pc \in Waiting \union Ending
  /\ pc = "stopped" => dma.state = "READY"
  /\ pc \in Ending /\ status = "LED_OK" => s_transfer_complete \/ s_transfer_error

(* While the timer gets a value in each period, and after the last one,    *)
(* the chain has taken in the bits whose pulses are out, one by one: all   *)
(* that were handed over, or all but the one in the compare register.      *)
InStep == dma.left = 0 \/ (dma.enabled /\ tim.request)
Progress ==
  pc \in Waiting \union Ending /\ InStep =>
    /\ DataSlot <= 0 /\ tim.due => taken = 0
    /\ DataSlot >= 1 =>
         /\ taken = IF tim.due THEN DataSlot ELSE DataSlot - 1
         /\ \A p \in Pixels :
              (p + 1) * SlotsPerPixel <= taken => chain[p] = s_pwm_dma_buffer[p]

(* The first part of OkSendsAllButLastBit; the rest follows from Progress. *)
PixelsSent ==
  pc = "idle" /\ status = "LED_OK" =>
    \A p \in Pixels : p < BSP_LED_PIXEL_COUNT - 1 => chain[p] = s_pwm_dma_buffer[p]

IInv == TypeOK /\ LeavesReady /\ ChannelInv /\ CommitInv /\ Progress /\ PixelsSent

(* Where a pixel's last slot lies among the data.                          *)
LEMMA Slots ==
  /\ SK6805_DATA_SLOT_COUNT \in Nat \ {0}
  /\ SK6805_DMA_SLOT_COUNT = SK6805_RESET_SLOT_COUNT + SK6805_DATA_SLOT_COUNT
  /\ SK6805_DMA_SLOT_COUNT \in Nat \ {0}
  /\ \A p \in Pixels :
       /\ (p + 1) * SlotsPerPixel \in Nat \ {0}
       /\ (p + 1) * SlotsPerPixel <= SK6805_DATA_SLOT_COUNT
       /\ p < BSP_LED_PIXEL_COUNT - 1 => (p + 1) * SlotsPerPixel < SK6805_DATA_SLOT_COUNT
<1>1. SK6805_DATA_SLOT_COUNT \in Nat \ {0}
  BY LedDriverAssumption DEF SK6805_DATA_SLOT_COUNT
<1>2. ASSUME NEW p \in Pixels
      PROVE  /\ (p + 1) * SlotsPerPixel \in Nat \ {0}
             /\ (p + 1) * SlotsPerPixel <= SK6805_DATA_SLOT_COUNT
             /\ p < BSP_LED_PIXEL_COUNT - 1
                  => (p + 1) * SlotsPerPixel < SK6805_DATA_SLOT_COUNT
  <2>1. p \in Nat /\ p + 1 <= BSP_LED_PIXEL_COUNT
    BY LedDriverAssumption DEF Pixels
  <2> QED
    BY <2>1, LedDriverAssumption DEF SK6805_DATA_SLOT_COUNT
<1> QED
  BY <1>1, <1>2, LedDriverAssumption DEF SK6805_DMA_SLOT_COUNT

(* The place among the data is a number between two bounds.                *)
LEMMA DataSlotRange ==
  ASSUME TypeOK
  PROVE  /\ DataSlot \in Int /\ DataSlot <= SK6805_DATA_SLOT_COUNT
         /\ dma.left = 0 <=> DataSlot = SK6805_DATA_SLOT_COUNT
         /\ taken \in 0 .. SK6805_DATA_SLOT_COUNT
<1>1. dma.left \in 0 .. SK6805_DMA_SLOT_COUNT /\ taken \in 0 .. SK6805_DATA_SLOT_COUNT
  BY DEF TypeOK
<1> QED
  BY <1>1, Slots, LedDriverAssumption DEF DataSlot

(* Whatever bit arrives, the chain holds colours.                          *)
LEMMA TakesTyped ==
  ASSUME TypeOK, NEW frame \in Frames, Takes(frame)
  PROVE  chain' \in Frames
BY DEF TypeOK, Takes, Frames

LEMMA PlainFrame ==
  ASSUME NEW colour \in Colors
  PROVE  [p \in Pixels |-> colour] \in Frames
BY DEF Frames

LEMMA InitHolds == Init => IInv
<1> SUFFICES ASSUME Init PROVE IInv
  OBVIOUS
<1>1. Dark \in Frames
  BY LedDriverAssumption DEF Dark, Frames
<1>2. dma.left = 0 /\ dma.flags = {} /\ dma.it = {} /\ dma.state = "READY"
      /\ ~dma.locked /\ ~dma.enabled
  BY DEF Init
<1>3. tim.channel = "READY" /\ ~tim.request /\ ~tim.output
  BY DEF Init
<1>4. dma \in DmaType
  <2>1. 0 \in 0 .. SK6805_DMA_SLOT_COUNT
    BY Slots
  <2> QED BY <2>1 DEF Init, DmaType
<1>5. TypeOK
  <2>1. tim \in TimType
    BY DEF Init, TimType
  <2>2. s_pixels \in Frames /\ s_pwm_dma_buffer \in Frames /\ chain \in Frames
        /\ shown \in Frames
    BY <1>1 DEF Init
  <2>3. waited \in 0 .. SK6805_TRANSFER_TIMEOUT_MS /\ taken \in 0 .. SK6805_DATA_SLOT_COUNT
    BY Slots, LedDriverAssumption DEF Init
  <2>4. pc = "build" /\ status = "none"
        /\ s_transfer_complete = FALSE /\ s_transfer_error = FALSE
    BY DEF Init
  <2> QED
    BY <1>4, <2>1, <2>2, <2>3, <2>4, Zenon DEF TypeOK, DmaType, TimType
<1> QED
  BY <1>2, <1>3, <1>5 DEF Init, IInv, LeavesReady, CanStart, ChannelInv, CommitInv,
    Progress, InStep, DataSlot, PixelsSent, Waiting, Ending

(* Steps that fill the buffer, and those of the commit up to its start.    *)
LEMMA FillSteps ==
  ASSUME IInv,
         \/ bsp_led_handler_set \/ bsp_led_handler_set_all_cameras
         \/ bsp_led_handler_clear
  PROVE  IInv'
<1>1. s_pixels' \in Frames
  <2>1. CASE bsp_led_handler_set
    BY <2>1 DEF bsp_led_handler_set, Fills, IInv, TypeOK, Frames
  <2>2. CASE bsp_led_handler_set_all_cameras
    BY <2>2 DEF bsp_led_handler_set_all_cameras, Fills, IInv, TypeOK, Frames
  <2>3. CASE bsp_led_handler_clear
    BY <2>3, LedDriverAssumption DEF bsp_led_handler_clear, Fills, Dark, Frames
  <2> QED BY <2>1, <2>2, <2>3
<1>2. /\ pc = "idle"
      /\ UNCHANGED <<s_pwm_dma_buffer, flags, pc, waited, status, dma, tim, light>>
  BY DEF bsp_led_handler_set, bsp_led_handler_set_all_cameras, bsp_led_handler_clear, Fills
<1> QED
  BY <1>1, <1>2 DEF IInv, TypeOK, LeavesReady, CanStart, ChannelInv, CommitInv, Progress, InStep, DataSlot,
    PixelsSent, flags, light

LEMMA PrepareSteps ==
  ASSUME IInv, Commit \/ sk6805_build_dma_frame \/ ResetFlags
  PROVE  IInv'
<1> USE DEF IInv, TypeOK, LeavesReady, CanStart, ChannelInv, CommitInv, Progress, InStep, DataSlot,
      PixelsSent, flags, light, Waiting, Ending
<1>1. CASE Commit BY <1>1 DEF Commit
<1>2. CASE sk6805_build_dma_frame BY <1>2 DEF sk6805_build_dma_frame
<1>3. CASE ResetFlags BY <1>3 DEF ResetFlags
<1> QED BY <1>1, <1>2, <1>3

(* No start is refused, and none finds old flags.                          *)
LEMMA StartStep ==
  ASSUME IInv, HAL_TIM_PWM_Start_DMA
  PROVE  IInv'
<1>1. CanStart /\ ~s_transfer_complete /\ ~s_transfer_error /\ pc = "start"
  BY DEF IInv, LeavesReady, CommitInv, HAL_TIM_PWM_Start_DMA
<1>2. /\ dma' = [state |-> "BUSY", locked |-> TRUE, enabled |-> TRUE,
                 it |-> {"HT", "TC", "TE"}, flags |-> {},
                 left |-> SK6805_DMA_SLOT_COUNT]
      /\ tim' = [channel |-> "BUSY", request |-> TRUE, output |-> TRUE, due |-> FALSE]
      /\ pc' = "poll" /\ waited' = 0 /\ UNCHANGED status
      /\ UNCHANGED <<s_pixels, s_pwm_dma_buffer, s_transfer_complete,
                     s_transfer_error, taken, chain, shown>>
  BY <1>1 DEF HAL_TIM_PWM_Start_DMA, flags, light
<1>3. TypeOK'
  BY <1>2, Slots, LedDriverAssumption DEF IInv, TypeOK
<1>4. Progress'
  <2>1. DataSlot' = 0 - SK6805_RESET_SLOT_COUNT
    BY <1>2, Slots, LedDriverAssumption DEF DataSlot
  <2> QED
    BY <1>2, <2>1, LedDriverAssumption DEF Progress
<1> QED
  BY <1>1, <1>2, <1>3, <1>4 DEF IInv, LeavesReady, ChannelInv, CommitInv, PixelsSent,
    Waiting, Ending

LEMMA PollSteps ==
  ASSUME IInv, PollFlags \/ PollTime \/ Tick
  PROVE  IInv'
<1> USE DEF IInv, LeavesReady, ChannelInv, CommitInv, Progress, InStep, DataSlot, PixelsSent,
      flags, light, Waiting, Ending
<1>1. CASE PollFlags BY <1>1 DEF PollFlags, TypeOK
<1>2. CASE PollTime BY <1>2 DEF PollTime, TypeOK
<1>3. CASE Tick BY <1>3, LedDriverAssumption DEF Tick, TypeOK
<1> QED BY <1>1, <1>2, <1>3

(* The stop leaves the channel free, whether or not the interrupt comes    *)
(* between its look at the state and its abort.                            *)
LEMMA StopSteps ==
  ASSUME IInv, StopRequests \/ HAL_DMA_Abort_IT
  PROVE  IInv'
<1> USE DEF IInv, LeavesReady, ChannelInv, CommitInv, Progress, InStep, DataSlot, PixelsSent,
      flags, light, Waiting, Ending
<1>1. CASE StopRequests
  <2>1. TypeOK'
    <3>1. dma' \in DmaType
      <4>1. dma \in DmaType BY DEF TypeOK, DmaType
      <4>2. CASE dma.state = "BUSY" BY <1>1, <4>1, <4>2 DEF StopRequests
      <4>3. CASE dma.state # "BUSY"
        <5>1. dma' = [dma EXCEPT !.state = "READY", !.locked = FALSE]
          BY <1>1, <4>3 DEF StopRequests
        <5> QED BY <4>1, <5>1 DEF DmaType
      <4> QED BY <4>2, <4>3
    <3>2. tim' \in TimType
      BY <1>1 DEF StopRequests, TypeOK, TimType
    <3> QED
      BY <1>1, <3>1, <3>2 DEF StopRequests, TypeOK, DmaType, TimType
  <2>2. CASE dma.state = "BUSY"
    BY <1>1, <2>1, <2>2 DEF StopRequests, TypeOK
  <2>3. CASE dma.state # "BUSY"
    <3>1. /\ pc = "stop" /\ pc' = "stopped" /\ ~tim'.request
          /\ tim'.output = tim.output /\ tim'.due = tim.due
          /\ dma' = [dma EXCEPT !.state = "READY", !.locked = FALSE]
          /\ UNCHANGED <<s_pwm_dma_buffer, s_transfer_complete, s_transfer_error,
                         status, taken, chain>>
      BY <1>1, <2>3 DEF StopRequests, TypeOK
    <3>2. /\ dma'.flags = dma.flags /\ dma'.it = dma.it /\ dma'.left = dma.left
          /\ dma'.enabled = dma.enabled /\ dma'.state = "READY" /\ ~dma'.locked
      BY <3>1 DEF TypeOK
    <3>3. dma.flags \intersect dma.it = {}
      BY <2>3 DEF TypeOK
    <3>4. ChannelInv'
      BY <3>1, <3>2, <3>3
    <3>5. CommitInv' /\ Progress'
      BY <3>1, <3>2
    <3>6. LeavesReady' /\ PixelsSent'
      BY <3>1
    <3> QED BY <2>1, <3>4, <3>5, <3>6
  <2> QED BY <2>2, <2>3
<1>2. CASE HAL_DMA_Abort_IT
  <2>1. TypeOK' BY <1>2 DEF HAL_DMA_Abort_IT, TypeOK
  <2> QED BY <1>2, <2>1 DEF HAL_DMA_Abort_IT, TypeOK
<1> QED BY <1>1, <1>2

(* LED_OK is only returned after a completion of this transfer, when no    *)
(* more than the last bit can be missing; a pulse cut short is that bit.   *)
LEMMA ReturnStep ==
  ASSUME IInv, Return
  PROVE  IInv'
<1>1. TypeOK /\ pc = "stopped" /\ pc' = "idle"
  BY DEF IInv, Return
<1>2. tim' = [tim EXCEPT !.channel = "READY", !.output = FALSE]
      /\ UNCHANGED <<s_pixels, s_pwm_dma_buffer, s_transfer_complete,
                     s_transfer_error, waited, dma, taken, shown>>
  BY DEF Return, flags
<1>3. chain' \in Frames
  <2>1. CASE UNCHANGED chain
    BY <1>1, <2>1 DEF TypeOK
  <2>2. CASE DataSlot > 0 /\ \E colour \in Colors : Takes([p \in Pixels |-> colour])
    BY <1>1, <2>2, PlainFrame, TakesTyped
  <2> QED BY <2>1, <2>2 DEF Return
<1>4. TypeOK'
  <2>1. tim' \in TimType
    BY <1>1, <1>2 DEF TypeOK, TimType
  <2>2. status' \in {"none", "LED_OK", "LED_ERROR", "LED_ERRORTIMEOUT"}
    BY <1>1 DEF TypeOK, Return
  <2> QED
    BY <1>1, <1>2, <1>3, <2>1, <2>2 DEF TypeOK, TimType
<1>5. PixelsSent'
  <2> SUFFICES ASSUME status' = "LED_OK",
                      NEW p \in Pixels, p < BSP_LED_PIXEL_COUNT - 1
               PROVE  chain'[p] = s_pwm_dma_buffer[p]
    BY <1>2 DEF PixelsSent
  <2> DEFINE last == (p + 1) * SlotsPerPixel
  <2>1. s_transfer_complete
    BY <1>1 DEF IInv, CommitInv, Return, Ending
  <2>2. dma.left = 0
    BY <2>1 DEF IInv, CommitInv
  <2>3. DataSlot = SK6805_DATA_SLOT_COUNT
    BY <1>1, <2>2, DataSlotRange
  <2>4. last \in Nat /\ last < SK6805_DATA_SLOT_COUNT
    BY Slots
  <2>5. taken = IF tim.due THEN DataSlot ELSE DataSlot - 1
    BY <1>1, <2>2, <2>3, Slots DEF IInv, Progress, InStep, Ending
  <2> HIDE DEF last
  <2>6. last <= taken /\ last # taken + 1
    BY <2>3, <2>4, <2>5, Slots
  <2>7. chain[p] = s_pwm_dma_buffer[p]
    BY <1>1, <2>2, <2>3, <2>6, Slots DEF IInv, Progress, InStep, Ending, last
  <2>8. CASE UNCHANGED chain
    BY <2>7, <2>8
  <2>9. CASE \E colour \in Colors : Takes([q \in Pixels |-> colour])
    BY <2>6, <2>7, <2>9 DEF Takes, last
  <2> QED BY <2>8, <2>9 DEF Return
<1>6. LeavesReady'
  BY <1>1, <1>2 DEF IInv, TypeOK, LeavesReady, CanStart, ChannelInv, CommitInv, Waiting
<1>7. ~tim'.output /\ tim'.request = tim.request
  BY <1>1, <1>2 DEF TypeOK
<1> QED
  BY <1>1, <1>2, <1>4, <1>5, <1>6, <1>7 DEF IInv, ChannelInv, CommitInv, Progress,
    Waiting, Ending

(* The pulse of the value in the compare register: a new bit in its place, *)
(* or one too many for a full chain.                                       *)
LEMMA PulseStep ==
  ASSUME IInv, TimerPeriod
  PROVE  IInv'
<1>1. TypeOK /\ tim.output /\ ~Due
  BY DEF IInv, TimerPeriod
<1>2. /\ tim' = [tim EXCEPT !.due = TRUE]
      /\ UNCHANGED <<s_pixels, s_pwm_dma_buffer, s_transfer_complete,
                     s_transfer_error, pc, waited, status, dma>>
  BY DEF TimerPeriod, flags
<1>3. /\ tim'.due /\ tim'.channel = tim.channel /\ tim'.request = tim.request
      /\ tim'.output = tim.output /\ tim' \in TimType
  BY <1>1, <1>2 DEF TypeOK, TimType
<1>4. pc \in Waiting \union Ending
  BY <1>1 DEF IInv, CommitInv
<1>5. DataSlot' = DataSlot /\ InStep' = InStep
  BY <1>2, <1>3 DEF DataSlot, InStep
<1>6. chain' \in Frames /\ shown' \in Frames /\ taken' \in 0 .. SK6805_DATA_SLOT_COUNT
  <2>1. CASE DataSlot <= 0
    BY <1>1, <2>1, Slots DEF TimerPeriod, Pulse, TypeOK
  <2>2. CASE ~(DataSlot <= 0)
    <3>1. taken' \in 0 .. SK6805_DATA_SLOT_COUNT /\ shown' = shown
      BY <1>1, <2>2, Slots, DataSlotRange DEF TimerPeriod, Pulse
    <3>2. \E frame \in Frames : Takes(frame)
      BY <1>1, <2>2, PlainFrame DEF TimerPeriod, Pulse, TypeOK
    <3> QED BY <1>1, <3>1, <3>2, TakesTyped DEF TypeOK
  <2> QED BY <2>1, <2>2
<1>7. TypeOK'
  BY <1>1, <1>2, <1>3, <1>6 DEF TypeOK, TimType
<1>8. Progress'
  <2> SUFFICES ASSUME InStep
               PROVE  /\ DataSlot <= 0 => taken' = 0
                      /\ DataSlot >= 1 =>
                           /\ taken' = DataSlot
                           /\ \A p \in Pixels : (p + 1) * SlotsPerPixel <= taken'
                                => chain'[p] = s_pwm_dma_buffer[p]
    BY <1>2, <1>3, <1>4, <1>5 DEF Progress
  <2>1. CASE DataSlot <= 0
    BY <1>1, <2>1, DataSlotRange DEF TimerPeriod, Pulse
  <2>2. CASE DataSlot >= 1
    <3>1. /\ taken = IF tim.due THEN DataSlot ELSE DataSlot - 1
          /\ \A p \in Pixels :
               (p + 1) * SlotsPerPixel <= taken => chain[p] = s_pwm_dma_buffer[p]
      BY <1>4, <2>2 DEF IInv, Progress
    <3>2. tim.due => DataSlot = SK6805_DATA_SLOT_COUNT
      <4>1. dma.left \in Nat
        BY <1>1, Slots DEF TypeOK
      <4> QED
        BY <1>1, <4>1, DataSlotRange DEF InStep, Due
    <3>3. taken' = IF taken < SK6805_DATA_SLOT_COUNT THEN taken + 1 ELSE taken
      BY <1>1, <2>2, DataSlotRange DEF TimerPeriod, Pulse
    <3>4. taken' = DataSlot
      BY <1>1, <3>1, <3>2, <3>3, Slots, DataSlotRange
    <3>5. ASSUME NEW p \in Pixels, (p + 1) * SlotsPerPixel <= taken'
          PROVE  chain'[p] = s_pwm_dma_buffer[p]
      <4> DEFINE last == (p + 1) * SlotsPerPixel
      <4>1. last \in Nat /\ last <= SK6805_DATA_SLOT_COUNT /\ last <= taken'
        BY <3>5, Slots
      <4> HIDE DEF last
      <4>2. CASE taken + 1 = DataSlot
        <5>1. Takes(s_pwm_dma_buffer)
          BY <1>1, <2>2, <4>2, DataSlotRange DEF TimerPeriod, Pulse
        <5>2. last = taken + 1 \/ last <= taken
          BY <1>1, <3>4, <4>1, <4>2, DataSlotRange
        <5> QED
          BY <3>1, <5>1, <5>2 DEF Takes, last
      <4>3. CASE taken + 1 # DataSlot
        <5>1. taken = SK6805_DATA_SLOT_COUNT
          BY <1>1, <3>1, <3>2, <4>3, Slots, DataSlotRange
        <5>2. \E colour \in Colors : Takes([q \in Pixels |-> colour])
          BY <1>1, <2>2, <4>3, DataSlotRange DEF TimerPeriod, Pulse
        <5>3. last <= taken /\ last # taken + 1
          BY <4>1, <5>1, Slots
        <5> QED
          BY <3>1, <5>2, <5>3 DEF Takes, last
      <4> QED BY <4>2, <4>3
    <3>6. ~(DataSlot <= 0)
      BY <1>1, <2>2, DataSlotRange
    <3> QED BY <2>2, <3>4, <3>5, <3>6, Zenon
  <2>3. DataSlot <= 0 \/ DataSlot >= 1
    BY <1>1, DataSlotRange
  <2>4. DataSlot <= 0 => ~(DataSlot >= 1)
    BY <1>1, DataSlotRange
  <2> QED BY <2>1, <2>2, <2>3, <2>4, Zenon
<1>9. PixelsSent' /\ LeavesReady'
  BY <1>2, <1>4 DEF PixelsSent, LeavesReady, Waiting, Ending
<1> QED
  BY <1>2, <1>3, <1>4, <1>7, <1>8, <1>9 DEF IInv, ChannelInv, CommitInv

(* The DMA hands a value over only while its handle is busy.               *)
LEMMA DmaActive ==
  ASSUME IInv, Due
  PROVE  dma.state = "BUSY" /\ pc \in Waiting
BY DEF IInv, TypeOK, ChannelInv, CommitInv, Due

LEMMA DmaMovesStep ==
  ASSUME IInv, DmaMoves
  PROVE  IInv'
<1> DEFINE raised == (IF dma.left = 1 THEN {"TC"} ELSE {})
                       \union (IF 2 * (dma.left - 1) = SK6805_DMA_SLOT_COUNT
                               THEN {"HT"} ELSE {})
<1>1. /\ dma.state = "BUSY" /\ pc \in Waiting
      /\ dma.left \in 1 .. SK6805_DMA_SLOT_COUNT /\ tim.due /\ InStep
  BY DmaActive, Slots DEF DmaMoves, Due, InStep, IInv, TypeOK
<1>2. /\ dma' = [dma EXCEPT !.left = dma.left - 1, !.flags = dma.flags \union raised]
      /\ tim' = [tim EXCEPT !.due = FALSE]
      /\ UNCHANGED <<s_pixels, s_pwm_dma_buffer, s_transfer_complete,
                     s_transfer_error, pc, waited, status, taken, chain, shown>>
  BY DEF DmaMoves, flags, light
<1>3. /\ dma'.left = dma.left - 1 /\ dma'.flags = dma.flags \union raised
      /\ dma'.state = "BUSY" /\ dma'.enabled = dma.enabled
      /\ raised \subseteq {"TC", "HT"} /\ ("TC" \in raised => dma.left = 1)
  BY <1>1, <1>2 DEF IInv, TypeOK
<1> HIDE DEF raised
<1>4. /\ ~tim'.due /\ tim'.channel = tim.channel /\ tim'.request = tim.request
      /\ tim'.output = tim.output /\ tim' \in TimType
  BY <1>2 DEF IInv, TypeOK, TimType
<1>5. TypeOK'
  <2>1. dma \in DmaType
    BY DEF IInv, TypeOK, DmaType
  <2>2. dma.left - 1 \in 0 .. SK6805_DMA_SLOT_COUNT
    BY <1>1, Slots
  <2>3. dma.flags \union raised \in SUBSET {"HT", "TC", "TE"}
    BY <1>3, <2>1 DEF DmaType
  <2>4. dma' \in DmaType
    BY <1>2, <2>1, <2>2, <2>3 DEF DmaType
  <2> QED
    BY <1>2, <1>4, <2>4 DEF IInv, TypeOK, DmaType, TimType
<1>6. ChannelInv'
  <2>1. "TC" \notin dma.flags
    BY <1>1, Slots DEF IInv, ChannelInv
  <2>2. dma.enabled
    BY DEF DmaMoves, Due
  <2> QED
    BY <1>1, <1>3, <2>1, <2>2 DEF IInv, ChannelInv
<1>7. CommitInv'
  <2>1. ~s_transfer_complete
    BY <1>1, Slots DEF IInv, CommitInv
  <2> QED
    BY <1>1, <1>2, <1>4, <2>1 DEF IInv, CommitInv, Waiting
<1>8. Progress'
  <2>1. DataSlot' = DataSlot + 1 /\ DataSlot \in Int
    BY <1>1, <1>3, Slots, LedDriverAssumption DEF DataSlot
  <2>2. CASE DataSlot >= 1
    BY <1>1, <1>2, <1>4, <2>1, <2>2 DEF IInv, Progress
  <2>3. CASE DataSlot <= 0
    <3>1. taken = 0
      BY <1>1, <2>3 DEF IInv, Progress
    <3>2. \A p \in Pixels : ~((p + 1) * SlotsPerPixel <= taken)
      BY <3>1, Slots
    <3> QED
      BY <1>2, <1>4, <2>1, <2>3, <3>1, <3>2 DEF Progress
  <2> QED
    BY <2>1, <2>2, <2>3
<1> QED
  BY <1>1, <1>2, <1>5, <1>6, <1>7, <1>8 DEF IInv, LeavesReady, PixelsSent,
    Waiting

LEMMA InterruptSteps ==
  ASSUME IInv, DmaFails \/ HalfTransfer \/ TransferComplete \/ TransferError
  PROVE  IInv'
<1>1. CASE DmaFails
  <2>1. dma.state = "BUSY" /\ pc \in Waiting /\ dma.left # 0
    BY <1>1, DmaActive DEF DmaFails, Due
  <2>2. TypeOK'
    BY <1>1 DEF DmaFails, IInv, TypeOK, flags, light
  <2> QED
    BY <1>1, <2>1, <2>2 DEF DmaFails, IInv, TypeOK, LeavesReady, ChannelInv, CommitInv,
      Progress, InStep, DataSlot, PixelsSent, flags, light, Waiting, Ending
<1>2. CASE HalfTransfer
  <2>1. TypeOK'
    BY <1>2 DEF HalfTransfer, IInv, TypeOK, flags, light
  <2> QED
    BY <1>2, <2>1 DEF HalfTransfer, IInv, TypeOK, LeavesReady, CanStart, ChannelInv,
      CommitInv, Progress, InStep, DataSlot, PixelsSent, flags, light, Waiting, Ending
<1>3. CASE TransferComplete
  <2>1. TypeOK'
    BY <1>3 DEF TransferComplete, IInv, TypeOK, light
  <2>2. dma'.flags \intersect dma'.it = {}
    BY <1>3 DEF TransferComplete, IInv, TypeOK
  <2>3. dma.left = 0
    BY <1>3 DEF TransferComplete, IInv, ChannelInv
  <2> QED
    BY <1>3, <2>1, <2>2, <2>3 DEF TransferComplete, IInv, TypeOK, LeavesReady, CanStart,
      ChannelInv, CommitInv, Progress, InStep, DataSlot, PixelsSent, light, Waiting, Ending
<1>4. CASE TransferError
  <2>1. TypeOK'
    BY <1>4 DEF TransferError, IInv, TypeOK, light
  <2>2. ~dma.enabled
    BY <1>4 DEF TransferError, IInv, ChannelInv
  <2> QED
    BY <1>4, <2>1, <2>2 DEF TransferError, IInv, TypeOK, LeavesReady, CanStart,
      ChannelInv, CommitInv, Progress, InStep, DataSlot, PixelsSent, light, Waiting, Ending
<1> QED BY <1>1, <1>2, <1>3, <1>4

LEMMA NextHolds == IInv /\ [Next]_vars => IInv'
<1> SUFFICES ASSUME IInv, [Next]_vars PROVE IInv'
  OBVIOUS
<1>1. CASE LowLine
  BY <1>1, Slots DEF LowLine, IInv, TypeOK, LeavesReady, CanStart, ChannelInv, CommitInv,
    Progress, InStep, DataSlot, PixelsSent, flags, Waiting, Ending
<1>2. CASE UNCHANGED vars
  BY <1>2 DEF vars, IInv, TypeOK, LeavesReady, CanStart, ChannelInv, CommitInv,
    Progress, InStep, DataSlot, PixelsSent, flags, light
<1> QED
  BY <1>1, <1>2, FillSteps, PrepareSteps, StartStep, PollSteps, StopSteps, ReturnStep,
    PulseStep, DmaMovesStep, InterruptSteps DEF Next, Task

LEMMA Invariance == Spec => []IInv
BY InitHolds, NextHolds, PTL DEF Spec

(* Type correctness: in particular a start is never refused, so that no    *)
(* commit returns LED_ERRORRESOURCE.                                       *)
THEOREM TypeCorrect == Spec => []TypeOK
BY Invariance, PTL DEF IInv

(* A commit that has seen its transfer complete has sent all bits but one. *)
LEMMA AllButOne ==
  ASSUME IInv, pc = "stopped", status = "LED_OK", ~s_transfer_error
  PROVE  SK6805_DATA_SLOT_COUNT - 1 <= taken
<1>1. dma.left = 0
  BY DEF IInv, CommitInv, Ending
<1>2. DataSlot = SK6805_DATA_SLOT_COUNT
  BY <1>1, DataSlotRange DEF IInv
<1>3. taken = IF tim.due THEN DataSlot ELSE DataSlot - 1
  BY <1>1, <1>2, Slots DEF IInv, Progress, InStep, Ending
<1> QED
  BY <1>2, <1>3, Slots

(* bsp_led_driver_commit returns LED_OK only when its own frame has gone   *)
(* out but for the last bit, which it may cut.                             *)
THEOREM OkSent == Spec => []OkSendsAllButLastBit
<1>1. IInv => OkSendsAllButLastBit
  BY AllButOne DEF IInv, PixelsSent, OkSendsAllButLastBit
<1> QED
  BY <1>1, Invariance, PTL

(* However a commit ended, the timer and the DMA are ready for the next    *)
(* and nothing of it is still under way.                                   *)
THEOREM ReadyLeft == Spec => []LeavesReady
BY Invariance, PTL DEF IInv
=============================================================================
