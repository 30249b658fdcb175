----------------------------- MODULE LedDriver -----------------------------
(***************************************************************************)
(* The LED driver and handler (Application/BSP/LED): one commit sends the  *)
(* pixel buffer to the LED chain as compare values that the DMA hands to   *)
(* timer 3, slot by slot.  The LED task polls two flags that the DMA       *)
(* interrupt sets and gives up after a timeout.                            *)
(*                                                                         *)
(* The task, the DMA, its interrupt and the clock take their steps in any  *)
(* order: the task has the lowest priority and may stand still between any *)
(* two of its steps, and the DMA may stall or fail at any slot.  The HAL   *)
(* functions are modelled by what they do to the channel, its lock, its    *)
(* flags and the timer.                                                    *)
(*                                                                         *)
(* The compare value is preloaded: what the DMA writes in one period of    *)
(* the timer becomes the pulse of the next, and the timer repeats its      *)
(* last value until it is stopped.  So the DMA is done, and the commit may *)
(* see it, before the last pulse is out.                                   *)
(***************************************************************************)
EXTENDS Integers

CONSTANTS
  BSP_LED_PIXEL_COUNT,         (* 6 in the code                            *)
  SK6805_RESET_SLOT_COUNT,     (* low slots before the data                *)
  SlotsPerPixel,               (* 24 in the code                           *)
  SK6805_TRANSFER_TIMEOUT_MS,
  Colors, Off

ASSUME LedDriverAssumption ==
  /\ BSP_LED_PIXEL_COUNT \in Nat \ {0}
  /\ SK6805_RESET_SLOT_COUNT \in Nat \ {0}
  /\ SlotsPerPixel \in Nat \ {0}
  /\ SK6805_TRANSFER_TIMEOUT_MS \in Nat
  /\ Off \in Colors

VARIABLES
  s_pixels,             (* the software buffer                             *)
  s_pwm_dma_buffer,     (* the colours encoded in the DMA frame            *)
  s_transfer_complete, s_transfer_error,
  pc,                   (* where the commit is; "idle" outside of one      *)
  waited,               (* ms since start_tick, up to the timeout          *)
  status,               (* what the last commit returned                   *)
  dma,                  (* the DMA channel and its HAL handle              *)
  tim,                  (* timer 3 and the HAL state of its channel 3      *)
  taken,                (* bits the chain has taken in since a low line    *)
  chain,                (* the colours it has taken in                     *)
  shown                 (* the colours it shows: latched by a low line     *)

flags == <<s_transfer_complete, s_transfer_error>>
light == <<taken, chain, shown>>
vars == <<s_pixels, s_pwm_dma_buffer, flags, pc, waited, status, dma, tim, light>>

Pixels == 0 .. BSP_LED_PIXEL_COUNT - 1
Frames == [Pixels -> Colors]
Dark == [p \in Pixels |-> Off]
SK6805_DATA_SLOT_COUNT == BSP_LED_PIXEL_COUNT * SlotsPerPixel
SK6805_DMA_SLOT_COUNT == SK6805_RESET_SLOT_COUNT + SK6805_DATA_SLOT_COUNT

(* The cameras' LEDs are 0 to BSP_LED_SYSTEM - 1; the chain starts at the  *)
(* system LED.                                                             *)
BSP_LED_SYSTEM == BSP_LED_PIXEL_COUNT - 1
s_led_to_pixel(led) == BSP_LED_SYSTEM - led

(* After bsp_led_driver_init; bsp_led_handler_init goes on with a commit.  *)
Init ==
  /\ s_pixels = Dark /\ s_pwm_dma_buffer = Dark
  /\ s_transfer_complete = FALSE /\ s_transfer_error = FALSE
  /\ pc = "build" /\ waited = 0 /\ status = "none"
  /\ dma = [state |-> "READY", locked |-> FALSE, enabled |-> FALSE,
            it |-> {}, flags |-> {}, left |-> 0]
  /\ tim = [channel |-> "READY", request |-> FALSE, output |-> FALSE, due |-> FALSE]
  /\ taken = 0 /\ chain \in Frames /\ shown = chain
-----------------------------------------------------------------------------
(* The handler's functions, which fill the buffer between commits.         *)

Fills(pixels) ==
  /\ pc = "idle"
  /\ s_pixels' = pixels
  /\ UNCHANGED <<s_pwm_dma_buffer, flags, pc, waited, status, dma, tim, light>>

bsp_led_handler_set == \E led \in Pixels, color \in Colors :
  Fills([s_pixels EXCEPT ![s_led_to_pixel(led)] = color])

bsp_led_handler_set_all_cameras == \E color \in Colors :
  Fills([p \in Pixels |-> IF p \in {s_led_to_pixel(led) : led \in 0 .. BSP_LED_SYSTEM - 1}
                          THEN color ELSE s_pixels[p]])

bsp_led_handler_clear == Fills(Dark)
-----------------------------------------------------------------------------
(* bsp_led_driver_commit, step by step.                                    *)

Commit ==
  /\ pc = "idle"
  /\ pc' = "build"
  /\ UNCHANGED <<s_pixels, s_pwm_dma_buffer, flags, waited, status, dma, tim, light>>

sk6805_build_dma_frame ==
  /\ pc = "build"
  /\ s_pwm_dma_buffer' = s_pixels
  /\ pc' = "reset"
  /\ UNCHANGED <<s_pixels, flags, waited, status, dma, tim, light>>

(* Mutation check: the flags keep what the last transfer has left.         *)
KeepFlags ==
  /\ pc = "reset"
  /\ pc' = "start"
  /\ UNCHANGED <<s_pixels, s_pwm_dma_buffer, flags, waited, status, dma, tim, light>>

ResetFlags ==
  /\ pc = "reset"
  /\ s_transfer_complete' = FALSE /\ s_transfer_error' = FALSE
  /\ pc' = "start"
  /\ UNCHANGED <<s_pixels, s_pwm_dma_buffer, waited, status, dma, tim, light>>

(* HAL_TIM_PWM_Start_DMA refuses a busy timer channel; HAL_DMA_Start_IT a  *)
(* locked handle or a busy DMA channel.                                    *)
CanStart == tim.channel = "READY" /\ ~dma.locked /\ dma.state = "READY"

(* A refused start is followed by the stop of a transfer.                  *)
HAL_TIM_PWM_Start_DMA ==
  /\ pc = "start"
  /\ IF CanStart
     THEN /\ dma' = [state |-> "BUSY", locked |-> TRUE, enabled |-> TRUE,
                     it |-> {"HT", "TC", "TE"}, flags |-> {},
                     left |-> SK6805_DMA_SLOT_COUNT]
          /\ tim' = [channel |-> "BUSY", request |-> TRUE, output |-> TRUE,
                     due |-> FALSE]
          /\ pc' = "poll" /\ waited' = 0
          /\ UNCHANGED status
     ELSE /\ pc' = "stop" /\ status' = "LED_ERRORRESOURCE"
          /\ UNCHANGED <<dma, tim, waited>>
  /\ UNCHANGED <<s_pixels, s_pwm_dma_buffer, flags, light>>

(* The flags are looked at, then the time.                                 *)
PollFlags ==
  /\ pc = "poll"
  /\ IF s_transfer_complete \/ s_transfer_error
     THEN pc' = "stop" /\ status' = "LED_OK"
     ELSE pc' = "time" /\ UNCHANGED status
  /\ UNCHANGED <<s_pixels, s_pwm_dma_buffer, flags, waited, dma, tim, light>>

(* Mutation checks: the task waits for the flags alone; the transfer is    *)
(* not stopped after a timeout.                                            *)
PollForever ==
  /\ pc = "time"
  /\ pc' = "poll"
  /\ UNCHANGED <<s_pixels, s_pwm_dma_buffer, flags, waited, status, dma, tim, light>>
TimeoutWithoutStop ==
  /\ pc = "time"
  /\ IF SK6805_TRANSFER_TIMEOUT_MS <= waited
     THEN pc' = "idle" /\ status' = "LED_ERRORTIMEOUT"
     ELSE pc' = "poll" /\ UNCHANGED status
  /\ UNCHANGED <<s_pixels, s_pwm_dma_buffer, flags, waited, dma, tim, light>>

PollTime ==
  /\ pc = "time"
  /\ IF SK6805_TRANSFER_TIMEOUT_MS <= waited
     THEN pc' = "stop" /\ status' = "LED_ERRORTIMEOUT"
     ELSE pc' = "poll" /\ UNCHANGED status
  /\ UNCHANGED <<s_pixels, s_pwm_dma_buffer, flags, waited, dma, tim, light>>
-----------------------------------------------------------------------------
(* The line and the chain.                                                 *)

(* The place among the data of the slot in the compare register; 0 or less *)
(* for a low one.                                                          *)
DataSlot == SK6805_DMA_SLOT_COUNT - dma.left - SK6805_RESET_SLOT_COUNT

(* One more bit arrives: the pixel whose last bit it is takes its colour.  *)
Takes(frame) ==
  chain' = [p \in Pixels |-> IF (p + 1) * SlotsPerPixel = taken + 1
                              THEN frame[p] ELSE chain[p]]

(* A low slot latches what the chain has taken in.  A repeated bit is one  *)
(* more, of any colour; a full chain passes it on.                         *)
Pulse ==
  IF DataSlot <= 0 THEN shown' = chain /\ taken' = 0 /\ UNCHANGED chain
  ELSE /\ taken' = IF taken < SK6805_DATA_SLOT_COUNT THEN taken + 1 ELSE taken
       /\ \/ taken + 1 = DataSlot /\ Takes(s_pwm_dma_buffer)
          \/ /\ taken + 1 # DataSlot
             /\ \E colour \in Colors : Takes([p \in Pixels |-> colour])
       /\ UNCHANGED shown

-----------------------------------------------------------------------------
(* sk6805_stop_transfer: HAL_TIM_PWM_Stop_DMA takes away the timer's DMA   *)
(* requests, and HAL_DMA_Abort_IT looks at the state of the channel.       *)
StopRequests ==
  /\ pc = "stop"
  /\ tim' = [tim EXCEPT !.request = FALSE]
  /\ IF dma.state = "BUSY" THEN pc' = "abort" /\ UNCHANGED dma
     ELSE /\ dma' = [dma EXCEPT !.state = "READY", !.locked = FALSE]
          /\ pc' = "stopped"
  /\ UNCHANGED <<s_pixels, s_pwm_dma_buffer, flags, waited, status, light>>

(* The DMA interrupt may have come since the state was looked at.          *)
HAL_DMA_Abort_IT ==
  /\ pc = "abort"
  /\ dma' = [dma EXCEPT !.enabled = FALSE, !.it = {}, !.flags = {},
                        !.state = "READY", !.locked = FALSE]
  /\ pc' = "stopped"
  /\ UNCHANGED <<s_pixels, s_pwm_dma_buffer, flags, waited, status, tim, light>>

(* The output is switched off and the timer stopped, whatever is on the    *)
(* line: a pulse of the data that is cut short is no bit, or any bit.  Of  *)
(* a finished transfer the error flag decides what the commit returns.     *)
Return ==
  /\ pc = "stopped"
  /\ tim' = [tim EXCEPT !.channel = "READY", !.output = FALSE]
  /\ \/ UNCHANGED chain
     \/ DataSlot > 0 /\ \E colour \in Colors : Takes([p \in Pixels |-> colour])
  /\ status' = IF status = "LED_OK" /\ s_transfer_error THEN "LED_ERROR" ELSE status
  /\ pc' = "idle"
  /\ UNCHANGED <<s_pixels, s_pwm_dma_buffer, flags, waited, dma, taken, shown>>

Task ==
  \/ sk6805_build_dma_frame \/ ResetFlags \/ HAL_TIM_PWM_Start_DMA
  \/ PollFlags \/ PollTime \/ StopRequests \/ HAL_DMA_Abort_IT \/ Return
-----------------------------------------------------------------------------
(* The timer, the DMA, its interrupt and the clock.                        *)

(* The timer has asked for the next value and gets it within this period.  *)
Due == dma.enabled /\ tim.request /\ tim.due /\ dma.left > 0

(* A period begins: the compare register's value becomes active, its pulse *)
(* goes out, and with its end the timer asks for the next value.           *)
TimerPeriod ==
  /\ tim.output /\ ~Due
  /\ Pulse
  /\ tim' = [tim EXCEPT !.due = TRUE]
  /\ UNCHANGED <<s_pixels, s_pwm_dma_buffer, flags, pc, waited, status, dma>>

DmaMoves ==
  /\ Due
  /\ tim' = [tim EXCEPT !.due = FALSE]
  /\ dma' = [dma EXCEPT
       !.left = @ - 1,
       !.flags = @ \union (IF dma.left = 1 THEN {"TC"} ELSE {})
                   \union (IF 2 * (dma.left - 1) = SK6805_DMA_SLOT_COUNT
                           THEN {"HT"} ELSE {})]
  /\ UNCHANGED <<s_pixels, s_pwm_dma_buffer, flags, pc, waited, status, light>>

DmaFails ==
  /\ Due
  /\ dma' = [dma EXCEPT !.enabled = FALSE, !.flags = @ \union {"TE"}]
  /\ UNCHANGED <<s_pixels, s_pwm_dma_buffer, flags, pc, waited, status, tim, light>>

(* HAL_DMA_IRQHandler serves one flag per interrupt.                       *)
HalfTransfer ==
  /\ "HT" \in dma.flags \intersect dma.it
  /\ dma' = [dma EXCEPT !.flags = @ \ {"HT"}, !.it = @ \ {"HT"}]
  /\ UNCHANGED <<s_pixels, s_pwm_dma_buffer, flags, pc, waited, status, tim, light>>

(* ... down to HAL_TIM_PWM_PulseFinishedCallback.                          *)
TransferComplete ==
  /\ "HT" \notin dma.flags \intersect dma.it
  /\ "TC" \in dma.flags \intersect dma.it
  /\ dma' = [dma EXCEPT !.flags = @ \ {"TC"}, !.it = @ \ {"TC", "TE"},
                        !.state = "READY", !.locked = FALSE]
  /\ tim' = [tim EXCEPT !.channel = "READY"]
  /\ s_transfer_complete' = TRUE
  /\ UNCHANGED <<s_pixels, s_pwm_dma_buffer, s_transfer_error, pc, waited,
                 status, light>>

(* ... down to HAL_TIM_ErrorCallback.                                      *)
TransferError ==
  /\ {"HT", "TC"} \intersect dma.flags \intersect dma.it = {}
  /\ "TE" \in dma.flags \intersect dma.it
  /\ dma' = [dma EXCEPT !.flags = {}, !.it = {},
                        !.state = "READY", !.locked = FALSE]
  /\ tim' = [tim EXCEPT !.channel = "READY"]
  /\ s_transfer_error' = TRUE
  /\ UNCHANGED <<s_pixels, s_pwm_dma_buffer, s_transfer_complete, pc, waited,
                 status, light>>

Tick ==
  /\ pc \in {"poll", "time"} /\ waited < SK6805_TRANSFER_TIMEOUT_MS
  /\ waited' = waited + 1
  /\ UNCHANGED <<s_pixels, s_pwm_dma_buffer, flags, pc, status, dma, tim, light>>

(* The line is low while the timer stands still, long enough at last.      *)
LowLine ==
  /\ pc = "idle" /\ ~tim.output
  /\ shown' = chain /\ taken' = 0
  /\ UNCHANGED <<s_pixels, s_pwm_dma_buffer, flags, pc, waited, status, dma,
                 tim, chain>>

Next ==
  \/ bsp_led_handler_set \/ bsp_led_handler_set_all_cameras
  \/ bsp_led_handler_clear \/ Commit \/ Task
  \/ TimerPeriod \/ DmaMoves \/ DmaFails \/ HalfTransfer \/ TransferComplete \/ TransferError
  \/ Tick \/ LowLine

(* Time goes on, and the LED task is given the processor again and again.  *)
Spec == Init /\ [][Next]_vars /\ WF_vars(Task) /\ WF_vars(Tick)
-----------------------------------------------------------------------------
TypeOK ==
  /\ s_pixels \in Frames /\ s_pwm_dma_buffer \in Frames
  /\ s_transfer_complete \in BOOLEAN /\ s_transfer_error \in BOOLEAN
  /\ pc \in {"idle", "build", "reset", "start", "poll", "time", "stop",
             "abort", "stopped"}
  /\ waited \in 0 .. SK6805_TRANSFER_TIMEOUT_MS
  /\ status \in {"none", "LED_OK", "LED_ERROR", "LED_ERRORTIMEOUT"}
  /\ dma \in [state : {"READY", "BUSY"}, locked : BOOLEAN, enabled : BOOLEAN,
              it : SUBSET {"HT", "TC", "TE"}, flags : SUBSET {"HT", "TC", "TE"},
              left : 0 .. SK6805_DMA_SLOT_COUNT]
  /\ tim \in [channel : {"READY", "BUSY"}, request : BOOLEAN, output : BOOLEAN,
              due : BOOLEAN]
  /\ taken \in 0 .. SK6805_DATA_SLOT_COUNT
  /\ chain \in Frames /\ shown \in Frames

(* A commit that returns LED_OK has sent its own frame but for the last    *)
(* bit: no flag of an earlier transfer, late interrupt or DMA error is     *)
(* taken for its completion, and no bit is sent twice or left out.  The    *)
(* last pixel, whose last bit the stop may cut, has all its other bits.    *)
OkSendsAllButLastBit ==
  /\ pc = "idle" /\ status = "LED_OK" =>
       \A p \in Pixels :
         p < BSP_LED_PIXEL_COUNT - 1 => chain[p] = s_pwm_dma_buffer[p]
  /\ pc = "stopped" /\ status = "LED_OK" /\ ~s_transfer_error =>
       SK6805_DATA_SLOT_COUNT - 1 <= taken

(* However a commit ends, with an interrupt in between or not, the timer   *)
(* and the DMA take no more slots, have no interrupt to deliver and accept *)
(* the next start; so the frame is never rebuilt under a running transfer. *)
LeavesReady ==
  pc \in {"idle", "build", "reset", "start"} =>
    /\ CanStart
    /\ ~tim.request /\ ~tim.output
    /\ dma.flags \intersect dma.it = {}

(* A commit comes to an end, whatever the DMA does.                        *)
CommitReturns == pc = "build" ~> pc = "idle"

(* As bsp_led_driver.h:91 says of LED_OK: the frame is sent ...            *)
OkMeansSent == pc = "idle" /\ status = "LED_OK" => chain = s_pwm_dma_buffer

(* ... and latched.                                                        *)
OkMeansLatched == pc = "idle" /\ status = "LED_OK" => shown = s_pwm_dma_buffer
=============================================================================
