# TacGlove firmware: TLA+ models, checks and proofs

The repository holds the firmware of a tactile glove on an STM32G474: a FreeRTOS
application (`src/Application`), a bootloader (`src/Bootloader`) and the PC
tools (`src/cmdfile`). This directory models the parts that carry the
firmware's own logic, checks them with TLC on small instances and proves the
most important results with TLAPS for every value of the constants.

## 1. Inventory

| Part (source) | State | Operations | What is hard | What makes it correct |
|---|---|---|---|---|
| Key handler, key task (`BSP/KEY/bsp_key_handler.c`, `Tasks/key_task.c`) | `s_key`: gesture state, three tick stamps, two flags, the event | sample and step once per ms; dispatch and clear the event | bounce, wrapping tick, irregular sampling, flags that cross phases | debounces like a plain debouncer; each gesture is answered once, truly, in time |
| LED task (`Tasks/led_task.c`) | collection flag, remote command and blink phase, mailbox, notification bits, system state, result of the last commit | self-test, commands, releases, three gestures, blink, fault | other tasks write between any two of its delays; commits fail; results are looked at late | display and state follow the last command and the collection flag; faults are final; inputs are served |
| micro-ROS task (`Tasks/micro_ros_task.c`) | connection flag, entity flags, key-event queue, time-sync flags, failure count | ping, create, spin, publish keys, sync, status, health check, disconnect | nine creations that can each fail, a disconnection that races the key task, lost and late answers | entities neither leak nor dangle; events in order and at most once; LEDs given back; reconnects as long as the transport opens |
| Bootloader menu and SN store (`Middleware/YMODEM/menu.c`, `flash_if.c`) | the record in the last flash page, flash lock, menu state | read SN, write SN once, check the application, jump | power failure and flash error between any two flash operations | the SN is a write-once register; success is true; the flash is locked |
| LED driver and handler (`BSP/LED`) | pixel buffer, DMA frame, two flags, timer channel, DMA handle | set, clear, commit; DMA interrupt; timeout | interrupt and timeout meet in the steps of giving up; a DMA error, a stalled DMA | success means this frame went out but for its last bit; every way out leaves the channel ready; commits return |
| Beeper driver (`BSP/BEEP`) | one pin | on, off | nothing | - |
| Application SN driver (`BSP/SN`) | none (reads flash) | read the SN, build the device name | its format check is looser than the bootloader's | takes no half-written record for a number |
| DMA transport (`extra_sources/microros_transports/dma_transport.c`) | ring of 2048 bytes, head, tail | open, close, write, read | circular DMA overtakes the reader | bytes in order, no loss below one turn |
| Heap (`custom_memory_manager.c`, `microros_allocators.c`) | free list, block sizes, two counters | allocate, zero-allocate, reallocate, free | splitting, coalescing, overflow of a product, a reallocation that knows only block sizes | regions never overlap; list, sizes and counter agree; nothing fragments for good |
| Time source (`microros_time.c`), time sync (in the micro-ROS task) | base, tick at the last request, pending flag | request, answer, stamp | wrapping tick, late and lost answers, retries, sessions that end | the lag behind the PC is known; the base is of this session; requests keep their distance |
| Task manager, start-up (`task_manager.c`, `main.c`) | handles | create queues and tasks | sequential | both queues exist before a task runs |
| PC tools (`cmdfile/*.py`) | serial buffers, what the tool waits for | write and read the SN, send keys; answer time requests | byte stream without framing or checksum, late and cut answers, interrupted calls | what the tool reports is so; only a number it sent is stored |
| Peripheral set-up, vendored libraries | - | - | - | not modelled: generated or third-party |

How they interact. `key_task` samples the key each millisecond; an event goes
to the LED task as a notification bit (`led_task_on_*`) and to the micro-ROS
task through a queue (`micro_ros_task_enqueue_key_event`). The micro-ROS task
writes PC commands, and a release when it loses the agent, into the LED task's
one-slot mailbox, and reads `led_task_get_system_state` for its status message.
The key task and the micro-ROS task have the same priority and are time-sliced,
the LED task the lowest. The bootloader runs before all of them and shares only
the flash page of the SN with the application; the PC tool talks to its menu
over the same serial line the application uses later.

The individual hazards, each at its line with the properties that cover it, are
under `hazards` in `PROJECT.json`.

## 2. Modules

| Module | Models | Correspondence |
|---|---|---|
| `KeyHandler` | `s_key` and the loop of `key_task_entry` | one action per `case` of `bsp_key_handler_process`, one disjunct per branch; `Dispatch(d)` is the forward, the clear and the sleep of `d` ms; `key_time_reached` is the unsigned difference modulo `TickMod` |
| `KeyGesture` | the handler with an observer | the observer sees only samples, time and forwarded events; the properties compare the two |
| `LedTask` | `led_task.c` with what its drivers do | a handler puts its LED and beeper calls into `plan`, `Operate` makes one of them; other tasks run in between. `led_task_submit_cmd`, `_release_remote_control`, `_notify_action` are the calls other tasks make |
| `LedService` | the task with arbitrary callers | adds the history variable `last`, fairness and properties |
| `MicroRosTask` | `micro_ros_task.c` with the key task's calls into it | `pc` is the next piece of the task's work; `CreateOrder`, `FiniOrder` are the order of the code's calls; `EnqueueAllowed` and `EnqueueSend` are the check and the send of `micro_ros_task_enqueue_key_event`; `transportStuck` is the state of the transport in which `cubemx_transport_open` fails |
| `MicroRosLink` | that task under the scheduler's fairness | properties |
| `SerialNumber` | the numbers the two modules below share | constants only: a number is a value |
| `BootSn` | the bootloader's menu, the write of the SN and the application's reading of it | the record is three double words; each flash operation is one step, at which power or HAL may fail; `Visible` is `Boot_ReadSN`, `bsp_sn_driver_read` the application's check |
| `SnStore` | abstract: a write-once register | `BootSn` implements it with `stored <- Visible`, `SnSession` with `asked <- submitted` |
| `DmaTransport` | `dma_transport.c` and the UART driver's interrupt handlers | each call is broken into steps at every read of what the hardware changes: `ReadStart`, `WaitTurn`, `WaitEnds` sample the DMA counter, `CopyByte` is one turn of the copy loop, `WriteReturns`/`WriteTimesOut` the two ways out of the wait. `counter` is NDTR, `receiving` DMAR; `arrived` and `taken` number the bytes |
| `RxFifo` | abstract: bytes in order, each once; opening forgets the unread | `DmaTransport` implements it |
| `TimeSync` | the time synchronisation and the stamps of `micro_ros_task.c`, in exact ticks | `pc` is the place in one round of the running loop; `micro_ros_sync_callback` runs in `Spin`; `on_sync` is the PC's service; `basis` remembers the answer the clock was set by |
| `Heap` | `custom_memory_manager.c` behind `microros_allocators.c` | `heap.next` is the free list, `heap.size` the block sizes, `held` the pointers the library has; `prvInsertBlockIntoFreeList`, `Divide`, `Unlink` are the pieces of the code, each allocator function is one action |
| `Allocator` | abstract: regions inside an arena that never overlap | `Heap` implements it, in bytes |
| `LedDriver` | `bsp_led_driver.c`, `bsp_led_handler.c` and the HAL functions they call | one action per access of the commit to what the interrupt changes; `HalfTransfer`, `TransferComplete`, `TransferError` are the branches of `HAL_DMA_IRQHandler` down to the driver's callbacks; `TimerPeriod` is a period of timer 3, `Pulse` what the LED chain takes from it, `DmaMoves` the next value's way into the preloaded compare register |
| `SnTool` | `sn_tool.py` | `doing` is the read the tool waits in; one action per frame it can get and per way out |
| `SnSession` | the tool and the bootloader's menu over a serial line | `at` is the reception the menu waits in, byte by byte; of the flash only the number a reader gets is kept, and the refinement to `SnStore` that `BootSn` establishes is asked of the whole session |
| `KeyGesture_proofs`, `LedService_proofs`, `MicroRosLink_proofs`, `SerialNumber_proofs`, `DmaTransport_proofs`, `TimeSync_proofs`, `Heap_proofs`, `LedDriver_proofs` | theorems and proofs | section 5 |
| `MC*` | TLC instances | section 3 |

Definitions introduced by a comment "Mutation check" (or "Slips for the
mutation check") are not part of a specification. Each is a definition of the
module with one plausible slip; put in the place of the real one it makes the
property named in `PROJECT.json` (`mutants`) fail, which shows that the
property depends on the code and not on the shape of the model.

What the models abstract:

* Time. `KeyHandler` and `TimeSync` have exact milliseconds, modulo the
  counter's range, since their properties are about them. In the other modules delays, periods and
  timeouts may take any time.
* Data. LED colours are names, brightness and PWM encoding are left out. Key
  events are numbered in the order of recognition. Message texts and
  the statistics counters of the status message are left out. In `BootSn` the
  digits of an SN are one value; in `SnSession` a number and a command are
  sequences of bytes, whose lengths are constants: the run has 4 bytes to a
  number and 2 to a command's body, the code 18 and 6.
* `LedTask`: a commit succeeds, or fails after showing any part of its frame.
  The beeper cannot fail once initialised (its `set` tests only that).
* `MicroRosTask`: the failures at start-up (allocator, transport) suspend the
  task before the modelled loop starts and are left out. A sync answer may be
  late by any time, be lost, or be refused; answers still under way are
  forgotten with the client that asked for them. The release of an entity
  gives its memory back: the code looks at no result (`fini_result`), and a
  release the agent does not confirm frees the local side all the same. A DMA
  error of a transmission (`TransmitDmaError`) may come whenever messages are
  sent; it leaves the session under way as it is and every later opening of
  the transport refused, which is what `DmaTransport` shows of it.
* `BootSn`: the outcome of `FLASH_If_Check` is a constant of the device. What
  an interrupted flash operation may leave behind is the module's hardware
  assumption: an interrupted erase leaves each double word as it was, erased or
  unreadable, and does not make the valid mark appear; an interrupted
  programming leaves its own double word in any state and no other changed.
  A double word that the HAL reports as programmed is programmed, so the
  read-back of `Verify` finds what was written and its F017 is never taken.
  The properties of `BootSn` rest on that assumption.
* `DmaTransport`: the client calls one function at a time (it is one task) with
  valid arguments. A line error ends the reception, a DMA error of the
  transmitter ends the transmission and makes the HAL call both directions
  READY; a DMA error of the receiver is left out. Timeouts may expire at any
  time. Fewer than one turn of the ring's bytes are unread (`MaxUnread`): the
  code cannot notice an overrun, so this is what its caller must ensure. At the
  configured 2048 bytes it has 2047 byte times to come back.
* `TimeSync`: ticks pass between any two steps of the task. A request or an
  answer may be lost or delayed by any time; a request that cannot be sent is
  not made. What is under way is forgotten with the client when a session ends.
  The PC's clock runs at the glove's speed.
* `Heap`: addresses and sizes count units of `portBYTE_ALIGNMENT`, requests
  count bytes. A call is one step: the scheduler is suspended meanwhile, and
  only the micro-ROS task calls. The alignment of the heap's start is done.
* `LedDriver`: the task has the lowest priority and may stand still between any
  two of its steps, the DMA may stall or fail at any slot. The compare register
  of channel 3 is preloaded (`HAL_TIM_PWM_ConfigChannel` sets `OC3PE`): a value
  the DMA writes becomes the pulse of the next period, and the last value is
  repeated until the timer is stopped. So the transfer is complete while the
  last bit's pulse has yet to begin; `sk6805_stop_transfer` switches the output
  off (`Return`) before, during or after that pulse, and a pulse cut short is
  no bit or any bit. A request the DMA answers is answered within its period,
  which is 204 cycles of the timer; a DMA that does not answer keeps the model's
  line where it is. Bits beyond the frame are passed on. The commit is called
  from the task with interrupts enabled, so its first three returns cannot be
  taken; a refused start is in the model and is proved never to happen.
  `LED_ERRORTIMEOUT` may be returned although the frame went out.
* `SnSession`: bytes are delayed by any time, lost when the device is busy
  (its receiver has no FIFO) and when the power fails, but not changed. The
  tool's user is slower than the line: when a call starts, nothing of an
  earlier call is still under way but the last byte of a status that is being
  sent at that moment. That matters, since the protocol has neither a checksum
  nor a length: if a payload has lost a byte and the next key came within the
  three seconds, the key would complete the payload. The bootloader's timeouts
  and the tool's may strike in either order.

## 3. Runs

| Run | Instance | Shows |
|---|---|---|
| `key_gesture` | debounce 2, double click 4, long press 5 ms; samples 0-2 ms apart; the counter wraps at 16 and starts anywhere | `DebounceAgrees`, `AtMostOneEvent`, `ConfirmedPressAnswered`, `EventMatchesClicks`, `HeldPressAnswered`, `ReleasedKeyGoesIdle` for every level sequence |
| `led_service` | one camera LED and the system LED, four command frames (two legal, one of them blinking; an illegal LED mode, an illegal beep mode), three blinks | `RestAgrees`, `FailureNotIgnored`, `LatestCommandWins`, `RemoteOwnsLeds`, and under fairness `InputsServed`, `PreparationEnds` |
| `micro_ros_link` | queue of 2, failure limit 2, 4 key events, 2 answers under way | `EntitiesMatchState`, `DependenciesAlive`, `OrderedReporting`, `AtMostOneStraggler`, `ReleasedWhenWaiting`, and under fairness `AgentLossNoticed`, `Reconnects` |
| `recovery` | the same with 1 event, 1 answer | a violation of `RecoversByItself` (section 4) |
| `stale_replay` | as `micro_ros_link` | a violation of `NoStaleReplay` (section 4) |
| `boot_sn` | two SNs and one malformed payload | `ProgramsErasedWords`, `SuccessIsTrue`, `MarkedPageUntouched`, `AppTakesSentDigits`, and the refinement `ImplementsStore` |
| `dma_transport` | ring of 3 bytes, up to 2 unread, reads of 1-3 bytes, 8 bytes | `BufferReleased` and the refinement `ImplementsFifo` |
| `write_true` | the same | a violation of `WriteTrue` (section 4) |
| `time_sync` | retry after 3 ticks, answers within 2, the counter wraps at 5, 9 ticks and 3 requests in all | `ClockTrue`, `ClockOfThisSession`, `RequestsSpaced` |
| `heap` | 16 units of 2 bytes, headers of one unit, requests of 0, 1, 3, 11 and 16 bytes (and as factors), sizes modulo 32 | `HeapOK`, `WholeWhenReleased`, `ReallocKeeps`, `Accounted`, and the refinement `ImplementsAllocator` |
| `led_driver` | three LEDs of two colours, two slots each and two low slots, a timeout of 2 ms | `OkSendsAllButLastBit`, `LeavesReady`, and under fairness `CommitReturns` |
| `sn_session` | two numbers that differ in one digit, up to 5 bytes under way each way | `AnswersTrue` and the refinement `StoresSubmitted` |

Why the bounds are enough. The key's thresholds keep the code's order
(debounce < double click < long press), a debounce takes more than one
sample, and the counter wraps inside every phase. One camera LED suffices for
the LED task because local frames treat the five alike and a remote frame is a
function of each LED's mode alone; the two legal frames cover blinking and not
blinking, double beep and no beep. Four key events fill the queue of two, lose
one and leave one for the next session. A failure limit of two tells a single
missed ping from a lost agent; two answers let a late answer meet the answer to
the retry. Two SNs let the flash hold another number than the one sent. Eight
bytes take the ring of three round more than twice, with every split into reads,
a full ring and a reopening at each position. The time synchronisation's ticks
go round almost twice, so that a wrap falls into a wait, into an answer's way
and into a synchronised session; three requests allow a retry of a retry. The
heap's requests give blocks that are divided, blocks given away whole with one
unit or two to spare, a product that wraps and one that does not, and a request
with its top bit set; 16 units hold up to eight blocks, free ones between held
ones. Three LEDs of two slots each let a frame be cut inside a pixel and
between two, with the half-transfer interrupt inside the data. Five bytes under
way hold a whole payload and a byte more, and on the way back two statuses and a
cut one. The
bounds that are not constants of the code are `MaxPresses` and `MaxAnswers`
(guards in `MicroRosTask`), `MaxGap` and `TickMod` (`KeyHandler`), `MaxUnread`, `MaxLength` and
`MaxBytes` (`DmaTransport`), `MaxUptime` and `MaxRequests` (`TimeSync`), `MaxLine`
(`SnTool`), and the observer's `RunCap` (clocks that stop at a value no property looks beyond). The
theorems of section 5 hold for all of their values.

Fairness.

* `LedService`: weak fairness of the task. It has the lowest priority, but the
  key task sleeps most of each millisecond (`vTaskDelayUntil`) and the
  micro-ROS task blocks in its reads and delays, so the LED task keeps running.
* `MicroRosLink`: weak fairness of the task, which is time-sliced with the key
  task and ends each round in a `vTaskDelay`. Strong fairness of `HealthPing`:
  the check is periodic, so it falls due again and again. Two assumptions about
  the other side: an agent that can be reached does not miss every ping
  (strong fairness of `PingAnswered`), and creations repeated for ever do not
  fail for ever. `Reconnects` needs those two; without them a link that never
  works is allowed. Neither helps when the transport no longer opens: then no
  ping is answered (`PingAnswered` is not enabled), and `Reconnects` says so in
  its premise. The run `recovery`, under the same fairness, shows what is left
  of recovery without that premise.
* `LedDriver`: weak fairness of the task and of the clock. Of the DMA nothing is
  assumed.
* The other modules state safety only. That a key is answered in time is
  an invariant of `KeyGesture`, in the observer's milliseconds.

Deadlock is checked in every run: no modelled part stops. (The LED task's fault
loop stops that task, its callers go on.)

## 4. Disagreements between documents and code

Three are runs that TLC must find violated.

* **A key event may survive the disconnection** (`stale_replay`).
  `micro_ros_task_enqueue_key_event` tests `s_agent_connected` and then sends.
  If the micro-ROS task clears the flag and resets the queue in between, the
  event stays in the reset queue and is published after the next connection.
  `Docs/08:116` and `Docs/09_...:78` exclude that. `AtMostOneStraggler`, proved
  for every queue length, bounds the effect: one event per disconnection.
* **A write cut off by a DMA error is reported as sent** (`write_true`).
  `cubemx_transport_write` waits for `gState` to be READY and does not look at
  `ErrorCode`; `UART_DMAError` sets READY too. `Docs/02:221` has errors handled.
* **After a DMA error of a transmission the link does not recover** (`recovery`).
  `UART_DMAError` makes the receiver's handle READY too and leaves its channel
  running, so `HAL_UART_DMAStop` does not stop it and `HAL_UART_Receive_DMA`
  finds it busy: `cubemx_transport_open` (`dma_transport.c:48-53`) fails then and
  ever after (`OpenRefused` in `DmaTransport` leaves its own guard true). A
  session under way goes on, but once it is over, or when the error came during
  a ping, no ping is answered again, however long the agent stays.
  `Docs/02:238` promises that the link recovers by itself, `Docs/02:220` that
  the transport is restarted after an error. `Reconnects` is what holds.

Five more are stated in the modules as definitions that no run lists; TLC
refutes each when it is added to the configuration of its component:

* `DoubleClickWithinWindow` (`KeyGesture`): the window is only looked at while
  the key is up, so a second press that starts inside it may end its debounce
  later; `bsp_key_handler.h:48` says completed within the window.
* `DropsCounted` (`MicroRosLink`): only a full queue raises
  `s_key_drop_count`; `Docs/08:117` counts events refused while disconnected
  too.
* `StampFollowsPc` (`TimeSync`): `micro_ros_fill_stamp` (line 282) computes from
  the 32-bit tick, so after 49.7 days without a new session the stamps jump back
  by that time; `Docs/09_疑问回答_阶段3...:206` says "epoch_base_ns + the
  uptime". `ClockTrue` states exactly what holds instead. `microros_time.c`,
  which the library uses, counts the wraps.
* `OkMeansSent`, `OkMeansLatched` (`LedDriver`): `LED_OK` is returned
  (line 179) when the DMA has handed over its last value. `bsp_led_driver.h:91`
  says sent and latched; `bsp_led_driver.c:46` and `Docs/07_GPIO_...:62-67`
  speak of low slots before and after the data, the frame has them only before.
  The value written last becomes a pulse only in the next period, 51 or 153 of
  204 cycles long, and the commit stops the timer as soon as it sees the flag,
  without any slot to spare: whether the last bit goes out whole depends on how
  long the interrupt and the poll take, which the code does not control.
  `OkSendsAllButLastBit` is what is certain. The chain latches later, when the
  line has stayed low for long enough.

Smaller ones seen on the way, without a run: the comment at
`micro_ros_task.c:679` gives the health check a period of 10 s, the constant is
1000 ms; the note at `flash_if.c:89` refuses a write when a *valid* SN exists,
the test at line 99 asks for the valid mark only, so a record of which only the
mark survived answers F015 to every write and F017 to every read
(`MarkedPageUntouched` shows that nothing in the code leaves that state); in a
record whose first double word is torn in its fourth character only, the
application sees a number and the bootloader none; payload bytes that arrive
after the three seconds are run as menu commands, and a digit 1 starts the
application (`SnSession`: `PayloadTimesOut`, then `Jump`).

## 5. Proofs

All hold for every value of the constants that satisfies the modules'
assumptions (`KeyAssumption`, `LedAssumption`, `MicroRosAssumption`,
`SerialNumberAssumption`, `BootSnAssumption`, `CommandAssumption`,
`SnToolAssumption`, `TransportAssumption`, `TimeSyncAssumption`,
`HeapAssumption`, `LedDriverAssumption`).

* `KeyGesture_proofs`: `TypeCorrect`, `Debounces`, `AnsweredAtMostOnce`,
  `PressesAnswered`, `EventsTrue`, `HeldAnswered`, `ReleasedIdle`. The
  inductive invariant has three parts: types; `LevelInv`, which ties each state
  to the observer's level, debounced level and run length, and each tick stamp
  to that run; and `CountInv`, which ties state, flags and event to the numbers
  of clicks and answers. The response bounds take a fourth, `ResponseInv`: the
  stamp of a wait for a long press or a second click is not older than that
  wait lasts, and the key's present level not older than the stamp by more than
  a debounce (or, with a key that bounces past a wrap, it is new). The
  properties alone are not inductive, since nothing in them says how old a
  stamp is. Lemmas on the modular difference carry the argument across the
  wrap: below `TickMod` it is the elapsed time, and the assumption on `TickMod`
  keeps the phases that matter below it.
* `LedService_proofs`: `TypeCorrect`, `RestCorrect`, `FailuresSeen`,
  `LatestCorrect`, `RemoteOwns`. What the task does next is the sequence `plan`,
  so the invariant (`PlanInv`) speaks of what follows what in it: each commit
  is followed by a check of the result, each beep by its end, each commit by
  one of the frame that is to stay, each state by the one that is to stay. The
  properties are what is left of that when the plan is empty. `Followed` is
  kept when plans are joined, repeated and worked off (`FollowedJoined`,
  `Repeated`, `FollowedLeft`); the lemmas named after the plans (`FlashPlan`,
  `LongPlans`, `ShortPlans`, `ActionsPlans`, `SelfTestPlans`, `CommandPlans`)
  show it of each sequence of `led_task.c`, for any number of blinks.
* `MicroRosLink_proofs`: `TypeCorrect`, `EntitiesSafe`, `DependenciesKept`,
  `ReportingOrdered`, `StragglerUnique`, `LedsReleased`, `SyncDone`. The invariants add to each
  property what it depends on: for the entities, that `flags` and `allocated`
  are the part of the creation order that `stage` has passed, that during a
  release `allocated` is `flags` less what has been released, and that the
  flagged entities are closed under what they need (from which
  `DependenciesKept` follows too); for the events, that none is numbered beyond
  `presses`, with one lemma each for the send, the publication and the steps
  that leave the queue alone.
* `SerialNumber_proofs`, the flash: `TypeCorrect`, `ProgramsErased`,
  `SuccessTrue`, `FlashLocked`, `MarkedUntouched`, `AppNamed` and
  `StoreImplemented`: every step of the bootloader is a step of `SnStore` or
  leaves it unchanged. The invariant says, within a write, which double words
  hold the new record and that the others are erased; since the word with the
  mark is last (`MarkAppears`), no reader, the application with its looser
  check included, sees anything before the rest of the record is there.
* `SerialNumber_proofs`, the session: `ToolTruthful` and `RegisterImplemented`,
  for numbers and commands of any length. The bytes of the code,
  `SN-TacGlove-dddddd`, `F_SN_R` and `F_SN_W`, meet the assumptions: a number
  begins with a letter (S) that it does not hold again, and holds no prefix, no
  byte of a status (these are no characters) and not the letter (W) that a
  write command ends in and nothing else holds. The invariant `SessionInv` says
  what may stand on the line, although runs of bytes are lost. To the device:
  nothing follows a write command under way (`CommandInv`), and what a device
  that waits for a payload is about to get is one whole payload or begins like
  none (`ReceiveInv`), so no number is put together from two (`PayloadStep`).
  To the tool: `StreamInv`, where a number begins, either the stored one stands
  complete, or a status follows before it could be (`WholeNumbers`); that is
  kept when the tool throws bytes away (`SuffixWhole`, `LastWhole`), when the
  device adds a status, over a cut byte too (`StatusWhole`), and when it sends
  its number (`TextWhole`), and no other number can be read off such a line
  (`NumberTold`). A success the tool takes for the answer to its payload is
  one (`ResultInv`), because the go-ahead it has seen before was sent after any
  success of an earlier call (`ReadyInv`).
* `DmaTransport_proofs`: `TypeCorrect`, `BufferSafe` and `FifoImplemented`,
  whatever the size of the ring. The refinement rests on `RingInv`: going round
  from the read position to the DMA's are exactly the unread bytes, in order,
  and the tail a read has sampled lies among them. That needs `MaxUnread` to be
  less than a turn, or else the two positions could meet with bytes between.
* `TimeSync_proofs`: `TypeCorrect`, `ClockKnown`, `ClockFresh`, `RetriesSpaced`.
  `ClockTrue` follows from what the base was computed from (`BaseInv`).
  `ClockOfThisSession` needs that what is under way belongs to the present
  session and was stamped no later than now. `RequestsSpaced` needs that the
  last request's tick is the tick of `lastSent`, and a lemma on modular
  differences: what has elapsed modulo the counter has at least elapsed.
* `Heap_proofs`: `HeapSound`, `WholeAgain`, `ReallocSafe`,
  `MemoryAccounted`, `AllocatorImplemented`. `HeapOK` is inductive. One lemma for each piece of
  the code says what it keeps (`InsertKeeps`, `UnlinkKeeps`, `DivideKeeps`,
  `CarveKeeps`, then `MallocKeeps`, `FreeKeeps`), and `GrowBacked`,
  `ShrinkBacked` follow the pointers held. That the blocks lie end to end
  (`Tiled`) without a gap and coalesced gives the one free block when all is
  released; that each held region is inside its block gives the refinement.
  For the counters, the units of the heap lie in one block each (`OwnBlock`,
  `OneBlock`), so the free units are those of no taken block; a call takes or
  gives back one block and changes their number by its size (`OneMoreTaken`),
  however it divided and joined the free ones.
* `LedDriver_proofs`: `TypeCorrect`, `OkSent`, `ReadyLeft`. The invariant ties
  the HAL's states, the lock and the interrupt enables to the place of the
  commit (`ChannelInv`), the flags to what the interrupt has served in this
  commit (`CommitInv`), and the chain to the pulses that are out: as long as
  the timer has got a value in each period, or has had the last one (`InStep`),
  the chain has taken all bits that were handed over, or all but the one in the
  compare register (`Progress`). `OkSent` follows at the moment the
  completion is seen; the cut at the end touches the last bit only.
  `LED_ERRORRESOURCE` is not in the type of `status`: a start is never refused.

The type invariants of `MicroRosLink`, `DmaTransport`, `TimeSync`, `LedDriver`
and `BootSn`, and `SyncedNotPending` and `LockedOutsideWrite`, are proved and
therefore in no run.

Every invariant, action property and refinement of the passing runs is proved. Only
model-checked are the liveness properties `AgentLossNoticed`, `Reconnects`,
`InputsServed`, `PreparationEnds` and `CommitReturns`: liveness under fairness,
and ENABLED, are out of the prover's reach. So are induction over data and
RECURSIVE operators; the modules therefore use neither.

## 6. Plan

Done: `KeyHandler`, `KeyGesture`, `LedTask`, `LedService`, `MicroRosTask`,
`MicroRosLink`, `BootSn`, `SnStore`, `DmaTransport`, `RxFifo`, `TimeSync`,
`Heap`, `Allocator`, `LedDriver`, `SnTool`, `SnSession` with their runs, and the
proofs of section 5. To come, in this order:

1. `LedDriver` and `LedTask` joined: the task's step "a commit succeeds, or
   fails after part of its frame" as an abstraction of the driver's commit.
2. The key handler, the LED task and the micro-ROS task composed; what happens
   between a gesture, the collection state and the event the PC receives.
3. The names of the ROS entities, which the micro-ROS task makes from the
   serial number (`micro_ros_init_device_names`).

## 7. Not modelled

The micro-ROS task's message texts, device names and counters, and the start-up
failures that suspend it. The beeper driver, beyond the level it drives in
`LedTask`. Not planned: the task manager (sequential, before the scheduler
starts), peripheral set-up (generated), the arithmetic of `FLASH_If_Check` (its
outcome is free), the interactive PC nodes (their messages are free inputs of
the models; of the subscriber, the time service is in `TimeSync`), FreeRTOS
beyond its tick, the HAL beyond the handlers and transfers of `DmaTransport`,
`LedDriver` and `SnSession`, and libmicroros, used through what their
interfaces promise.
