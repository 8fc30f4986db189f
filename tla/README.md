# Theseus, specified

Theseus runs Nordic's radio stacks (ZBOSS for Zigbee, NimBLE on the SoftDevice Controller, the nRF9151
modem library, NFC) on FreeRTOS. The stacks are closed binaries or submodules; Theseus' own code is the
glue between them and the kernel: queues and semaphores, interrupt handlers, allocators, platform timers.
That glue is where tasks, interrupts and foreign code meet, and it has no tests of its own. On top of it the
samples carry the state machines of a product: joining a network and coming back to it, finding a peer,
serving a subscriber. This directory models both in TLA+, checks them with TLC and proves part with TLAPS.

`PROJECT.json` lists the components, the runs, the source lines that each definition stands for, the
hazards and the theorems. Run a configuration with `tlc -config Images.cfg MCImages.tla`, the proofs with
`tlapm LpTimerProofs.tla`.

## 1. Inventory

Paths are below `src/lib/modules/` unless they begin with `src/`. "Hard" says what a test would hardly
reach; "right if" is what the properties are about.

**Deferred calls and the ZBOSS thread** (`zigbee/osif/zb_nrf_platform.c`). State: the queue
`zb_app_cb_msgq` (16 places), the binary semaphores `schedule_semaphore` and `zigbee_event_semaphore`, the
atomic flag `zb_app_cb_process_scheduled`, the thread's handle. Operations: eight `zigbee_schedule_*` /
`zigbee_get_*` functions, the worker task `zb_app_cb_process_schedule`, `zb_app_cb_process` in the ZBOSS
thread, `zigbee_event_notify` / `_poll`, `zigbee_init`, `_enable`, `_deinit`. It calls into the ZBOSS
scheduler, alarm table and buffer pool, each of which may be full. *Hard:* three tasks of one priority
interleave around a flag that no lock protects; a full ZBOSS table in the middle of a drain; deletion of
the ZBOSS thread at any point. *Right if* each accepted request reaches ZBOSS once, in order, and nobody
sleeps over work.

**Radio adapter** (`zigbee/osif/zb_nrf_transceiver.c`). State `nrf5_data`: the radio state, one frame slot
more than the 802.15.4 driver has buffers, a FIFO of 10 slots, the frame-pending bit of the last
acknowledgement, the energy-detection value and its semaphore. Operations: the `zb_trans_*` calls of the
ZBOSS thread and the `zigbee_nrf_802154_*` callbacks in interrupt context. *Hard:* every step of the thread
can be preempted by a callback that changes the same slots; a full FIFO; operations refused, failed,
restarted and abandoned. *Right if* no buffer is read after it was returned, frames keep their order and
their own bit, no call waits for ever, and the state kept is the radio's.

**Low-power timer** (`zigbee/nrf_802154_platform_sl_lptimer_grtc.c`). State: `m_enabled`, `int_mask`,
`m_compare_int_lock_key`, `m_critical_section_cnt`, the state of the hardware task (its connections are in
`..._hw_task.c`); and in hardware the interrupt enable and the compare channels. Operations: schedule, disable, critical-section enter and exit,
the compare handler, and prepare / cleanup / update of the hardware task. *Hard:* three interrupt levels
use it at every point of each other, and two words mask one interrupt. *Right if* the interrupt is never
left masked, a critical section keeps it out, a disabled timer is silent and a scheduled one fires.

**Modem OS layer** (`nrf_modem_lib/glue.c`, `modem.c`). State: the event group of 24 bits, and in the kernel
the waiting tasks and the timer task's queue. Operations: `nrf_modem_os_timedwait`, `_event_notify` from task
and interrupt, init, shutdown; semaphore, mutex, memory and log wrappers. *Hard:* bits are consumed by whoever
sees them first, notifications from interrupts are deferred through a bounded queue, timeouts are converted
twice with rounding, shutdown deletes the group under its waiters. *Right if* no wake-up is lost, a timed
call ends, and what it answers is true.

**Modem transmit buffers** (`nrf_modem_lib/shmem.c`). State: a free list sorted by address, the top of its
memory, and the break it shares with the C library. Operations: allocate, free, `sbrk`. *Hard:* long
sequences that split, merge, extend and lose chunks; the second of two `sbrk` calls failing; the C library
moving the break in between. *Right if* blocks never overlap, freed memory is merged and found again, and
NULL means full.

**Bluetooth HCI transport** (`bluetooth/hci.c`). State: the bring-up of the link layer, the low-priority
task with its notification and mutex, two pools of event buffers, the event the host waits for. Operations:
packets up (`sdc_callback_`), packets down (command, ACL, ISO), a switch of some 165 commands each answered by
its own event. *Hard:* the interrupt notifies a task that is still draining, an early return leaves messages
behind, reports compete with events for buffers, and one buffer is command and answer in turn. *Right if*
each command gets exactly one event of the right kind and length, reports never cost an event, and a waiting
message gets its turn.

**Zigbee samples** (`src/samples/zigbee/light_bulb`, `light_switch`, `coordinator`). State: the flags of the
rejoin procedure, its interval and alarms; the bulb's attributes and LED; the switch's bulb, search timer and
buffer requests; the coordinator's joining period and LED; identify mode, written the same way in all three.
Operations: `zboss_signal_handler` and its alarms, callbacks and buttons. They drive ZBOSS and are driven by
its signals. *Hard:* signals, alarms and buttons arrive in every order, a table may be full, a cancel finds
nothing to cancel, interrupts call into the stack between two calls of the thread. *Right if* a device out of
the network tries again, a search goes on until it has found a bulb, and a LED shows what is so.

**Bluetooth samples** (`src/samples/bluetooth/ble_hrs`, `ble_peripheral`, `ble_pair`, `ble_adv`, `ble_scan`).
State: the connection handle, the subscription, the beat timer, the queue from scanner to printer. Operations:
NimBLE's GAP events, sync and reset. *Hard:* an event already queued when the link breaks, a refused
advertise or scan that nothing retries, a reset of the host in between. *Right if* a peer can find the sample
again and a subscriber gets its beats.

**NFC tag** (`nfc/platform.c`, `nfc/ndef`, `nfc/t4t`, `src/samples/nfc`). State: field, clock, NFCT and the
message buffer. Operations: field and clock events, the encoders of record, message and file, `main`.
*Hard:* a reader leaves while the crystal starts; room is an unsigned difference. *Right if* the tag is
activated only while the crystal runs and the message stays in its buffer.

**Other parts**, not modelled (section 7 says why): ZBOSS timer and other OSIF adapters (`zigbee/osif`);
timestamper, HP timer, clock, IRQ and random adapters (`zigbee`); MPSL start-up
(`mpsl_lib`); log (`log/log.c`); module initialisation (`src/lib/module.c`); chip ports and the secure side
(`src/lib/ports`, `src/lib/secure`); drivers; the samples that only demonstrate one call.

## 2. Plan

| Step | Module | Question | State |
|---|---|---|---|
| 1 | `ZbMailbox` (abstract), `ZbAppCallback`, its proofs | requests exactly once and in order | done, proved |
| 2 | `ZbRx`, `ZbRadio` | buffers, order, waits, honest state | done, proved |
| 3 | `Allocator` (abstract), `Shmem`, its proofs | disjoint blocks, nothing lost | done, proved |
| 4 | `ModemOs`, its proofs | wake-ups, timeouts, shutdown | done, safety proved |
| 5 | `LpTimer`, its proofs | masking and critical sections | done, safety proved |
| 6 | `HciCommands`, `Hci` | one whole event per command, pools, the mailbox of the task | done, pools proved |
| 7 | `ZbLightBulb` and its proofs, `ZbLightSwitch`, `ZbSwitchFind`, `ZbBulbLamp`, `ZbIdentify`, `ZbCoordinator` | a device goes on trying; LEDs tell the truth | done, safety proved |
| 8 | `BleHeartRate`, `BleAdvertiser`, `BleScan` | found again, beats, windows | done, safety proved |
| 9 | `Ndef`, `NfcTag` | activation only with the clock; lengths within the buffer | done, proved |
| 10 | proofs for `ZbRadio` and `ModemOs` | honest state, the lag of a scan, no lost wake-up, for every size | done |
| 11 | `HwTask` (`..._lptimer_grtc.c:169-267`, `..._hw_task.c`), the other compare channel of the low-power timer, its proofs | SUCCESS is kept, no trigger armed after TOO_LATE | done, proved |
| 12 | proofs for `ZbRx` | buffers and order for every size | done |
| 13 | `ShmemProofs`, `ImagesProofs` | the invariants of their runs for every size, the allocator's refinement | done |
| 14 | full ZBOSS tables in `ZbLightSwitch`, `ZbCoordinator`, `ZbIdentify`, and their proofs | what each failed alarm costs | done, proved |
| 15 | action properties of the images, proved from the invariants of step 13 | what a handler may never do | later |
| 16 | `ZbTimer`, the alarm's conversion of ticks | expiry once, no negative delay | later |

Two abstract specifications are stated so far: a bounded mailbox, which the deferred-call service
implements, and an allocator that shares its heap, which `shmem.c` implements.

Parts that share no state are checked in one run: the MC modules `MCZbTransceiver`, `MCModem`, `MCLpTimer`
and `MCImages` choose one part (half, part, side, image) initially and let the others stand still. The state graph is the disjoint
union of theirs, and each keeps its own specification, fairness included.

No module uses RECURSIVE operators. Constants carry named assumptions; those of parts that are instantiated stand in the MC module that does so. Every action that the code spreads
over several kernel calls or register writes is split at exactly these points.

## 3. The modules and the code

Names of variables and actions are the code's where there is one. Variables marked *history* only record
what the properties speak of. Definitions commented `mutant` are plausible bugs: put in place of the
definition that follows them they break a property (`mutants` in `PROJECT.json`), so each property is known
to depend on the code.

**ZbAppCallback.** All tasks run at priority 3 with time slicing, so each kernel call and each atomic access
is a step of its own. `ScheduleSend` / `ScheduleReject` are `xQueueSend` with and without room,
`ScheduleGive` the `xSemaphoreGive` after it; they stand for all eight calls, which differ only in what they
ask of ZBOSS (`KindOf`). `WorkerTake` ... `WorkerNotify` are the lines of the worker's loop.
`ZbossEnter`, `ProcessClear`, `ProcessDispatch` (peek and ZBOSS call), `ProcessFlush` (`xQueueReceive`),
`ProcessDone` and `ProcessOverflow` are `zb_app_cb_process`. `ZbossDirect` is a call made inside the ZBOSS
thread, which bypasses the queue. `ZbossPoll` and `ZbossWake` are `zigbee_event_poll`. Its only caller
in the tree, `zb_osif_sleep`, is compiled out (`#undef ZB_USE_SLEEP` in `zb_nrf_pwr_mgmt.c:10`); the
model keeps it for a stack that sleeps, and a stack that does not has the behaviours without it.
`Deinit` deletes the ZBOSS thread wherever it is, and is a step of `DeinitSpec` only. ZBOSS is external: a
scheduler queue, an alarm table and a list of buffer requests, all bounded.

**ZbMailbox** is the abstract view: `inbox` and `outbox`. The refinement maps `inbox` to the queue without
the request already handed over (`Waiting`) and `outbox` to the requests dispatched.

**ZbRx.** Callbacks are atomic, as interrupts are for the thread; the thread's `zb_trans_get_next_packet` is
`Receive`, `Copy`, `Free`, `Null`, because a callback fits between any two. Frames and acknowledgement bits
are arbitrary; the driver is external and reports only in buffers it has free.

**ZbRadio.** The other requests and their callbacks: `StartGetRssi`, `EdAccepted`, `EdRefused`, `EdRetry`,
`GetRssi*`, `Transmit*`, `EnterReceive`, `EnterSleep` and the interrupts `EnergyDetected`,
`EdFailedRestart`, `EdFailedForGood`, `TransmitEnds`. A variable `pc` says where the thread is, since a
callback fits between request and assignment. ZBOSS transmits one frame at a time (a guard of `Transmit`),
and the branch for a serialised radio, which is not built, is left out.

**Shmem.** The unit is a word: a header is one word, storage is aligned to two. `shmem_malloc` is first fit
with or without a split (`FirstFit`, `Split`), the growth of the last free chunk (`GrowLast`), or new memory
(`FromSbrk`); `shmem_free` inserts and merges on both sides. `sbrk_aligned` may need two `sbrk` calls.
`LibcSbrk` is the C library taking memory. Calls are atomic: `MALLOC_LOCK` expands to nothing in this build,
so they are only correct if one task makes them, which the model assumes and a hazard records.

**Allocator** is the abstract view: live blocks are disjoint, large enough, inside the heap, and share
nothing with the C library. `live` and `libc` of `Shmem` are mapped to it directly.

**ModemOs.** `Enter` is `nrf_modem_os_timedwait` up to reading the tick, `WaitBits` the call of
`xEventGroupWaitBits`, `Recheck` what that does after its timeout, `Return` the rest; time passes in `Tick`
between any two. `NotifyTask` sets a bit and wakes; `NotifyIsr` puts a command in the timer task's queue,
or loses it when the queue is full, and `TimerTask` carries it out. `OsShutdown` deletes the group; what a
thread finds that uses it afterwards is arbitrary (`WaitDeleted`). The library is initialised once. The
property about the answer is limited to calls with a timeout: a call with NRF_MODEM_OS_FOREVER returns 0
(line 92), against the comment at lines 30-32, and may sleep on freed memory.

**LpTimer.** Three contexts (thread, GRTC interrupt, radio interrupt); one runs until a higher one preempts
it, which runs to its end. `Begin` sets or clears `m_enabled`; `Lock`, `LockIntOff`, `SetCompare` or
`DisableCompare`, `Unlock`, `UnlockIntOn` are the accesses that follow. `CriticalEnter` and `CriticalExit`
are atomic, as interrupts are off in them. `TakeIrq`, `HandlerCheck`, `HandlerCall` are the compare
interrupt. `schedule_at` and `disable` are never in progress twice, which the code takes for granted ("not
required to be reentrant"); in between, other contexts open and close critical sections freely.

**HwTask.** `Prepare`, `Cleanup` and `Update` are the calls whose compare-and-swap succeeds; the steps after it
(`Connect`, `SetCompare`, `Check`, `Clear`, `Disable`, `ReadEvent`, `ReadTime`, `Done`) are the accesses in their
order, shared between the three calls as their functions are. The thread and the radio interrupt call it, the
interrupt not between `Check` and `Disable` of prepare. The counter goes on at any time (`Tick`), also there. A
call that answers TOO_LATE may have triggered its channel before it disconnects it: prepare connects first and
looks at the time last, where the FreeRTOS variant of the same function
(`nrf_802154_platform_sl_lptimer_freertos.c:184`, not built) says "The (D)PPI channel was not connected".

**HciCommands** is the switch of `ble_transport_to_ll_cmd_impl` as data: each stretch compiled under one
condition is a group of commands, sorted by whether the controller is called and what the answer has.
**Hci** is the rest of `hci.c`. `HostTask` brings the link layer up, sends commands and data down and consumes
events; an assert may fail there (`ble_transport_to_ll_acl_impl`, the ISO data). `mpsl_lp_task` preempts it outside critical sections, and is `Drained` to the last message or cut
short by a return in `sdc_callback_`; `SWI03_IRQHandler` notifies it. The controller is external and queues
messages of a few kinds. A failed assert halts the image (`Halted`).

**ZbLightBulb**, **ZbLightSwitch**, **ZbCoordinator** have one action per signal handler, alarm or callback of
the ZBOSS thread, which runs them one after the other; the operators inside (`start_network_rejoin`,
`stop_network_rejoin`, `rejoin_the_network`, ...) are the functions of `main.c`. Every handler ends in
`rejoin_the_network`, as `zigbee_default_signal_handler` does. The stack (`Network`, `Stack`) ends what
commissioning it was asked for, with either result. Alarms expire in any order and only their number counts;
of the rejoin interval the exponent is kept, since it doubles. Setting an alarm or queuing a callback may fail, as
the code logs, asserts or ignores: the switch finds some number of `Places` in the alarm table in each handler, the
other tables are full when a flag `full` says so and must be when they hold `MaxAlarms`, `MaxTimers` or
`MaxToggles`. A `known` mishap is recorded as history: in the switch a procedure begun without its timeout, in the
coordinator an LED alarm that found no place (`unshown`) or was set beside another (`twice`), or a formation that is
not retried (`no retry`). The switch's button interrupt queues `start_network_rejoin_ED`, whose calls are counted
apart from the flag `startScheduled`, since `start_network_rejoin` clears the flag under a queued call; a failed
assert halts it (`fault`). Buttons run in the GPIO interrupt: in the
coordinator, where one calls ZBOSS from there, the handler it can split is two steps. **ZbSwitchFind** is the
switch's search for a bulb, its commands and buffer requests; **ZbBulbLamp** the bulb's attributes and LED (the
pin is toggled whatever the level, which is what `light_bulb_set_brightness` does); **ZbIdentify** the identify
mode that the three samples share, as functions on a record: the callbacks in the queue of ZBOSS, in order, and the
toggles in its alarm table. The button queues `start_identifying`, so that two presses may be waiting. Whether the
LED is on between two toggles is not kept (the `led_set` of the switch, lines 1064-1068, ignores its value anyway).

**BleHeartRate**, **BleAdvertiser** (three samples, told apart by `sample`) and **BleScan** have one action per
event of NimBLE. The beat timer puts an event in the host's queue, and is told apart from that event. The scanner
and its print task share only the queue. `Bails` says whether NimBLE may refuse to advertise while it is
synchronised, as it may in the run; `gaveUp` records that it did.

**Ndef** is the encoders as functions on lengths: what is written and how far, with unsigned differences modulo
`Wrap`. **NfcTag** is `main` of the two tag samples, step by step, against the interrupts of NFCT and clock
(`nfc_platform_event_handler`, `clock_handler`), which the reader's coming and going sets off at any time, and the
LED that `nfc_callback` lights. A turn of
the loop of `nfc_ndef_msg_encode` is a step (`EncodeRecord`), and so are adding a text (`AddRecord`) and putting the
length in front of a Type 4 file (`EncodeFile`): between any two an interrupt may come.

**MCZbTransceiver**, **MCModem**, **MCLpTimer**, **MCImages** compose parts that share no state, as section 2 says. Properties of
the part that is instantiated appear there under their own name, or joined under one: `SwitchGoesOn` is
`StuckOnlyBy` and `SearchGoesOn`, `BlinkEnds` says the same of three images, `HeartBeats` is
`HeartBeats` and `SubscriberIsThere`, `TriesAgain` is `BulbTriesAgain`, `EventuallyForms` and `ScansAgain`,
`TaskHonest` is `SuccessIsKept` and `IdleIsQuiet` of `HwTask` with its types.

## 4. Runs

| Run | Checks | Bounds, and why they are enough |
|---|---|---|
| `zb_callback_safety` | `TypeOK`, `ProcessScheduledOnce`, `NoLostWakeup`, `InOrderExactlyOnce`, `NoSleepOnWork`, `ImplementsMailbox` | two tasks (symmetric), four requests of three kinds, two queue places, tables of one: every table overflows, in every order |
| `zb_callback_deinit` | `DeletionLosesNothing`, `DispatchedIfUndisturbed` | two tasks, three requests, scheduler queue of two, one deletion at any step or none; a second one adds only a second repetition |
| `zb_callback_deinit_live` | `AcceptedIsDispatched`, violated | shows finding 1 |
| `zb_transceiver` | `TypesOK`, `SlotsAccounted`, `FramesIntact`, `QueuedIsDelivered` of reception; `AtMostOneScanBehind`, `StateHonest`, `CallsReturn` of the calls | three buffers, FIFO of two, four frames: buffers are reused and the FIFO overflows, the relation of 32 to 10 in the code; three scans: the lag of one and its next round |
| `zb_rssi` | `GetRssiReturnsThisScan`, violated | shows finding 2 |
| `modem` | `TypesOK`, `FreeListCoalesced`, `LostOnlyWhenFull`, `NullOnlyWhenFull`, `ImplementsAllocator` of the heap; `NoSleepOverEvent`, `TimedCallsEnd` of the waits | a heap of 16 words that starts misaligned, three sizes, C library calls of one or two words: several chunks, both merges, growth and failure; two threads, the context of all and one other, a timeout and none, timer queue of one, 1500 ticks a second, so that both conversions lose a part |
| `modem_os_timeout` | `ZeroMeansEvent`, violated | the configured 8192 ticks a second, 1 ms; shows finding 3 |
| `lp_timer` | `TypeOK`, `NeverLeftMasked`, `OnlyKnownBreaches`, `DisabledStaysSilent`, `ScheduledIsHandled` of the timer; `TaskHonest` of the hardware task | sections nest to two in each of three contexts, an interrupt makes two calls of the module; two channels and none, a counter of four: a task is armed too late, just too late, in time, and armed again after its time |
| `lp_timer_nested` | `NoHandlerInside`, violated | the timer alone, without scheduling inside sections; shows finding 4 |
| `images` | `TypesOK`; `BulbKeepsTrying`, `SwitchGoesOn`, `LitWhileOpen`, `BlinkEnds`, `TriesAgain` of the Zigbee samples; `ReportsNeverStarve`, `NoMessageForgotten` of the HCI transport; `HeartBeats`, `Reachable`, `TriesAgain` of the Bluetooth samples; `ActivatedOnlyOnClock`, `PayloadInBuffer` of the tag | rejoin intervals that reach their maximum; an alarm table in which each handler of the switch finds place for none, one, two or three of its alarms, so that attempt, timeout and restart fail together or apart and a stale timeout meets a new procedure; three alarms of the coordinator, two of them the LED's; two identify callbacks at once in the switch and the bulb, which have the coordinator's code; two bulbs, a search under way while another is asked for; two messages in the controller; one event buffer of either pool; a print queue of three; buffers around the length of the message, exactly as long and too short |
| `switch_stuck` | `NeverStuck`, violated | shows finding 5 |
| `hci_unlisted` | `AnswersWhole`, violated | every group of commands; shows finding 6 |

The bounds are `MaxDeinits`, `MaxFrames`, `MaxScans`, `MaxElapsed`, `MaxNest`, `MaxCalls`, `MaxAlarms`,
`MaxSignals`, `MaxNow`, `MaxFinds`, `MaxToggles` (`DeviceToggles`), `MaxTimers`, `MaxBuffers`, `MaxCallbacks`
(`SwitchCallbacks`) and `MaxMessages`, each a guard of the action
it bounds; requests of `ZbAppCallback` are made once each. `MaxAlarms` of the bulb, `Places` (`SwitchPlaces`) of the
switch, `MaxTimers` and `MaxToggles` stand for tables of ZBOSS that may be full; in the coordinator and in identify
mode they may be found full with less in them, since other parts of the image use them. `MaxBuffers` stands for its
buffers. `Len(zbq)` must be able to reach two for `DispatchedIfUndisturbed`: with a
scheduler queue of one place the overflow of a callback and the entry of `zb_app_cb_process` can take turns for
ever. The queue of ZBOSS is larger. The images run with `CHECK_DEADLOCK FALSE`: an image may come to rest, since
a failed assert halts it, a tag without a reader waits, and inputs are bounded. That none of them rests where
it must not is what `SwitchGoesOn`, `TriesAgain` and `NoMessageForgotten` say.

Findings, each the counterexample of a run:

1. `zigbee_deinit` between the removal of `zb_app_cb_process` from the ZBOSS queue and the clearing of
   `zb_app_cb_process_scheduled` leaves the flag set; after the next `zigbee_enable` no request is
   dispatched any more.
2. `zigbee_nrf_802154_radio_init` gives the energy-detection semaphore, so `zb_trans_get_rssi` can return
   the value of the scan before the one just started.
3. `nrf_modem_os_timedwait` rounds the time that passed down to milliseconds; a wait of 1 ms that times out
   is taken for an event and answers 0.
4. Leaving an inner critical section of the low-power timer unmasks the interrupt inside the outer one,
   though sections are documented to nest.
5. A button of the light switch pressed after the rejoin timeout, while the last attempt still runs, starts a
   procedure that the standing stop request ends at once (`light_switch/main.c:776`): the switch is out of
   the network, tries nothing and ignores every further press.
6. A command no case of the HCI switch lists is answered with a length made from the high byte of its opcode
   (`hci.c:1425`).

Other ways in which the code falls short of its properties have no run of their own. The properties exempt them by
name, and show that there is no other way to the same end:

- No place for an alarm. A light switch survives an attempt that could not be scheduled, because its timeout lets
  the user in, but not a procedure begun without that timeout as well (`no timeout`). A bulb does not survive the
  failed attempt (`lost`). The coordinator's LED stays dark until its alarm is next set (`unshown`), and a formation
  whose retry could not be set is the last (`no retry`).
- The reopen button of the coordinator, pressed between the end of steering and the handling of its signal, leads to
  two alarms that put the LED out, since `coordinator/main.c:1134` does not cancel. The first of them does so while
  the network is open, and a later cancel finds one of the two (`twice`).
- An end of identify mode cancels no toggle that still waits in the callback queue; that toggle then arms its alarm
  and the LED blinks on (`coordinator/main.c:1002`, and the same in bulb and switch). Two presses queued before the
  first has run are enough (`overtaken`).
- `ble_peripheral` and `ble_pair` do not retry an advertise that is refused while NimBLE stays synchronised, though
  `ble_peripheral/main.c:113` says "just bail and retry later" (`gaveUp`); `ble_scan` does not look at the result of
  `ble_gap_disc` (`refused`).
- Elsewhere: a frame that finds the FIFO full (`refused` in `ZbRx`), a refused transmit and a detection started from
  sleep (`StateHonest`), the `sbrk` that fails after another (`LostOnlyWhenFull`), an event taken by another call or
  refused by the timer queue (`NoSleepOverEvent`), a drain cut short by a return (`cut`).

## 5. Fairness

- `ZbAppCallback`: weak fairness of each task and of the ZBOSS thread, because FreeRTOS time-slices tasks
  of one priority and neither is preempted for ever by a higher one; strong fairness of alarms expiring and
  buffers being released. Nothing is assumed of callers or the radio.
- `ZbRx`: the ZBOSS thread asks for packets while `zb_trans_rx_pending` says there are some.
- `ZbRadio`: the thread goes on inside a call; the driver ends what it started, does not restart a
  detection for ever and does not refuse for ever what it could do. The retry loops in the code rest on
  the same assumption.
- `ModemOs`: time passes, the timer task and every ready thread run. Nobody is assumed to notify.
- `LpTimer`: functions and interrupt handlers end and sections are left, whatever preempts them (strong
  fairness below the radio interrupt, since a context runs again after each preemption); the counter
  reaches the compare value and a pending interrupt that is enabled again and again is taken.
- `ZbLightBulb`, `ZbCoordinator`: the ZBOSS thread runs, alarms expire, the stack ends the commissioning it
  accepted. Strong fairness for the coordinator's formation retry and the alarms of the joining period, since
  other handlers cancel and re-arm them. Nothing is assumed of the result: an attempt may fail for ever.
- `Hci`: SWI03 is taken, and the low-priority task runs, being the task of the highest priority in the image.
  `BleScan`: the print task gets its turn while the host waits for the next report, and the host synchronises.
- `Shmem`, the light switch, the heart rate sensor, the advertisers and the tag have no liveness property:
  nothing promises that memory, a peer or a reader comes back. What they must not get stuck in is said by
  invariants.

## 6. Proofs

`ZbAppCallbackProofs` proves, for every set of tasks and requests and every capacity, that `Spec` keeps
`TypeOK` (`TypeCorrect`), `ProcessScheduledOnce` (`ScheduledOnce`), `NoLostWakeup` (`WakeupNeverLost`),
`InOrderExactlyOnce` (`OrderKept`), `NoSleepOnWork` (`NeverSleepsOnWork`), and that it implements the
mailbox (`PathIsMailbox`). It assumes `RequestAssumption` and `SizeAssumption`. Typing needs
`FlushHasHead`: only the ZBOSS thread takes from the queue, so the head it peeked is still there.
`ProcessScheduledOnce` is restated as `FlagInv`, by membership in the queue instead of positions, because a
step appends to one end and removes from the other. The refinement follows from the order invariant:
`ScheduleSend` is `Accept`, a `ProcessDispatch` that does not overflow is `Deliver`, the rest stutters. These
are about `Spec`, without deletion of the thread. For `DeinitSpec` it proves `DeletionLosesNothing`
(`NothingLostByDeletion`). The invariant adds what the drain rests on, that the request about to be received from the
queue is the one just handed to ZBOSS (`FlushIsSecond`): so a deletion leaves at most that one on both sides, and
never a request on neither.

`LpTimerProofs` proves, for every depth of nesting and number of calls and with or without scheduling inside
sections, `TypeOK` (`TypeCorrect`), `NeverLeftMasked` (`MaskNotForgotten`), `OnlyKnownBreaches`
(`NoOtherBreach`) and the action property `DisabledStaysSilent` (`SilentWhenDisabled`), from
`LpTimerAssumption`. None of the three invariants is inductive. `Inv` adds that one call is under way at a
time, that its key is set only between lock and unlock, and that the GRTC interrupt has no section open
before it reaches the handler. The argument for the masks is in `UnlockOutside`: a call that will unmask the
interrupt began outside every section, so what is open later belongs to interrupts that preempted it, and
those have ended when it runs again; `MaskedInside` says the same of the bit. Silence follows because the
interrupt cannot be between the test of the flag and the handler while the thread runs.

`ZbLightBulbProofs` proves `TypeOK` (`TypeCorrect`) and `BulbKeepsTrying` (`KeepsTrying`) for every maximum of the
interval, every number of alarms and every order of signals and alarms, from `BulbAssumption`. The property
speaks of a bulb with no signal waiting; `IInv` says the same of one with signals on their way (`OnItsWay`): one of
them will schedule an attempt and none behind it will cancel it (`Promised`), or an attempt is scheduled and no
signal waiting will cancel it (`Calm`). `Settled` adds that a stop request never outlives the handler that made
it. Each handler is a function on the record `router`; a lemma says of each what it does to these.

`ZbRadioProofs` proves `TypeOK`, `AtMostOneScanBehind` (`OneScanBehind`) and `StateHonest` (`StateIsHonest`) from
`RadioAssumption`. `Scans` says where the detection asked for last is: not yet accepted, being measured, abandoned
or measured, its value there as soon as the driver does something else. `Honest` extends `StateHonest` to the
middle of a call, where the radio is where the call or the interrupt that ended the abandoned operation put it.

`ZbRxProofs` proves both safety properties of `ZbRx` for every number of buffers, FIFO places and frames, and
`ZbRadioProofs` carries them over to the whole file, `HalvesSpec` (`EverySlotAccounted`, `EveryFrameIntact`), with
the types of both halves (`TypesCorrect`), from `RxAssumption`. The invariant has four parts. The slots with a buffer in them are exactly those in the FIFO, the
refused ones and the thread's (`SlotsPart`). Each of their buffers is on loan and in one slot only, except the one
just given back in a slot not yet cleared (`BuffersPart`); with one slot more than buffers, a free slot for every
frame is then the pigeonhole principle (lemma `SlotForEveryBuffer`). The bit kept is that of the acknowledgement
under way (`BitPart`). What has been queued is what has been delivered, the frame being copied and the FIFO, in this
order (`OrderPart`).

`ModemOsProofs` proves `NoSleepOverEvent` (`NoLostEvent`) for every number of threads and contexts, every timeout
and every size of the timer queue, from `ModemOsAssumption` (contexts are bits of a 24-bit group). The property is
about threads that sleep; the invariant follows the event from the call on: until the thread has looked, a bit
of its mask is set or still in the timer queue, and a sleeping thread has no bit of its mask set.

`ShmemProofs` proves of `Shmem`, for every heap, every size asked for and every increment of the C library, that the
free list stays sorted and merged, that no word is lost while there is room, that NULL is only answered when nothing
would fit, and that it implements `Allocator`; the parameters are those of `ShmemAssumption`. Its argument is about
sets of words: an insertion adds the words of a chunk to those of the list, however it merges, and a first fit takes
some away. Chunks of the list and of callers are aligned, even and below the break (`Listed`, `LivePart`), free words,
live ones and the C library's are disjoint (`ApartPart`), and a word nobody has is unaligned, since only the padding
before an aligned break is given up (`PaddingPart`). That needs the sizes to be even, which is why the alignment is part
of the invariant and not only of the property. `ModemOsProofs` carries all this over to `PartsSpec`, in which the heap
stands beside the waits (`ListStaysCoalesced`, `NothingLost`, `NullMeansFull`, `ShmemIsAllocator`), and proves the
types of both (`TypesCorrect`).

The hardware task's proofs are in `LpTimerProofs` too: both halves of `TaskHonest` (`SuccessKept`, `QuietWhenIdle`)
for any channels and any bound of the counter. The compare-and-swap lets one context at a time into a call
(`OneCall`). A compare value set too late may be missed, so nothing is known of it until the counter has been read:
with a margin of one tick the test passes only if the value was set in time (`Armed`), and from there on the channel
waits for the time, or that has come and the channel connected has been triggered (`Kept`). `TaskKeepsItsWord` states
`TaskHonest` of `SidesSpec`, in which the hardware task stands beside the timer, from `HwTaskAssumption`.

`ImagesProofs` proves every invariant of the run `images` but the bulb's, for `ImagesSpec` and every value of its
constants, from `ImagesAssumption` and `BulbAssumption`. A step is one of a single image (`StepsOfAll`), so each image
has an invariant of its own, and `AllInv` is their conjunction. What the properties needed to become inductive:

- Light switch (`SwInv`). A switch out of the network has a signal on its way that begins the procedure, or there is
  hope (`SwGoesOn`): it waits for its user or the timeout that makes it wait is armed (`Hopes`). The attempts do not
  enter, so it is all the same how many of them could be scheduled. `SwSettled` says that a stop request stands only
  over a started procedure and, unless a late button came (finding 5), only while the switch waits for its user; and
  that a procedure begun with its timeout keeps it. A timeout is never cancelled, so a stale one can only let the
  user in early.
- Search for a bulb (`FindInv`). `SearchGoesOn` is inductive with the types.
- Identify mode (`OneToggle`), for all three samples at once. At most one toggle is queued or armed, and none of an
  endpoint that does not identify, unless an end overtook one in the queue: so cancelling one alarm is
  enough. There is none, too, when it could not be scheduled.
- Coordinator (`CoInv`). `OneWish`: at most one wish to form a network is pending, a signal or an alarm, and none
  while the stack is at it. `Lighting` follows the LED from the opening of the network to its closing: the stack is
  steering, its result waits, the period is being extended, or the alarm that puts the LED out comes behind the one
  that closes the network (`InTurn`). This rests on the alarms being in the order in which they expire. Until two
  alarms are set at once there is at most one to put the LED out (`OneFinish`), so cancelling one leaves none; once
  an alarm has found no place nothing is claimed until the next is set.
- HCI transport (`ReportInv`). No report holds a buffer of the reserved pool, so none is ever among the holders when
  an event finds both pools full. The handshake of interrupt and task is part of the types.
- Heart rate sensor (`HeartInv`). It advertises or is connected, never both, and the handle is that of the link; the
  other peripherals need no more than their types.
- Tag (`ClockInv`, `MainInv`). A clock event still to be handled means that the clock runs, since losing the field
  withdraws it in the interrupt that stops the clock. The bytes written are those of the records encoded so far behind
  the length field, so the room computed for the next one never wraps; the buffer has to be shorter than `Wrap` and as
  long as the length field.

Liveness (`DispatchedIfUndisturbed`, `QueuedIsDelivered`, `CallsReturn`, `TimedCallsEnd`, `ScheduledIsHandled`,
`TriesAgain`, `NoMessageForgotten`) is out of the prover's reach and stays with TLC: these seven are all that is only
model-checked of the properties of the passing runs. `BulbKeepsTrying` is proved in `ZbLightBulbProofs`. The violated
properties need no proof: their counterexamples are behaviours of the code.

## 7. Limits

- Tasks and interrupts interleave at kernel calls and accesses to shared words. The order of memory accesses
  inside the processor is not modelled; the single core makes it invisible to tasks and interrupts.
- FreeRTOS, nrfx, ZBOSS, the 802.15.4 driver and the modem library are modelled by what the code relies on,
  and are marked external in the map.
- Values that pass through unchanged (power, LQI, channel, payload) are left out, as are logging and
  configuration.
- Deferred calls are taken to come from tasks. The comment at `zb_nrf_platform.c:95` also names interrupts,
  but the functions call the task versions of the kernel API.
- An image of the samples has one application; that two parts of an image disturb each other through the stack
  below is only modelled where the sample shows it.

Not modelled:

- The other 802.15.4 platform adapters: register access. Of the low-power timer, the IPCT connections of the
  nRF54H (`..._hw_task.c:17-215`), a chip no board here has, and deinit, which frees the channels.
- The ZBOSS timer (`zb_nrf_timer_counter.c`), planned; flash, LED, serial, crypto and log adapters of the OSIF,
  which pass calls on or are not built.
- `mpsl.c` (start-up checks), `log.c` (one task at a time under a mutex), `module.c` (one loop before main),
  drivers and `nrfx_glue.c` (start-up calls): no interleaving and no state that another part reads.
- Chip ports: what they do for the scheduler is assumed by every model. The secure side: a straight line.
- `blinky`, `hello_theseus`, `modem`, `zigbee/timer`, `zigbee/transceiver`: demonstrations of one call each.
- Touchlink, FOTA and NUS of the light switch, the serialised radio and direction finding: not compiled.

Hazards without a property, each with its note in `PROJECT.json`: the alarm's tick that is read twice
(`zb_nrf_platform.c:191`), the empty `MALLOC_LOCK` (`shmem.c:299`), a waiter on the deleted event group
(`glue.c:33`), the buffer kept by `change_panid_cb`, and the mutex of
low-priority calls that the host does not take (`hci.c:83`).
