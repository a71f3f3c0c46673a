# A TLA+ verification of terraboot

terraboot is a bootloader for microcontrollers (STM32, LPC176x, RP2040/RP2350),
a fork of CanBoot/Katapult. After a reset it decides whether to start the
application or to stay; while it stays, a host writes a new application into
flash over CAN, UART or USB with `scripts/flashtool.py`. This directory holds TLA+
models of it, the TLC runs that check them and TLAPS proofs about them. Paths
are relative to the repository (`src/` here is the repository root's `src/`
directory of firmware sources).

## 1. Inventory

| Component | State | Operations | Hard behaviour | What makes it correct |
|---|---|---|---|---|
| STM32 flash backend, `src/stm32/flash.c` | the flash array, lock bit, `page_write_count` | `flash_write_block`, `flash_complete` | power loss between and inside erase and programming; the host repeats a block whose reply was lost | success only if the block reads back; nothing outside the block, or its page when it leads one, is touched; acknowledged data stays; the array is locked at rest |
| LPC176x and RP2040 backends, `src/lpc176x/flash.c`, `src/rp2040/flash.c` | the flash array, a RAM buffer of several blocks, `next_address` or `buffer_start_address` | the same | blocks acknowledged from RAM, retransmission of buffered blocks, a stale `next_address`, power loss in a flush | an acknowledged EOF means everything is in flash; a repeated block does no harm |
| Flash commands, `src/flashcmd.c` | `is_in_transfer`, `complete`, `complete_endtime` | CONNECT, READ_BLOCK, WRITE_BLOCK, EOF, COMPLETE, `complete_task` | any order of commands; a host that vanishes in mid-transfer | the bootloader's own blocks are never written; COMPLETE is obeyed; a new session clears an old one |
| Boot entry, `src/bootentry.c`, `generic/armcm_canboot.c`, `generic/armcm_reset.c` | the bootup code in RAM, which survives a reset | reset handler, `bootentry_check`, double-reset window, `application_jump`, `try_request_canboot` | resets at any point, stale codes, check in one run of the program and jump in the next | only a validated image is started; each code is used once; requests are honoured; booting ends |
| Application validation, `src/appvalidate.c` | none | `appvalidate_verify` | partial or damaged images | accepts intact images only |
| Scheduler and timeout, `src/sched.c`, `generic/armcm_timer.c` | wake flags, `timeout_start`, the 32-bit counter | `sched_check_wake`, `timeout_init`, `timeout_task` | wrapping comparisons, interrupts against wake flags | the timeout is neither early nor late and never cuts a transfer |
| CAN serial, `generic/canserial.c` | receive and transmit buffers, admin queue, assigned id, conflict and wake flags | `canserial_process_data` (interrupt), `canserial_rx_task`, `canserial_tx_task`, heartbeat task, admin handlers | interrupt between any two accesses of the task, full queues, stale flags | no byte lost or reordered, no admin message overwritten, no lost wake, documented answers |
| Framing, `src/command.c` | `sync_state`, the receive buffer | `command_find_block`, `command_dispatch`, responses | noise, STX bytes inside payloads, arbitrary chunking | resynchronises, one NACK per gap, intact blocks are dispatched |
| CAN controllers, `stm32/can.c`, `stm32/fdcan.c`, `rp2040/can.c` | mailboxes, receive FIFO, interrupt flags | `canhw_send`, `canhw_set_filter`, interrupt handlers | flags cleared against frames that come | frames in order and once; reception never stops |
| UART, `generic/serial_irq.c`, `stm32/serial.c` | receive and transmit buffers, interrupt enable | `console_task`, `console_pop_input`, `console_sendf`, two interrupts | interrupt between any two accesses, the buffer moved while it is sent | both byte streams intact, everything accepted goes out |
| USB, `generic/usb_cdc.c`, `stm32/usbfs.c` | two packet buffers a direction, toggle bits, push and pop flags, receive and transmit buffers | bulk tasks, endpoint access, interrupt | hand-over of packet buffers, start of double buffering, self-waking tasks | both byte streams intact, every message is answered |
| 16-bit time base, `stm32/stm32f0_timer.c` | counter, compare value, `timer_high` | `timer_read_time`, interrupt | a roll-over inside a read, interrupts lost in an erase | readings exact, or late by a bounded amount, never early |
| Host tool, `scripts/flashtool.py` | the file position, retry counters, digests | connect, send, verify, finish | lost, damaged and late answers, nested retries, restarts of either side | a reported success is in the flash; few faults do not fail an update; the tool ends |
| Deployer, `src/deployer.c` | the copy position | `sched_main` | power loss in the copy | the new bootloader is requested only when it is complete |
| LED, start-up, build scripts, vendored `lib/` | - | - | - | - |

How they interact: a CAN interrupt calls `canserial_process_data()`, which
fills buffers and wakes `canserial_rx_task()`; on a UART the interrupt fills the
buffer that `console_task()` polls, on USB the interrupt wakes the bulk tasks, which
copy packets. The task calls
`command_find_block()` on the buffer and dispatches complete blocks to the
handlers of `flashcmd.c`; these call the flash backend of the chip, and answer through the
transport's `console_sendf()`; `complete_task()` and
`timeout_task()` check the application with `appvalidate.c` and leave through
`application_jump()`, a reset with a code in RAM that the next run of
`reset_handler_stage_two()` consumes. The device is one thread plus interrupts. On the other
side of the link `flashtool.py` is one coroutine that sends a command and waits for its answer.

`PROJECT.json` lists the same components with their status, and every hazard
found while reading, at its line, with the properties aimed at it.

## 2. Modules

| Module | Models | Notes |
|---|---|---|
| `FlashContract` | what every flash backend promises | abstract specification |
| `Stm32Flash` | `stm32/flash.c` | one action per decision, erase, programmed cell and comparison; power loss at each |
| `Stm32Update` | `Stm32Flash` driven by `send_file()` of `flashtool.py` | in-order blocks, lost replies, restarts |
| `Bootloader` | boot path, validation, timeout and flash session | over any flash that keeps `FlashContract` |
| `CanSerial` | receive side of `canserial.c`, `sched_check_wake()` | interrupt against task, access by access |
| `CanTx` | transmit side of `canserial.c`; `canhw_send()`, `canhw_set_filter()` and the transmit interrupt of `stm32/can.c`, `stm32/fdcan.c`, `rp2040/can.c` | thread against controller |
| `CanRx` | receive FIFO and receive half of `CAN_IRQHandler()`, bxCAN and FDCAN | controller against handler |
| `Timers` | `timeout_task()` and the heartbeat on a wrapping counter | true time is kept beside the counter |
| `Timer16` | `stm32/stm32f0_timer.c` on a 16-bit counter | true time beside it; stalls of the processor |
| `Framing` | `command_find_block()` and its receive buffer | small alphabet |
| `SerialIrq` | `generic/serial_irq.c`, transmit interrupt of `stm32/serial.c` | task against two interrupts, access by access |
| `UsbCdc` | bulk tasks of `generic/usb_cdc.c`, bulk endpoints of `stm32/usbfs.c` | task against interrupt, access by access |
| `BufferedFlash` | `lpc176x/flash.c`, `rp2040/flash.c`, and the STM32 backend as its callers see it | functions of the array; extended by `HostFlasher` |
| `HostFlasher` | `CanFlasher` of `flashtool.py`, the handlers of `flashcmd.c`, a faulty link, over `BufferedFlash` | an update from end to end |
| `Deployer` | `sched_main()` of `deployer.c` over `Stm32Flash` | |
| `Stm32FlashProofs` | theorems about `Stm32Flash`, `Stm32Update` and `Deployer` | |
| `BootloaderProofs`, `CanSerialProofs`, `HostFlasherProofs` | theorems about `Bootloader`, `CanSerial`, `HostFlasher` with `BufferedFlash` | |
| `CanBusProofs` | theorems about `CanTx` and `CanRx` | |
| `TimersProofs` | theorems about `Timers` and `Timer16` | |
| `ConsoleProofs` | theorems about `Framing`, `SerialIrq` and `UsbCdc` | |
| `DataLemmas` | lemmas about sequences, residues and sets of naturals | used by the proof modules |
| `MC*` | constants for TLC | `MCStm32Update`, `MCCanBus`, `MCTimers` and `MCConsole` put modules that share no state, or share only `Stm32Flash`, side by side: `part` says which of them a behaviour is one of, the others stay in an initial state |

Composition: `Stm32Flash` is proved to implement `FlashContract`, and
`Bootloader` uses nothing of the flash but `FlashContract`. What holds of
`Bootloader` therefore holds over the STM32 backend. The buffering backends do not keep
that contract, since they acknowledge a block before it is in the array; `HostFlasher` puts all three
backends under the same commands and the same tool and asks what a user
relies on. `CanSerial` and `SerialIrq` leave what
the parser asks to pop open (any number of bytes), so `Framing` is one of the
behaviours they allow.

How state and actions correspond:

* **Stm32Flash.** `flash` is the array by block and cell (a cell stands for the unit the
  part programs), `pc` the place inside `flash_write_block()`, `req` its
  arguments, `ret` its result. `Check` is lines 184-215 with its three branches,
  `Erase` and `Program` are `erase_page()` and one iteration of
  `write_block()`, `Verify` the final `memcmp()`. `check_erased(b, count)` scans
  a quarter of `count` as the pointer arithmetic of the code does. Programming a
  cell that is not erased may leave the old value, the new one or neither.
  `acked` is a history variable: the payload last acknowledged per block.
* **Bootloader.** `bootup_code` is the word in RAM; `mode` says what the processor runs:
  `reset` (the handler), `entry`, `click` and `window` (the three parts of
  `bootentry_check()` around the double-reset delay), `main` (the command
  loop) and `app`. A block of code is an opaque value, metadata is a record of
  the fields `appvalidate_verify()` tests, and the hash of a region is its
  contents (collisions are left out). A reset or a loss of power is possible in
  every state.
* **CanSerial.** The task's steps end wherever it reads or writes something the interrupt
  handler shares. Bytes are numbered as the handler accepts them, so a lost,
  repeated or reordered one shows. `accepted`, `consumed` and `examined`
  are history variables.
* **CanTx.** `pending` is the controller's queue of mailboxes, `completed` the
  completion flags (`RQCP` of the bxCAN, `IR` of the FDCAN, the pending callback of
  can2040), `tmeie` the bxCAN's interrupt enable; `chip` is chosen once. A full
  controller is noticed in one step (`NoRoom`) and the interrupt enabled in the next
  (`EnableIrq`), so a frame may complete in between. `pc` in `admin` and
  `adminfull` is the endless retry loop of an admin answer. Setting the
  filter may drop what waits in the FDCAN, because its initialisation mode resets the FIFO. Response bytes are numbered;
  `produced` and `expect` are history variables.
* **CanRx.** bxCAN requests its interrupt while the FIFO holds a frame; FDCAN by the flag `RF0N`,
  which the handler clears in one step before it takes one frame in the next. A frame for a full
  FIFO replaces the youngest (bxCAN) or is discarded (FDCAN).
* **BufferedFlash, HostFlasher.** A block is one value; of its bytes `BlankQuarters` keeps how many quarters from
  its start are 0xff, which is all that `check_erased()` can tell, so that on the LPC176x and the STM32 the scan of a quarter is in the
  model. `write_buffer()` is an operator that returns result and array. On the STM32 `stm32_erased`, `stm32_retransmit` and `stm32_refused` are the decisions of
  `flash_write_block()`, the -2 of a block that is in the way included, and `stm32_write` programs and compares (-3).
  `CutWrite` and `CutComplete` are the arrays a loss of power inside a call leaves; on the STM32 the block is then blank, torn or whole. `phase` is the command the tool is at, `tries` and `rounds` are
  the loops of `send_command()` and of its callers. A `Timeout` while something is on
  its way is an answer that comes too late, and counts as a fault; `Retry` clears any number of the answers
  that are there, because the tool reads once for a quarter of a second. `Raise` is a `FlashError`: the tool
  still sends COMPLETE. A restart of the device (after COMPLETE, or when power goes) empties its RAM
  and leads to the bootloader or to the application, which ignores commands. `restarted` and `stale` are
  history variables: the device restarted in this run of the tool, and answers to an earlier run came into it.
* **SerialIrq.** A step of the task is one access to a variable the interrupts share; bytes are
  numbered. `stask` names the place in `console_sendf()` or `console_pop_input()`.
* **UsbCdc.** `out_dtog` and `in_dtog` are the controller's toggle bits, `out_sw` and `in_sw` those software flips; when
  they are equal the controller waits. The interrupt strikes between any two accesses.
* **Timer16.** A read is two accesses, `ReadHigh` and `ReadCount`. `Stall` is an erase: the counter
  runs on, the interrupt is served once afterwards.
* **Deployer.** `dpc` is the place in `sched_main()`; after a loss of power the device starts the deployer again if the area holds
  a whole bootloader, and is `dead` otherwise.
* **Timers.** One unit is `2^31 / Half` ticks; the loop polls at least once a unit.
* **Framing.** One byte for each group the parser tests: STX, length, payload, checksum, SYNC.

In the modules, operators whose names end in `_off`, `_missing`, `_short` and the like are
wrong variants of the definition that follows them. No action uses them; each is the
mutation that shows that a property can fail.

## 3. Runs

| Run | Shows | Bounds |
|---|---|---|
| `stm32_flash` | acknowledged payloads stay, retransmissions inside a page are harmless, `FlashContract` is implemented | a page of two blocks and one of a single block, four cells a block (the smallest with a quarter), one power loss, partial erases |
| `stm32_update` | in-order blocks are never refused and a completed update is in the flash; the deployer requests only a complete bootloader, and every copy ends | a page of four blocks and the start of another, three images, four old bootloaders, two power losses, replies lost at will |
| `stm32_update_padded` | **violated**: see 6 | the same, images with a blank first block, no power loss |
| `bootloader` | intact image, intact bootloader, codes used once, requests honoured; booting ends, COMPLETE is obeyed, a reconnect releases an abandoned transfer | boot block, metadata page, one code block, also one led by a zero word; metadata whole, damaged or without size; two resets or power losses |
| `can_serial` | byte stream, admin queue and wake flag stay sound, queued admin messages are handled | buffer of 3 bytes, queue of 2, 4 bytes and 3 admin messages |
| `can_serial_ack` | **violated**: see 6 | ids 1, 29 and 30 (one invalid) |
| `can_bus` | response bytes are handed over in order and once, no transmit wake-up is lost, responses go out; received frames are taken in order, a full FIFO is served again | buffer of 4 bytes, frames of 2, two mailboxes, 5 response bytes, three heartbeats, admin answers or id changes; all three controllers; FIFO of 3, 8 frames |
| `timers_48mhz` | the timeout is never early and never ends a transfer; timeout and heartbeat are late only after a transfer, or a wait for an id, longer than half the range of the counter, and then by half the range at most; the 16-bit time base is exact, or late by the stall and a period | 48 MHz to scale: 30 s = 11 of 32 units, transfers of up to 28 units and 20 without an id, so that both exceptions occur; half period of 4 ticks, time of 32, past its wrap, one stall of 5 or 13 ticks |
| `timers_72mhz_timeout` | **violated**: see 6 | 72 MHz to scale: 30 s = 17 of 32 units |
| `console` | framing: one NACK a gap, no wedged buffer, clean blocks are dispatched; UART: both streams intact, what is accepted goes out; USB: both streams intact, every message is answered | framing: four byte values, blocks of four and five bytes, buffer of six; UART: buffers of 3 and 4, responses of 2 and 3, 4 bytes in and 7 out; USB: packets of 2, receive buffer of two packets, messages and responses of 1 and 3 bytes, four messages, two unanswered |
| `host_update` | a reported success is in the flash, an acknowledged EOF is durable, retries recover (RP2040; STM32 with files that have data in every first quarter, as these two do), the tool ends | 8 blocks, buffer of 4, files of 5 and 4 blocks that differ in every block, over a blank or a filled array; three tries of a block, two faults or crashes, two runs of the tool; four combinations of backend and transport |
| `lpc_retransmit` | **violated**: see 6 | one fault, one run of the tool |

Why the bounds are enough: the buffers are larger than one block or frame and smaller
than two, so "partly there", "full" and "one too many" all occur; the queue wraps; two
resets reach the double reset and a loss of power in the second boot; two pages of
different size reach both sides of the page-size boundary; the
counter starts just before its wrap and each timer passes half its range. In `host_update` a
file of five blocks ends inside the second buffer and one of four at the end of the first, so EOF finds
the buffer partly filled and full; two faults are one fewer than a block has tries; two
runs of the tool with different files bring stale answers, stale buffers and a filled array. The
safety invariants of `HostFlasher` were also checked with a file of nine blocks over two sectors (1.2 million
states), and `UsbCdc` with three unanswered of five messages (1.3 million states).

Deadlock checking is on wherever a model has no legitimate end: a host that stopped (`HostFlasher`) and the end
of the bounded byte streams (`console`) are such ends.

**Fairness.** `Bootloader`: weak fairness of the boot steps, of the end of a
timeout and of the end of a flash write (the processor runs, time
passes), strong fairness of `complete_task` and `timeout_task`, because
`ctr_run_taskfuncs()` visits every task between two commands, so a host that
never pauses cannot keep a task from running. Nothing is assumed of the host,
of resets or of power. `CanSerial`: weak fairness of `canserial_rx_task` only; the
interrupt may strike for ever or never. `Framing`: weak fairness of the parser's
task. `CanTx`: weak fairness of the transmit task and the admin retry loop (the thread
runs), of the interrupt, and of the bus, which takes a frame the controller
holds; a device off the bus sends nothing, and its admin retry loop does not end.
`CanRx`: the interrupt is served. `SerialIrq`: the task goes on within a pass and the transmit interrupt is served; nothing
is assumed of the line. `UsbCdc`: the task loop runs both tasks, and the host polls the endpoints, as a
USB host does of itself; it need not write. `Deployer`: `sched_main()` runs on.
`HostFlasher`: the tool's coroutine and the device's dispatch go on; the
link may lose everything within the bound, resets come or not, and `complete_task` has no fairness.

## 4. Proofs

All theorems hold for every value of the constants that satisfies the named assumptions, which TLC
evaluates in the runs.

* **Stm32FlashProofs** (`GeometryAssumption`, `DataAssumption`).
  `TypeCorrect`; `Stm32KeepsContract`, step by step: a decision maps to a
  stutter, an acknowledgement or an error of the contract, `Erase` to `Wipe`, each cell
  to a `Program` that leaves the block torn until its last cell, power loss to
  power loss. `AcknowledgedStays` and `RetransmissionsAreHarmless` take
  `FirstQuarterUsed` as a hypothesis: every payload has a programmed cell in its first quarter.
  Without it they are false, which is finding 1. `AckedIntact` is not inductive:
  it needs that the hardware is only touched where nothing acknowledged is left
  (`NothingAckedAtStake`), and that in turn needs that a block `check_erased()` takes
  for blank was never acknowledged (`BlankUnacked`). `LockedWhenIdle`.
* **BootloaderProofs** (`LayoutAssumption`: the launch address starts a page, as
  the linker layouts have it). `AppIntact`: the jump checks nothing, so the
  invariant carries the check from one run of the program to the next: whenever
  `REQUEST_START_APP` is in RAM, or the double-reset window is open, the image is intact and no
  write is in progress (`Vetted`), and such a code exists only
  between the reset and the handler (`JumpPending`). `BootloaderSafe` needs that a write in
  progress lies in the application area (`WritesInRange`) and that pages do not straddle the launch address.
  `CodesUsedOnce`, `RequestsAreHonoured`, `TransfersAreNotCutShort`, `TypeCorrect`.
* **CanSerialProofs** (`SizesAssumption`). `StreamSafe`: while `console_pop_input()` runs
  the buffer is in two parts, moved and not yet moved, and `PopInv` says what each holds although
  the interrupt appends behind them. `QueueSafe`: positions modulo the queue size are
  distinct inside a window of that size (`DistinctSlots`). `NoWakeLost`: `WakeInv`
  says for each place of the task what may be pending while the flag is clear.
  `TypeCorrect`.
* **CanBusProofs** (`TxAssumption`, `CanRxAssumption`). `TxStreamSafe` and `TypeCorrect` are proved together, since
  `expect` is bounded only through the stream. `TxWakeNotLost`: `TxNoLostWake` is not
  inductive; `WakeInv` adds that between the test of a full controller and the enabling of
  the interrupt there is traffic to raise it, and that on the bxCAN the interrupt stays on its way
  while the device has no id or is in an admin retry loop. `RxInOrderSafe`: what was processed and what
  is in the FIFO are together what the controller kept, also when it replaces the youngest frame. `RxNeverDeafSafe` is
  the safety half of `RxServed`: on FDCAN a full FIFO comes with the flag set or the handler about to take a frame.
* **Stm32FlashProofs, the update.** `CompleteMeansFlashedSafe` needs of the backend only that success
  means "reads back", and that later blocks of the same run do not touch earlier ones: `SendInv`.
  It holds for padded images and partial erases too. `InOrderNeverRejectedSafe` is the converse of finding 1 and needs three hypotheses:
  `FirstQuarterUsed`; `WholePages`, pages do not straddle the place where their size changes; and `WholeErase`, an
  interrupted erase of a page has happened or has not. The last is necessary: if it leaves the first block of a page
  blank and the second not, `check_erased()` sees a blank page, the first block is
  programmed without an erase and the second one is refused. The invariant `OrderlyInv` says that `check_erased()`,
  which reads a quarter, is right about the whole: every block is blank or shows it in its first quarter
  (`LedInv`), and the blocks of a page are filled from the front (`PageOrder`); programming meets
  erased cells only (`CellInv`); the block the host sends next leads a page, is
  blank or is in the array already (`ResumeInv`). `RequestedMeansDeployedSafe`: `CopyInv`, the blocks before `p` are those of the new
  bootloader. `DeployNeverHaltsSafe`, the safety half of `DeployEnds`: the deployer meets no error, which would halt it with half
  a bootloader. It rests on the same two lemmas about one call of `flash_write_block()` as the update
  (`CheckInOrder`, `WriteInOrder`) and needs `FirstQuarterUsed`, `WholePages` and
  of the bootloader that was there what `OldInOrder` says, blocks that `check_erased()` cannot mistake and no used block behind a blank one in a
  page; not `WholeErase`, since a device that lost power in the copy starts the deployer again only if the area holds the old or the new
  bootloader whole.
* **HostFlasherProofs** (`HostFlasherAssumption`, `BufferedFlashAssumption`). `HostTypeCorrect` over all three backends.
  `VerifiedIsFlashedSafe`: in a run of the tool that no answer to an earlier run came into (`~stale`), success means the file is in
  the array, for any number of faults, restarts and runs. `VerifyInv` rests on the order of the commands: while nothing was
  requested back no REQUEST_BLOCK and no answer to one is on its way (`EarlyInv`), behind a REQUEST_BLOCK
  comes no write (`OrderInv`), so an answer on its way shows a block as it is and as it stays (`FreshInv`), the blocks
  verified so far are those of the file (`SoFarInv`) and so, in the end, is all of it (`DoneInv`).
  `~stale` is not a convenience. Without it TLC finds a counterexample beyond the bounds of `host_update` (a file of one block, six runs, six
  troubles): runs that are killed leave answers behind until they are a whole update's worth; the next run takes
  each for the answer to its own command, while the device loses power. In the bounds of the run, with two
  runs of the tool, `VerifiedIsFlashed` holds as it stands.
  `AckedEofIsDurableSafe`, for the STM32 and the RP2040: `DurInv` says that there is a number `m` of blocks the device has
  taken (`Progress`). They are in the array or in the RP2040's buffer, whose page lies inside one sector and is programmed over erased
  cells (`Taken`, `SectorReady`); a SEND_BLOCK on its way repeats block `m - 1` or carries block `m`, never behind a SEND_EOF
  (`WireInv`); the tool is at one of these two (`ToolInv`), so that a late or repeated acknowledgement cannot make it skip one;
  and after an acknowledged SEND_EOF no block is on its way any more (`EofDone`). On the LPC176x
  the property is false for some files: when a quarter of a sector is all 0xff `check_erased()` takes the sector for blank,
  the old content is programmed over, and `write_buffer()` does not read back. Only verification finds it, as
  `VerifiedIsFlashedSafe` says. The files of `host_update` have no such blocks, and there it holds on all three.
  `Rp2040RecoversSafe` and `RetriesRecoverSafe` state `RetriesRecover` for any numbers of tries and rounds
  with `EnoughTries`: no fewer rounds than tries of a block, and more tries of CONNECT than of a block. The tool has 3, 3 and 5. It follows from an account
  of the faults. `Budget`: an answer or request on its way that the tool will not use (`Strays`), a try and a round each
  stand for a fault that has happened, and so does the silence that a lost message leaves (`Owed`). On USB the tool may take the answer
  to `prime()`'s request for the one to CONNECT, which leaves one message too many without any fault; `Allowance` books it while CONNECT is pending,
  and is why CONNECT needs the extra try. `Steady`: until the faults are used up, no error was raised, the
  file matches and the device is on. Besides the account it needs that the device refuses nothing, for which `DurInv` places
  the block on its way. The RP2040 refuses nothing it is sent, so that `Rp2040RecoversSafe` needs no more: any file, whatever
  earlier runs left on the link. On the STM32 it depends on what `check_erased()` takes for blank. `RetriesRecover` is stated there for files with
  data in the first quarter of every block (`FirstQuarterUsed`); for others it is false without any fault, which is finding 1: TLC finds
  it with a file of five blocks, the first two blank, followed by another of four used blocks. For files that satisfy it `PageInv` says that,
  until something is killed or cut off, the used blocks of a page come before the blank ones (`Ordered`), so that a scan of the page finds it blank only if it is, and that the block after
  those taken is blank or leads a page (`NextBlank`); `PageWrite` is the step. `PageInv` follows a new run
  of the tool over whatever the one before left, in mid-page too, but not one that took an answer to the run before for one to its own: it may skip
  a block and leave a hole in a page. Hence the hypothesis `[]~stale` of
  `RetriesRecoverSafe`; whether it is necessary was not settled, and within the bounds of `host_update` TLC finds no violation without it.
* **TimersProofs** (`TimersAssumption`, `Timer16Assumption`). Comparisons on a wrapping counter are congruences: `Clock` ties
  counter and true time, the lemmas of `DataLemmas` on residues turn `timer_is_before()` into a statement about true differences.
  `NoLateTimeoutSafe`, `HeartbeatRegularSafe` (with `LateInv` and `HeartInv`: what a poll that found the time not
  yet come says about it) and `TimersTypeCorrect` hold for every range and interval; `NoEarlyTimeoutHolds` assumes timeouts
  of at most half the range, without which finding 3 refutes it. `TimeNeverAheadSafe`: `timer_high` stands for a true time that is a
  multiple of the half period (`Holds`) and whose distance to now is bounded by latency and stalls (`LagInv`).
* **ConsoleProofs** (`FramingAssumption`, `SerialAssumption`, `UsbAssumption`). `OneNackPerGapSafe`, `CleanBlockDispatchedHolds`
  and `FramingTypeCorrect`. `SerialRxStreamSafe` follows the two parts of the buffer while it is moved, as `PopInv` does for CAN;
  `SerialTxStreamSafe` says for each place of `console_sendf()` which window of `transmit_buf` is still to
  be sent, in terms of the shared positions or of the task's copies (`Front`, `Back`). `UsbInStreamSafe` and `UsbOutStreamSafe`: `InSync` and `OutSync` say
  how toggle bits, flags and the place of the task determine whose turn a packet buffer is (`Pend`, `Unread` count those
  handed over), `InStream` and `OutStream` that the buffers in that order are one run of bytes. The out side adds
  `Chain`, the packets the host has yet to send carry on where the buffers end, and `Messages`, what was popped ends with the last
  message dispatched. `SerialTypeCorrect` and `UsbTypeCorrect`: no buffer holds more than its size.

The library's induction theorems cannot be used (they take an operator). Where the first position with some property is
needed, as in `memchr()` of the parser, `LeastNatural` of `DataLemmas` gives it.

The `TypeCorrect` theorems, `LockedWhenIdle`, `TransfersAreNotCutShort`, `DeployNeverHaltsSafe` and `RxNeverDeafSafe` need no
run beside them, being proved for every instance.

Only model-checked:

* liveness, and everything that needs ENABLED: outside the prover's reach;
* `AckedEofIsDurable` on the LPC176x, for files as those of `host_update`;
* the four runs that are violated.

## 5. Not modelled

* USB control transfers (ep0), reset and reconfiguration of the bus, and the controllers of `stm32/usbotg.c`, `lpc176x/usbserial.c` and
  `rp2040/usbserial.c`; the reception of the RP2040, which is in the vendored can2040; register setup everywhere.
* In `flashtool.py` argument handling, sockets and files, and the request that brings an application into the
  bootloader: `Start` of `HostFlasher` finds the device there. The session timeout
  that may end a session after EOF is `timeout_task` of `Bootloader`; in `HostFlasher` it is one of the
  crashes.
* In `BufferedFlash` blocks are smaller than the LPC176x buffer, as in the default configuration; sectors have one size; cells inside a block,
  which only `Stm32Flash` has, so that a torn block, or one programmed over another, is one value with one `BlankQuarters`, and an interrupted
  erase has happened or has not; the proofs hold for each value it may have.
* On FDCAN a change of id goes through the initialisation mode, which empties the receive FIFO too; that is in `CanTx`, for what it
  does to the transmit side, and not in `CanRx`, whose frames are those that come while the id stays.
* `Deployer` compares a whole block, with the 0xff fill behind the end of the bootloader, where `deployer.c:76` compares the bytes
  of the bootloader only. The model then writes a last block that the code leaves alone if just the fill differs.
* The double-reset register of the RP2350, start-up code, build scripts.
* `total_bytes_written` of `flashcmd.c`, written and never read; LED and pins; register sequences of the STM32
  families, which all amount to one erase and one program; hash and CRC collisions.
* The 32-bit wrap of the admin queue positions, which takes 2^32 messages.
* The timeout exists under `CONFIG_CANSERIAL`; that configuration is the one modelled.

## 6. Where the code and its documentation disagree

1. `check_erased()` (`src/stm32/flash.c:46`) reads a quarter of the range: `count / 4` is added
   to a `void *`. Flashing an image over another one whose page also starts with 0xff
   fill is refused with -2 in the middle (`stm32_update_padded`).
2. A repeated SET_CANBOOT_NODEID is not acknowledged (`generic/canserial.c:202`), while
   `docs/admin_protocol.md:142` says it is (`can_serial_ack`).
3. Above 71.58 MHz thirty seconds exceed 2^31 ticks, and the timeout of a device with a
   short id ends early (`src/sched.c:101`, `timers_72mhz_timeout`).
4. On the LPC176x one lost or late answer to a block fails the update. The repeated block is not the one `next_address` expects, and as `next_address` and
   the block are neighbours they are not both at the start of a 256-byte buffer: `flash_write_block()` takes it for an "out of order request"
   (`src/lpc176x/flash.c:135`) and refuses it with -2 at every try, the first block of a buffer like the others. `write_buffer()` has a branch for it, commented
   "retransmit of this block" (`src/lpc176x/flash.c:104`), that returns 0 for a buffer that is in the array already; `RetransmitAcknowledged` says that a
   block which would get there is acknowledged, and the run shows the fourth block of a file, which completes the first
   buffer, repeated and refused (`lpc_retransmit`). Only a buffer sent again from its first block on gets there.

Known limits, in the hazard list: an FDCAN handler that takes one frame an
interrupt may leave frames until the next one comes; a lost answer to COMPLETE makes the tool report a failure after a success; a
device that gets its id more than 2^31 ticks after start-up sends no heartbeat for up
to as long again (`generic/canserial.c:376`; `docs/admin_protocol.md:163` says "Sent every 2.5 seconds"), and the timeout after a transfer that outlasts it by 2^31 ticks is
late by as much (`src/sched.c:102`), which `HeartbeatRegular` and `NoLateTimeout` state.

## 7. Plan

Done: flash contract and all three backends, boot path and session, both sides of the CAN serial and of the CAN
controllers, UART, USB bulk transfer, both time bases, framing, the host tool from end to end and the deployer; every safety
property of the passing runs is proved but for what section 4 names. Next, in this order:

1. Proofs: `AckedEofIsDurable` for the LPC176x and files without blank quarters; type invariant of `Timer16` and `Deployer` as theorems.
2. One byte-stream specification, implemented by `CanSerial`, `SerialIrq` and `UsbCdc`: the stream invariants of their proofs
   are its refinement mappings.
3. Several CAN nodes and one host assigning ids: uniqueness after conflicts settle, and a conflict
   seen on one id that is applied to the next (`generic/canserial.c:333`).
4. USB control transfers and reconfiguration.
