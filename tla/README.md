# Verification of the SJOne board firmware

This directory holds TLA+ modules, TLC configurations and TLAPS proofs about the firmware in
`src/`: a FreeRTOS program for the NXP LPC1758 that runs a producer and a consumer task on top
of a board support package with drivers, a terminal and a wireless mesh network.
Paths below are relative to `src/`.

- [1. The system](#1-the-system): components, their state, operations and hazards
- [2. Modules](#2-modules): what is modelled and how it corresponds to the code
- [3. Runs](#3-runs): what TLC checks, the bounds and the fairness
- [4. Disagreements with comments and documents](#4-disagreements)
- [5. Proofs](#5-proofs)
- [6. Not modelled](#6-not-modelled)
- [7. Plan](#7-plan)

Modules are checked with `tlc -config X.cfg M`, proofs with `tlapm M.tla`.

## 1. The system

`L5_Application/main.cpp` starts four tasks and the kernel: the terminal (priority HIGH), the
wireless task (CRITICAL) and the producer `task1` and the consumer `task2` (both MEDIUM). The
kernel (FreeRTOS, `L1_FreeRTOS`) preempts by priority and slices time between equal priorities at
1000 Hz. Memory comes from `malloc` (`heap_3`); when it fails
the hook of `L1_FreeRTOS/hooks/hooks.c` spins for three seconds and reboots the board.

| Component | State | Operations | Talks to |
|---|---|---|---|
| producer and consumer (`L5_Application/test_task.cpp`) | global queue handle `qh`, the queues | `task1::run`, `task2::run` | each other, through a queue made anew every turn; the heap |
| mesh (`L4_IO/wireless/src/mesh.c`) | routing table, packet history, pending packets (own, of others), sequence number, `g_locked` | `mesh_send`, `mesh_form_pkt`, `mesh_send_formed_pkt`, `mesh_service` | radio driver (function pointers), the application's queues |
| wireless task and driver (`wireless.c`, `tasks.hpp`) | `g_nrf_activity_sem`, `g_rx_queue`, `g_ack_queue` | `wireless_service`, `nrf_irq_callback`, `nrf_driver_*` | mesh, the radio's interrupt line and FIFO |
| UART and character device (`L2_Drivers/base/uart_dev.cpp`, `char_dev.cpp`) | receive and transmit queue, `mPrintfSemaphore`, FIFO and shift register | `putChar`, `getChar`, `flush`, `printf`, `handleInterrupt` | every task that prints; the interrupt |
| file logger (`L3_Utils/src/file_logger.c`) | pool of message buffers (two queues), write buffer, counters | `logger_log`, `logger_send_flush_request`, `logger_task` | every task that logs; the file system |
| CAN (`L2_Drivers/src/can.c`) | transmit and receive queue, one of the three hardware buffers (the others are under `#if 0`) | `CAN_tx`, `CAN_rx`, interrupt | commands of the terminal |
| I2C (`L2_Drivers/base/i2c_base.cpp`) | mutex, completion signal, transaction | `transfer`, state machine in the interrupt | sensors, among them the producer's accelerometer |
| task scheduler (`L3_Utils/src/scheduler_task.cpp`) | task list, the semaphore that opens `run()` | `scheduler_add_task`, `scheduler_start`, `scheduler_c_task_private` | all tasks |
| kernel (`L1_FreeRTOS/src/queue.c`, `tasks.c`, `list.c`) | ready, delayed, suspended, pending and event lists, tick count, queue storage, locks and mutex holders | sends and receives with a time-out, from tasks and interrupts; delays, suspension, the tick, the context switch | everything above; the tick and every interrupt |
| file system (`L4_IO/fat/ff.c`) | allocation table, directory, the window of one sector, open files | `f_open`, `f_write`, `f_lseek`, `f_sync`, `f_close`, `f_unlink`, `f_rename` | the disk; the logger, the commands of the terminal |
| periodic dispatcher (`prd_dispatcher.cpp`) | four semaphores, dividers | `run`, `handlePeriodicSemaphore` | the period callbacks; disabled in `main.cpp` |
| system timer (`L0_LowLevel/source/lpc_sys.cpp`) | roll-over count, match registers | `sys_get_uptime_us`, timer interrupt | watchdog, the mesh before the kernel runs |
| mesh stream (`L2_Drivers/src/nrf_stream.cpp`) | transmit and receive packet | `putChar`, `getChar`, `flush` | the mesh, the terminal's commands |

The rest (SPI, radio registers, timers, sensors, terminal, telemetry, containers, clocks) is listed
in `PROJECT.json` and in section 6.

**What is hard, and what makes a component correct.**

- *Producer and consumer.* `task1` stores a new queue in `qh` every turn and sends one sample
  after a delay of 300 ms; `task2` reads `qh` twice and then blocks for ever on what it read.
  A queue that was replaced is never sent to again. Correct: the consumer never waits on an
  abandoned queue, samples arrive in order and once, at most one in a row is lost, a full queue
  is never met, and all of that until the heap is used up.
- *Mesh.* Packets are lost, repeated, answered twice and overtaken by retries; routes are
  learnt from packets that took different ways; tables are short and entries are given away.
  Correct: a packet is delivered once, an answer means a delivery, every route is a way that
  exists, a source does not transmit more often than its retries allow, and the traffic ends.
- *Wireless task.* A task of the highest priority, tasks in `mesh_send()`, the radio's interrupt
  and the tick share the tables, the radio and one semaphore; the only protection is a flag that
  is tested once. Correct: tables and radio have one user at a time, no interrupt is slept
  through, packets are read, sends return and retries happen.
- *UART.* Tasks and the interrupt both take from the transmit queue and write the same register.
  Correct: characters leave in the order in which they were accepted and none is lost, no
  character is written to a full FIFO, and a queue that is not empty is always being emptied.
- *File logger.* Callers wait for ever for a pool that the logger task refills; a buffer is read
  after it was handed over. Correct: no buffer is lost or used by two, each accepted message is
  in the file once and in order or in a write that failed, and callers return.
- *CAN, I2C.* A driver function and its interrupt hand work to each other; the I2C wait has a
  time-out that the interrupt does not know of. Correct: messages leave in order and none stays
  behind; a transfer reports its own result and touches no buffer after it returned.
- *Kernel.* Calls and interrupts meet in the lists; a locked queue and a suspended scheduler put
  work off until they are released; the tick count overflows. Correct: lists and bit map agree, the
  most urgent ready task runs, no wake-up is lost, time-outs are exact, a mutex has one holder that
  inherits, and a queue is a bounded queue.
- *File system.* Table, directory and data go to the disk through a window of one sector, and the
  power can fail between any two sectors. Correct: at any moment no cluster on the disk belongs to
  two files or to a file and the free ones, and what a sync reported as written stays.
- *Scheduler, timer.* The timer's interrupt services the mesh until the kernel does; the time is put
  together from two words without a lock. Correct: no task runs before all are initialised, the mesh
  has one servant, the time is exact.

The hazards, each at its line and with the properties that would catch it, are in
`PROJECT.json`; one that the code lets happen names no property there but the configuration of section 4
that shows it. The hazards of `WirelessUnread.cfg`, `I2cArbitration.cfg`, `FatOpen.cfg` and
`StartupPeriod.cfg` are listed in section 4 only.

## 2. Modules

| Module | Stands for |
|---|---|
| `ProducerConsumer`, `CanAndTasksProofs` | `test_task.cpp`, the malloc failed hook, the tick |
| `QueueStorage` | the ring of a queue and its pointers (`queue.c`): operators from record to record |
| `Scheduler` | the lists, the tick and the switch (`tasks.c`, `list.c`): operators from record to record |
| `Kernel`, `MCKernel`, `KernelProofs` | tasks and interrupts that call the kernel; uses `Scheduler` and `QueueStorage` |
| `BoundedQueue` | abstract: what a queue promises; `Kernel` implements it |
| `MeshNode` | one node, `mesh.c`: operators from node record to node record |
| `Mesh`, `MCMesh`, `WirelessProofs` | nodes, radio FIFOs and the air between them; uses `MeshNode` |
| `WirelessTask`, `WirelessProofs` | one node's tasks, interrupt and tick around `mesh_send()` and `mesh_service()` |
| `CharLink` | abstract: what a character device promises |
| `UartTx`, `UartTxProofs` | the transmit side of the UART driver; implements `CharLink` |
| `LogFile` | abstract: a file that gets what is logged, with gaps where a write failed |
| `FileLogger`, `MCFileLogger`, `FileLoggerProofs` | callers, buffers and the logger task (`file_logger.c`); implements `LogFile` |
| `CanDriver`, `MCCanDriver`, `CanAndTasksProofs` | one CAN controller, its driver's tasks and interrupt (`can.c`) |
| `I2cTransfer`, `MCI2cTransfer`, `I2cTransferProofs` | one I2C bus: threads, the interrupt's state machine, the devices (`i2c_base.cpp`) |
| `FatVolume`, `MCFatVolume`, `FatVolumeProofs` | the writing half of the file system (`ff.c`) above a disk that can fail |
| `TaskStart`, `SystemTimer` | `scheduler_task.cpp` and `lpc_sys.cpp` |
| `Startup`, `MCStartup`, `StartupProofs` | both together: the timer's interrupt until the tasks run |

**ProducerConsumer.** One action per blocking call or access of the shared handle: `CreateQueue`
(or `CreateFails`, then `Reboot`), `ReadAndSleep` (accelerometer, then `vTaskDelay(300)`) and
`SendSample` are `task1`; `TestHandle`, `LoadHandle`, `ReceiveSample` and `ShowAndSleep` are
`task2`. `if (qh)` and the argument of `xQueueReceive` are two reads of a global and two actions.
Handles are numbered in the order of creation, 0 is NULL. A sample carries the number of its turn
for the properties. `Tick` lets time pass: `sleep` counts the delays down and `lag` how long a
ready task has been kept from running since it last blocked. The assumption `LagAssumption`,
`MaxLag < Delay`, is about the environment: tasks of higher priority do not keep one of the two
from the processor for a whole 300 ms. Without it the consumer can be stranded.

**QueueStorage, Scheduler and Kernel.** `pcReadFrom`, `pcWriteTo` and `uxMessagesWaiting` are the
fields of a queue's storage, with the wrap-around in each of the three ways to put. The
scheduler's static variables are the fields of one record, and every function of `tasks.c` an
operator on it: `AddToReady`, `AddCurrentToDelayed`, `RemoveFromEventList`, `IncrementTick` with the
swap of the delayed lists at the overflow, `SuspendAll` and `ResumeAll` with pended ticks and the
pending list, `Inherit` and `Disinherit`, `SwitchContext`. A ready list keeps the index
`listGET_OWNER_OF_NEXT_ENTRY` goes round with. In `Kernel` a step is a critical section: `Call` and
`Retry` are the first one of each turn of `xQueueGenericSend()` and `xQueueGenericReceive()`; then
come `SuspendScheduler`, `LockQueue`, `CheckForTimeOut`, `TestAgain`, `Place`, `UnlockTx`, `UnlockRx`
and `ResumeScheduler`. `SendFromISR`, `ReceiveFromISR` and `Tick` come between any two of them;
`PendSV` is the switch. An interrupt's caller may ignore that it should yield: both are allowed.
What is called is a program chosen at the start. A mutex is given by its holder only.

**MeshNode and Mesh.** The static variables of `mesh.c` are the fields of a record and every
function is an operator on it, in the order in which the code calls them; `out` and `app`
collect what a call transmits and delivers. A payload is the Boolean "has data". Timers are only
compared with their time-out, so a call is given the set of slots whose timer has run out: any
set, since clocks of nodes are independent and a wireless task may be late. Statistics are left
out. `Mesh` adds a three deep receive FIFO per node (bounded to two in the runs) and the air: a
transmission reaches any subset of the nodes in range, because the radio's own acknowledge is
switched off. `AppSend` is `mesh_send()` of an application, `ServicePacket` and `ServiceTimers`
are `mesh_service()` with and without a packet. Calls are atomic here; that they are is what
`WirelessTask` checks (`Exclusive`).

**WirelessTask.** The interleaving inside one node, with what the packets say left out. The
sender's actions are the steps of `mesh_form_pkt()` and `mesh_send_formed_pkt()` between which it
can be preempted: load and store of the sequence number, lock, route, unlock, lock, transmit (it
gives the semaphore), pending list, unlock. The wireless task's are those of `wireless_service()`
and `mesh_service()`: look at the interrupt line, take the semaphore or block (a tick, or without
limit when nothing is pending), return when locked, read a packet, look at the FIFO, clear the
flag, handle the packet and the pending packets. `cpu` is the task that has the processor: the
wireless task keeps it until it blocks, `Arrive` (the interrupt, which yields) and `Tick` take it
from the sender; a give without a yield does not. `mesh_handle_our_packet()` is followed through
to the answer, which itself goes through `mesh_form_pkt()` and `mesh_send_formed_pkt()` and so
clears `g_locked`.

**UartTx and CharLink.** `putChar()` is four actions: enqueue, test of the line status, take the
oldest character, write it. `printf()` holds a semaphore around its puts; the C library's output
(`terminal.cpp:151`) does not, so the constant `Printer` says which writers use it.
`TransmitterEmpty` is the interrupt, taken before the next instruction of any task; `Load` and
`Sent` are the hardware: the interrupt is raised when the FIFO runs empty, one character before
the line status says that the transmitter is idle. Characters are numbered as they are accepted.
`CharLink` has two variables, what was accepted and not sent and what was sent; `Link` maps to it
shift register, FIFO, the character in the hand of the task inside `printf()`, and queue, in this
order.

**FileLogger and LogFile.** `GetBuffer` and `HandOver` are what a caller does at the two queues
(with `WaitForBuffer` between the wait with a time-out and the one without), `Take` and `GiveBack`
what `logger_task()` does, `TimeOut` its flush when nothing came, `LogDirect` a call before the
kernel runs. NULL in the write queue is a flush request. A message is a text with a length, so that
it can just fill the large buffer or be cut at its end. `WriteToFile` fails once: nothing or a first
part is written, and what it should have written is gone, as in the code. To `LogFile` the backlog
is the large buffer and then the write queue's messages.

**CanDriver.** `TryNow`, `Enqueue` or `TimeOut`, and `Check` are the three parts of `CAN_tx()`:
two critical sections with the queue between them. `EnterISR`, `ReceiveFromHw` and `SendNext` are
`CAN_handle_isr()`; `Sent` and `Arrive` the controller, which goes on during critical sections and
handlers. The driver loads one of the three transmit buffers. A message is its sender and the
number of its call. `SendNext` and `Check` do with the results of `CAN_tx_now()` and `xQueueSend()`
what the code does.

**I2cTransfer.** `transfer()` is `Call` to `Done`, with `Main` as the one that polls before the
kernel runs. Every state of `i2cStateMachine()` is an action on the controller's registers, which
`BusStart`, `Address`, `Transmit` and `ReceiveByte` move on. A device may be absent, refuse a byte
or be slow; `Disturbed` is a lost arbitration or a bus error. The caller's buffer lives as long as
its call: an interrupt that comes later reads junk and writes to memory that is somebody else's,
which the model drops. `trxSize` wraps at its width.

**FatVolume.** The volume is FAT16 with one sector per cluster. `disk` is what is on the disk; `fat`
and `dir` are what the program sees through the window. A call takes the volume's lock, which
it holds to its end (`op`), and is the list of its steps (`todo`): look at a sector, change an entry,
write the window, write data, change the file object, in the order of `ff.c`. `WriteBack` is the
sector that has to go before the window can move, so `PowerLoss` and `DiskError` come between any
two sectors. `f_write` and `f_lseek` continue cluster by cluster (`WriteOn`, `SeekOn`). `saved` is
history: what was in a file when a sync of it returned. `Consistent` (in `FatAssumption`) is the disk at
the start: as it was formatted, with files whose chains are apart and long enough for their sizes.
`text` in a file object is history too: what the caller has written. What lies between the old end of a
file and the place of a seek beyond it is `Unknown`: `ff.c` leaves there what the clusters had.

**TaskStart, SystemTimer and Startup.** `main()` creates tasks, calls every `init()` and starts the
kernel (`CreateTasks`, `InitTask`, `scheduler_start`); the task with the largest stack calls every
`taskEntry()` and then gives the gate's semaphore once per task. A step of a task needs the
processor: ready, with the highest priority, or holding the suspended scheduler.
`vTaskEndScheduler()` does on this port nothing but clear a flag. The interrupt takes one of its
reasons at a time in the order of the code's tests; `MeshServicing` looks at the state of the
kernel, which is `TaskStart`'s. `sys_get_uptime_us()` is its three reads (`ReadBefore`,
`ReadRollovers`, `ReadAfter`) and the comparison, by a task, in a critical section or not (`Mask`),
and by the mesh inside the interrupt. `Startup` interleaves the two: tasks move only when no
interrupt is pending.

Definitions that are marked as mutants are wrong on purpose: each is a plausible slip in the
code (a dropped guard, a missing reset) and some property of a passing run fails when it replaces
the definition it is named after. No other definition uses them.

## 3. Runs

| Run | Module, cfg | Checks | States |
|---|---|---|---|
| `producer_consumer` | `ProducerConsumer`, `ProducerConsumer.cfg` | `TypeOK SendNeverBlocks NeverStranded NoReplay AtMostOneLost ReceiveReturns` | 14,517 |
| `kernel` | `MCKernel`, `Kernel.cfg` | `ListsAgree HighestRuns NoLostWakeup TimeoutsExact MutexesHeld IsFifo` | 960,991 |
| `mesh` | `MCMesh`, `Mesh.cfg` | `DeliveredOnce AckedWasDelivered RoutesSane DiscoveryMarked SendsBounded RoutesAreWays Quiesces` | 450,405 |
| `wireless_task` | `WirelessTask`, `WirelessTask.cfg` | `Exclusive SignalNoticed PacketsRead SendReturnsUndisturbed` | 132,005 |
| `uart_tx` | `UartTx`, `UartTx.cfg` | `ThrHasRoom SendsInOrder StartDrains` | 7,488 |
| `file_logger` | `MCFileLogger`, `FileLogger.cfg` | `BuffersConserved WritesInOrder LogReturns` | 223,963 |
| `can` | `MCCanDriver`, `CanDriver.cfg` | `QueueServed SentOnce ReceivedInOrder QueueEmpties` | 168,934 |
| `i2c` | `MCI2cTransfer`, `I2cTransfer.cfg` | `CleanTransferExact TransferReturns` | 282,539 |
| `fat` | `MCFatVolume`, `FatVolume.cfg` | `NoCrossLink SyncedSurvives` | 1,472,961 |
| `startup` | `MCStartup`, `Startup.cfg` | `RunAfterEntries ServicedByOne UptimeExact` | 9,265,226 |

`wireless_retry` and `can_lost` show a disagreement with a comment each (section 4). Deadlock is
checked in `producer_consumer` and `wireless_task`; elsewhere the bound on calls, packets or ticks
lets the system stop, and the liveness properties say that it stops in the right place.

**producer_consumer.** Five queues fit the heap, so that the consumer can be on any of them
while the producer is turns ahead, and the reboot is reached and followed by new turns. A delay is
three ticks, the lag at most one: less than half of the delay, which `AtMostOneLost` needs. With a
lag of half the delay (`Delay = 4`, `MaxLag = 2`) TLC finds two samples lost in a row, with
`Delay = 5` none again. A queue holds one sample instead of 100: it is never sent to
twice, which `SendNeverBlocks` checks. Deadlock is checked. *Fairness:* weak for each task and the
tick, since the kernel runs every ready task and time passes. None for `Reboot`: a wait that only
the restart would end is not excused. `ReceiveReturns` therefore asks for room for one more queue.

**kernel.** Four tasks of three priorities, the lowest of them idle, and six programs: two
receivers against a task and an interrupt that send, the mirror image, both at once on one queue,
all ways to put and get, a mutex shared by three priorities, and delays with suspend and resume.
Queues have one and two places, enough for a ring that wraps and for a task that finds the item
taken again. Ticks count to 3 and start at 2, so that every time-out crosses the overflow; 3 is
also `portMAX_DELAY`. At most two interrupts use a queue while it is locked. In `Lock` a task that
waits for the mutex waits without limit; `KernelSwitch.cfg` has the time-out (section 4).
`IsFifo` is the refinement of `BoundedQueue`. No liveness: with equal priorities and interrupts at
any time the kernel promises none to a task.

**mesh.** One run over three networks, chosen in the initial state: a line in which a node sends
with an acknowledge to a node it has no route to (discovery, the repeater's retries, the answer's
way back), the same line after the far node has announced itself (a known route that fails), and
three repeaters that hear each other with a fourth node behind one of them and two broadcasts
(duplicates from two sides, and routes of up to two hops that the two broadcasts teach differently:
what `RoutesAreWays` needs). Tables have two entries for three or four nodes, so that entries are given
away; the history has its real length of four; scores are
halved at 3 instead of 255, sequence numbers wrap at 8, more than any run hands out. Retries are one
and none instead of two: enough for an answer to cross a retry. The network may stop when all is
done, so deadlock is not checked; that it stops in the right place is `Quiesces`. *Fairness:* a
network in which some node has something to do takes a step; which node, and which timer first, is
open. The wireless task loops over `mesh_service()` and runs for each packet and each tick while
packets are pending. It is written out with `Busy` because TLC would otherwise enumerate every
loss to find out whether `Next` is enabled.

`RoutesAreWays` says of every entry of every table that packets of its destination can come through its
next hop and past as many repeaters as it counts. That no two nodes name each other as the next hop
is not among the properties: nothing in the code or its documents promises it, and in a network of four
nodes that all send to each other TLC's simulation finds two that do.

`DeliveredOnce` and `AckedWasDelivered` hold in these networks and fail in others (section 4): here
fewer than five packets are on the way at a time, and no application sends a second packet with an
acknowledge while an answer to a retry of the first is under way. They are kept because inside
those limits they are what retry, history and answer are for, and because the mutants show what
breaks them.

**wireless_task.** Three packets arrive in a FIFO of two, a task sends twice, two slots, one
retry; the tick comes at any moment. That is enough for a packet in each critical section, an
overflow of the FIFO, and an answer that takes over the slot of the packet being sent. *Fairness:*
weak for the wireless task and the tick; strong for the sender, because a millisecond is long
enough for it to take a step whenever the wireless task blocks, although the tick takes the
processor away again and again. `SendReturnsUndisturbed` excuses exactly the case of
`WirelessSpin.cfg`: a packet that came while the sender held the lock.

**uart_tx.** Three tasks, a queue of four, a FIFO of two, eight characters: the queue holds more than
the FIFO takes at once, it runs full, and tasks wait inside and outside of `printf()`. All tasks use `printf()`;
`UartOrder.cfg` shows why that matters. `ThrHasRoom` is about every moment in which somebody is about to
write the register: the task that has tested the line status and taken a character, and the interrupt. The history of sent characters bounds the run, so the system
stops after the last one. *Fairness:* weak for hardware, interrupt and a put that has begun; none
for beginning one.

**file_logger.** Three tasks, two buffers, five calls, a large buffer of four characters and
messages of one and three: pool and queue run empty and full, a message just fills the large
buffer or is cut, flush requests fill the queue, one write fails. *Fairness:* weak for the logger
task and for a caller that can go on. `WaitForBuffer` needs none: it only changes how long is
waited.

**can.** Two tasks with two messages each, a queue of one, so that a send times out while the
interrupt may still be held off; three received messages against one place in the controller's
list of two and a queue of one. *Fairness:* weak for the controller's sending, the handler and the
tasks inside `CAN_tx()`; none for beginning a call or for receiving.

**i2c.** A polled call and two tasks, each asking once for one of four transfers: nobody there, two
registers, one register, a write of two; time-outs at any moment, `trxSize` of two bits.
`CleanTransferExact` is about calls that found bus and signal idle and that no bus error ended: the
status of a bus error is 0x00, which the code takes for success (`I2cBusError.cfg`). What calls get that
did not find the bus idle is `I2cLate.cfg`. *Fairness:* weak for the interrupt, the controller and the threads' steps; not for the
time-outs, so that `TransferReturns` shows that the interrupt's signal always comes. It
excuses a lost arbitration, whose flag the code never clears (`I2cArbitration.cfg`; no other master is
on the board's bus).

**fat.** A volume of four clusters with the table and the directory in two sectors each, so that
every chain crosses the window; sectors of two units, so that writes are partial, whole and cross a
boundary; one file of three units at the start; two tasks, five calls, two faults, which lets a
second fault meet what the first one left. `Exclusive`: the tasks do not open, rename or remove a file
another has open, which `_FS_LOCK 0` leaves to them (`FatOpen.cfg`). `NoCrossLink` is checked in every
state, for the power can go in every state.

**startup.** Three tasks whose entry task is neither the first nor the most urgent; every failure
of a task, an `init()` or a `taskEntry()`; the timer turns over once in six ticks of a turn of
five, with a period of one, a watchdog of three and one edge of the infrared receiver, so that
every reason of the interrupt meets every other. `Tick` assumes that nobody is held up for a whole
turn of the timer, which is 71 minutes.

## 4. Disagreements

What a comment or a document says and the code does otherwise. The first two are runs; the others
are configurations kept for the reader: each checks one property, and TLC finds it violated.
`tlc -config <cfg> <module>`.

| Configuration, module | Property | Says | The code |
|---|---|---|---|
| `WirelessRetry.cfg`, `WirelessTask` (`wireless_retry`) | `RetriesEnd` | `wireless.c:204`: sending wakes the task for the retries | it is woken before the packet is on the list, and may sleep again without limit (`:209`) |
| `CanLost.cfg`, `MCCanDriver` (`can_lost`) | `NoneLost` | `can.h:165`: the interrupt will later send the queued message | it takes the message out and does not look whether the buffer was free (`can.c:243`); a task had loaded it |
| `KernelSwitch.cfg`, `MCKernel` | `HighestRuns` | `tasks.c:3280`: the switch after a give is only needed when several mutexes are given back out of order | one mutex and a time-out are enough: a give that drops a priority and wakes a less urgent task does not switch (`queue.c:648`) |
| `MeshHistory.cfg`, `MCMesh` | `DeliveredOnce` | `mesh_design.h:36`: duplicates are absorbed | the history holds four packets of all sources; a retry after four others is delivered again (`mesh.c:564`) |
| `MeshLateAnswer.cfg`, `MCMesh` | `AckedWasDelivered` | `mesh.c:423`: the answer clears the pending packet | an answer names no packet: the second answer to a retried packet clears the next one, which was lost (`:432`) |
| `WirelessNumbers.cfg`, `WirelessTask` | `NumbersUnique` | `mesh.c:119`: unique sequence number | two tasks increment it without protection (`:121`) |
| `WirelessUnread.cfg`, `WirelessTask` | `UnreadIsSignalled` | `wireless.c:120`: a signal as long as the FIFO was not read | the flag is cleared after the look at the FIFO (`:226`) |
| `WirelessSpin.cfg`, `WirelessTask` | `SendReturns` | `mesh.h:176`: can be called from different threads | a packet inside a critical section: the wireless task never blocks, and the sender never leaves it (`mesh.c:825`) |
| `UartOrder.cfg`, `UartTx` | `OldestFirst` | `uart_dev.cpp:64`: the oldest character is sent | a task without the semaphore overtakes the character another one holds (`:70`) |
| `UartFlush.cfg`, `UartTx` | `FlushReturns` | `uart_dev.cpp:65`: the interrupt empties the queue thereafter | a character put while the last one is being shifted out stays, and `flush()` waits for ever (`:68`) |
| `I2cBusError.cfg`, `MCI2cTransfer` | `CleanSuccessIsReal` | `i2c_base.hpp:183`: true if the transfer was successful | `busError` is 0x00 (`i2c_base.cpp:224`), stored as the error (`:357`) and compared with 0 (`:92`, `:102`): the call returns true with nothing moved |
| `I2cLate.cfg`, `MCI2cTransfer` | `SuccessIsReal` | the same, for transfers that no bus error ends | a polled transfer that times out returns true (`i2c_base.cpp:92`), and a late completion of one transfer is taken for that of the next (`:97`) |
| `I2cArbitration.cfg`, `MCI2cTransfer` | `TransferEnds` | `i2c_base.cpp:347`: the transaction still has to end | after a lost arbitration the interrupt's flag stays set (`:346`), it comes again for ever and no thread gets on |
| `FatOpen.cfg`, `MCFatVolume` | `NoCrossLink` | `ffconf.h:193`: no lock of open files is needed | with `_FS_LOCK 0` (`:189`) a file that is open twice, or removed while open, gives its clusters to two files |
| `StartupPeriod.cfg`, `MCStartup` | `NextServiceSoon` | `lpc_sys.cpp:193`: set up the next periodic interrupt | `MR1 += TC + 1000` adds the old match to the time: the next one is far away (`:194`) |

Also seen while modelling, and part of the properties as they stand: `sys_get_uptime_us()` is a whole
turn ahead in the last microsecond before a roll-over, which is counted on the match, and a turn
behind for a caller that holds off the interrupt (`UptimeExact` names both).

## 5. Proofs

TLAPS checks these for every value of the constants that the named assumptions admit.

**FatVolumeProofs** has two theorems, the second on top of the invariant of the first.

`FilesStayApart` (`NoCrossLink`; from `FatAssumption`, and if `Exclusive`): for any size of the
volume, sectors, tasks and files, any number of calls, power losses and errors of the disk. A call
computes its steps from what it sees, and the power can go after each; so the invariant `FatIInv` is about
the views the volume goes through: the steps of `todo` lead from the present view through sane
views to a sane one (`Pending`, `Runs`), and the disk is itself a sane one, because a write of
the window replaces it by the present view and nothing else changes its table or directory. A view
is sane (`Sane`) if no two clusters link to one, none to a free one, and a cluster where a file starts,
by its entry or by the object of a task that has it open, is in use, linked to by no other and belongs to
that one file (`Apart`). Each list of steps in `ff.c` has a lemma: `RemoveRuns` (the clusters freed so far are
the beginning of the chain, and the entry is gone before them), `CreateRuns` (a new cluster is
marked before it is linked), `SyncRuns`, `ReleaseRuns`. Two things need more than sane views: a rename
has two entries for one chain between its steps, perhaps on the disk too, but ends with a flush (`FlushLast`; if it is cut
short, `renameCut`, the property says nothing), and a seek
with clusters left has a first one (`SeekStarted`). That sane views keep chains apart is `ChainsDisjoint`,
an induction along two chains. Without `Exclusive` it is not so (`FatOpen.cfg`).

`SyncedStays` (`SyncedSurvives`; from `FatAssumption`, and if `Exclusive`): what `f_sync()` or
`f_close()` made permanent stays readable, for any size of sectors and disk, lengths of writes and
seeks, calls and faults. Its invariant `DataInv` comes on top of `FatIInv` and has three parts.
1. The steps of `todo` lead through safe volumes (`Follows`, `Leads`, `Safe`), to one where the call's
   file is fit for the next turn of its loop (`Ends`). In a safe volume there is a walk along the links of the
   table for each name, long enough for the size of the entry, whose clusters hold what is saved
   (`StoreOf`, `Holds`), and one for each open file, whose clusters hold its text but for the sector in
   its buffer (`Fine`); the text agrees with what is saved. A file at rest has its pointer, its current
   cluster and its buffer in one place of that walk (`Placed`, `Rest`); in the loop of a write the pointer may be
   beyond the size (`Writing`), in that of a seek the text lags behind (`Seeking`). No step takes what is
   saved from the walk it is on (`Kept`). One state is not safe: between the data of a whole sector and the
   step that sets the file's pointer, where the file may lag (`Lags`).
2. A text becomes saved only right after the window was written back (`SavedAfter`, `Settled`).
3. In the table of the disk there is the same walk as in the window's for every saved name
   (`StoredOf`). So the data can be read after a loss of power although the disk has older links: a walk
   that both tables have is enough, the rest of either chain does not matter.

Walks are compared, not chains: a link that is added (`LinkLeads`) makes a chain longer and leaves the
walk (`WalkKept`), clusters that are freed are on no walk of another file (`FreedCarries`, `WalksApart`),
and the chain that `Content` reads begins with any walk (`WalkInChain`). Each loop has a lemma for its turn
(`WholeTurn`, `PartTurn`, `InsideTurn`, `SeekNext`, `SeekEndLeads`), and each call one for its steps
(`SyncLeads`, `CreateOpen`, `ReleaseLeads`, `RenameLeads`).

**KernelProofs**: the theorems stand on each other's invariants, in this order.

`QueuesAreFifo` (from `LengthAssumption`, `ItemAssumption`, `ProgramsAssumption`): the refinement
`IsFifo` of `BoundedQueue`, for any tasks, priorities, queues, programs and widths of the tick. The
lemmas are about one ring (`ResetSound`, `BackAppends` and so on): after each of the operations on
its pointers, with their wrap-around, `S!Sound` holds and `S!Contents` is the sequence it should be.
The invariant `IInv` says that every queue's ring is sound; each step of the kernel then is one step
of one bounded queue or leaves all of them alone (`SameStores`), the folds over event lists
included, because they do not touch rings.

`ListsAlwaysAgree` (`ListsAgree`; with `TasksAssumption`, `IdleAssumption`, `NoTaskAssumption`,
`TickAssumption`): every task is in one list, ready at its own priority or delayed in the order of the wake
times, and the bit map and the next unblock time are those of the lists. `Sound(os)` is `ListsAgree`
and what each function of the scheduler needs of the others: every task is housed once, nobody is
twice in an event list, the idle task is ready, the pending list is empty unless the scheduler is
suspended. For each operator of `Scheduler` there is a lemma from `Sound` to `Sound`; between the
removal of a task and its insertion the lemmas speak of `Taken` (in no list) and `Loose` (the bit map
not yet brought up to date). The loops over event lists and pended ticks are folds (see below).
`TasksSane` and `QueuesSane` tie the scheduler to the calls: who is inside a call is not the idle
task, and the event lists hold tasks.

`NoWakeupLost` (`NoLostWakeup`): for any number of interrupts while a queue is locked. `WInv` adds
that a task in an event list is blocked and in the retry of a call on that queue (`Asleep`,
`Sleepers`); that at most the running task is between `SuspendAll` and `ResumeAll` (`OneWithin`) and
is ready (`RunnerReady`); that a call's local variables fit its place (`CallsSane`); and `Enough`, which
is the property with its count: items (or free places) less what the unlocking will announce are no
more than the woken tasks that are on their way to that queue. A step that adds an item adds a woken
task or finds the list empty or adds to the count of the lock; one that takes an item away takes
the task that was on its way for it, or leaves one item less to come for.

`MutexesAreCounted` (`MutexesCounted`, the part of `MutexesHeld` that holds of any program): `HeldSane`
says that `uxMutexesHeld` is the number of mutexes that name the task as holder, and that only a task
which holds one has a priority other than its own. That a priority is handed on along a chain of
mutexes is not so in this kernel: the last part of `MutexesHeld`, who inherits what, is only checked.

`HighestUnlessQuietDrop` (`HighestRuns`): when no switch is due, the running task has the highest
priority of those that are ready. It is not so of this kernel without a condition (`KernelSwitch.cfg`), and the theorem
says what the condition is: in no step is a mutex given back with a borrowed priority and without a switch
(`QuietDrop`). Everything else, tasks woken by tasks or by handlers that do not ask for a switch, time-outs,
ticks replayed and tasks made ready when the scheduler is resumed, a priority that is inherited,
asks for the switch when one is needed, for any programs. `HInv` adds to `WInv` that a switch is pending, or
remembered in `xYieldPending`, or no ready list above the running task's priority is in use (`Calm`), also
while the scheduler is suspended; each function of the scheduler has a lemma for that. For a tick it is that of
`IncrementTickSettled`: the tick's own result is false only when no task it woke outranks the running
one. `HighestWithoutMutexes` is the same without a condition for programs that use queues only.

**WirelessProofs** (from `WirelessAssumption`): `RadioHasOneUser` (`Exclusive`) and
`NoSleepOverSignal` (`SignalNoticed`).
The invariant: `g_locked` is set exactly in the sender's critical sections; while `mesh_service()`
is at work the wireless task has the processor and the sender is outside of them; an interrupt that
comes after the look at the line is in the semaphore. So the flag is enough because of the
priorities, and only because of them: a wireless task that did not have the higher one would break
the second part.

The same module proves `RoutesAreSane` (`RoutesSane`) about `Mesh` (from `MeshNodeAssumption`,
`MeshAssumption`): for any network, traffic, loss and table size, if nodes hear each other (`Symmetric`,
which the networks of `MCMesh` satisfy; over a link that works one way only a node would route to
one that does not hear it). The invariant `MeshInv` is about packets more than about tables: a
packet names its transmitter, a neighbour of whoever hears it, and has `hop > 0` unless that is its
origin (`Comes`, `Leaves`); so is every packet that is pending (`Held`), for it will be transmitted. Each
function of `mesh.c`, down to the entry of the table that is used again (`ForRoute`) and the halving of
the scores, has a lemma that it keeps a node so.

The third theorem about `Mesh` is `SendsAreBounded` (`SendsBounded`), from the same assumptions and
without `Symmetric`: for any network, table size, traffic, loss, time-outs and answers. Its hypothesis
`NumbersFresh` is about the history `sent`, which counts by sequence number: it says that no node has
transmitted a packet with number 0, which comes last of the `SeqRange` numbers, so each packet has a count of
its own. The invariant (`Counts`, `Bounded`) is a budget: what a pending packet has been transmitted
and what it may still be (`Left`: its retries and, while it has a route, once more to look for another
with the retries of that) are within the limit. It is inductive only together with three facts that
are easy to lose: no two slots hold the same number (`Distinct`), else one packet would have two
budgets; a packet of the node itself is never among those it keeps for others (`Foreign`), although a
packet can come back to its source; a slot given to a new packet in the same call is not served in it (`Due`).
A call is split into what it does before the pending packets (`Called`: at most one new number) and what
these do (`Served`: one transmission at most of each slot, paid from its budget).

`DiscoveriesAreMarked` (`DiscoveryMarked`) holds without any condition, which the code does not show:
the mark `disc_pkt` of a slot is only ever set (`mesh.c:354`), so a packet with a next hop that takes
over a marked slot is marked too. In the middle of a call the invariant therefore says less
(`Settles`): such a packet is the very one that came in, with its next hop filled in, and the look at the
pending packets in the same call clears the slot as if somebody else had repeated the packet. So a wrong
mark never outlives the call, at the price that this hop of the packet is not retried.

`DeliveredOnceWhileRemembered` (`DeliveredOnce`) assumes `[][~ Forgets]_vars`: no node overwrites an
entry of its history that is in use, and no node comes round to the number 0. Without it the
property is refuted (`MeshHistory.cfg`); no step of `Mesh.cfg` forgets, so there the condition
excludes nothing. The invariant `DeliverInv` speaks of a world `w` of all packets
sent so far: a packet on the air, in a slot or in a history has a number its source has used (`Known`,
`Waits`, `Seen`), and whether it was a broadcast depends on source and number only. The
last part is what it takes for broadcasts, which go to the application without a look at the history
(`HandleBroadcast`): they are never kept and repeated by a timer, so a second copy has the same retry
count and is dropped before (`BroadcastOnce`). A number is new when it is used (`OneHigher`), what
was known stays so (`Grows`), and everything heard has its key in the history (`HeardOnce`).

**UartTxProofs** (from `UartAssumption` and `Printer = Writer`): `PrintfSendsInOrder`, the driver
implements `CharLink`, and `RegisterHasRoom` (`ThrHasRoom`): whoever writes the register finds room in the
FIFO, the task because nothing can have been written since its test, the interrupt because it comes
when the FIFO is empty and counts to its size. The invariant: one task is inside `printf()` and only it
can hold a character or have a test of the line status behind it; after a test that found the
transmitter idle it stays idle until that task writes; when the interrupt is pending the FIFO is
empty, so up to a FIFO of characters fit. Each step maps to a step of `CharLink` (`Enqueue` to
`Accept`, `Sent` to `Transmit`) or leaves its variables alone; the lemmas about `First`, `Rest` and
concatenation carry that.

**FileLoggerProofs** (from `BuffersAssumption`, `LengthAssumption`): `PoolConserved`. The invariant
says pair by pair that no two of the places where a buffer can be (empty queue, write queue, a
caller, the logger) hold the same one and that no queue holds one twice (`Distinct`), and that each
buffer is in some place (`Somewhere`); the cardinality of `BuffersConserved` follows from both.
`LogIsInOrder`: the logger implements `LogFile` (`WritesInOrder`). What waits is the cache and then the
messages of the write queue, a fold over it (`PendingOf`); lemmas say how the fold changes when a buffer
joins or leaves the queue, and that the text of a buffer elsewhere does not matter. `Written` adds that
a buffer which is handed over has a message in it, that the cache has room, and that nothing waits
before the kernel runs. Then handing over is `LogFile`'s step, writing out (in parts, at the cut that `Rest`
makes) its other one, and an error leaves out what waited.

**I2cTransferProofs** (from `ThreadAssumption`, `RequestAssumption`): `CleanTransfersAreExact`. The
invariant says, for the transfer that began clean and by the status of the bus, where the transaction is
(`AtStart`, `AtAddressed`, `AtAcked`, `AtRepeat`, `AtData` and so on): what the device last heard, how many bytes are
copied and left, and what the interrupt has put into the data register. A lost arbitration leaves a call
that only times out; a refused byte ends in an error; a bus error is excluded, for the code takes its
status for success (`I2cBusError.cfg`); a transfer that times out leaves a signal
or a busy bus behind, and whoever begins then does not begin clean.

**CanAndTasksProofs** has the proofs of two components that have nothing to do with each other.

For the CAN driver (from `LengthAssumption`, `FreeAssumption`): `QueueIsServed`, `NothingSentTwice`,
`ReceptionAccountsForAll`. For sending, the invariant adds that a message is in one place at most
(`OnePlace`) and that a message which has a place, or has failed, belongs to a call that was made,
one still to be queued to a call under way without one (`Accounted`). For receiving, the property is
inductive by itself with the types, once queue, controller and what was received are seen as one
sequence.

For the two tasks (from `PCAssumption`, `LagAssumption`): `ConsumerNotStranded`,
`SendFindsRoom`, `SamplesInOrder`, `ProducerConsumerTypes` (the handles stay within the heap and no
queue ever holds more than one sample), `OneSampleLost`. The properties are not
inductive. `IInv` adds that a queue is
empty or holds the one sample of its own turn (`QueuesCarryOneSample`), that what the consumer took
is gone from its queue and its handle is never ahead of `qh` (`ConsumerHandles`), and the timing
fact that carries the argument: a consumer that has taken the newest sample is asleep, and has at
least as long to sleep as the producer can still be held up before it makes the next queue
(`ConsumerSleepsOut`: `Delay <= sleep[2] + lag[1]`). With `MaxLag < Delay` the next queue exists
before the consumer reads the handle again. `OneSampleLost` needs more, and says so:
`2 * MaxLag < Delay`. Its invariant `ConsumerKeepsUp` adds up what each side has left of its turn
(`ToCreate` and `ToLoad`: sleep plus the lag that is still allowed): a consumer that is one sample behind comes to
read the handle before the producer has replaced it once more. The bound is tight (section 3).

**StartupProofs** (from `TaskStartAssumption`, `WirelessFirst`, `SystemTimerAssumption`): `GateHolds`,
`MeshServicedByOne` and `UptimeIsExact`.
The gate: before the kernel runs no task has moved; it runs only if nothing failed; the semaphore
is given, or a task is beyond the gate, only when every `taskEntry()` returned true. The mesh: a
task that is in `mesh_service()` is beyond the gate, so the kernel has not been "ended"; it is
the most urgent one, so nobody else runs and suspends the scheduler meanwhile; so the interrupt
sees a running kernel. `WirelessFirst` is `main.cpp`'s priority CRITICAL; without it the second
theorem is false. The time (`UptimeExact`): `TimeInv` says that the count of rollovers, with the match
that the interrupt has yet to see or serves, is the number of times the timer has come to its last
value (`Counted`), and that a count which was read is that of some moment since `TC` was read,
or one less when the reader itself holds the interrupt off (`Between`); a second reading of `TC` that is not
smaller then leaves one turn to choose from. The assumption that no reading takes a whole turn is in the
model's `Tick`.

*Folds.* The community modules' folds are recursive functions, whose existence and value take an
induction. The provers cannot instantiate the library's induction theorems, but a set of numbers without
a least one is empty (`WFMin`, `NatLessThanWellFounded`), and with that `Induct`, `IterExists` and
`RecursIn` are proved in the modules that need them: a fold stays in any set that
its step stays in. So the loops over lists, the queue of the logger and the filters of packets are proved
about; where the value of a fold matters (`PendingOf`) its equation is proved too. The chain of a file
(`Chain`) is a recursive function of its own and is treated in the same way (`FatInduct`, `WalkExists`,
`ChainWhole`).

Only model-checked, and why:

- `HighestRuns` without the condition of `HighestUnlessQuietDrop` does not hold of any program
  (`KernelSwitch.cfg`), only of those the run has.
- `TimeoutsExact` is not so for every environment: `Elapsed` is modulo the width of the tick, so a task
  kept from running for a whole turn of it forgets one.
- `MutexesHeld`'s last part, see `MutexesAreCounted`.
- `DeliveredOnce` without the condition of `DeliveredOnceWhileRemembered` is refuted
  (`MeshHistory.cfg`), and so is `AckedWasDelivered` for other traffic (`MeshLateAnswer.cfg`).
- `RoutesAreWays` beyond what `RoutesAreSane` says of the first hop: it would take the walk of
  every packet on the air and in every slot into the invariant.
- All liveness (`ReceiveReturns`, `Quiesces`, `PacketsRead`, `SendReturnsUndisturbed`, `StartDrains`,
  `LogReturns`, `QueueEmpties`, `TransferReturns`) is beyond the prover.

## 6. Not modelled

- *Of the modelled parts:* the mesh's statistics, its set-up through the terminal and the test
  file `mesh_test.c.inc`; `g_rx_queue` and `g_ack_queue` behind the mesh; the UART's receive side,
  scanning, formatting and baud rate, and output before the kernel runs; the producer's
  classification of the accelerometer's values, an input of the model; creation of tasks and queues
  while the kernel runs, queue sets, recursive mutexes and event groups; CAN filters, FullCAN and
  bus-off; I2C set-up and a disabled bus; reading files, sub-directories, names, FAT12 and FAT32,
  formatting; the logger's counters; the scheduler's telemetry, statistics and shared objects.
- *Left out:* register set-up (timers, PWM, ADC, SPI, the radio's registers, clocks), sensors and
  LEDs, which have no protocol between calls; containers, strings, telemetry and the command
  parser, sequential code that unit tests reach; the periodic dispatcher, which `main.cpp` has
  commented out; the mesh stream, whose one hard part, late answers, is the mesh's; alarms,
  software timers, and the earlier exercises, which this firmware does not start; newlib and
  the CAN code generator, which are not this program.
- *Why the share of lines is small.* Most lines of the repository are headers and comments of FreeRTOS,
  CMSIS register definitions, character tables and printing code. The kernel and the file system
  are modelled where the firmware reaches them.
- *Hazards seen and not followed up:* the route entry that is read after the lock was released
  (`mesh.c:1020`); a packet put over a discovery packet in the same call loses its retries on this hop
  (`mesh.c:354`, modelled; the source still retries); after an error of the disk a second `f_sync()`
  returns `FR_OK` without writing anything (`ff.c:2805`, modelled; the caller was told of the first
  error); characters dropped without a count when the receive queue is full
  (`uart_dev.cpp:169`); a log message printed after its buffer was handed over (`file_logger.c:469`) and
  call counters without a lock (`:464`); a CAN message that finds the buffer free overtakes the ones
  in the queue (`can.c:426`); the overrun of a period attributed to whoever runs
  (`prd_dispatcher.cpp:108`); a late answer in the mesh stream (`nrf_stream.cpp:96`).

## 7. Plan

1. Done: `ProducerConsumer`, `Kernel`, `MeshNode`/`Mesh`, `WirelessTask`, `CharLink`/`UartTx`,
   `LogFile`/`FileLogger`, `CanDriver`, `I2cTransfer`, `FatVolume`, `Startup`; the proofs of section 5.
2. Proofs next: a condition on the traffic under which `AckedWasDelivered` can be proved.
3. Models next: the UART's receive side with its queue at the limit; the rx and ack queues behind the
   mesh; `f_read` and sub-directories; CAN's bus-off.
