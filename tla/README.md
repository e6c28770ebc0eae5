# Verification of the SmartApp ZigBee firmware (Z-Stack 2.5.2, CC2530, RS-485)

The repository is the firmware of a small ZigBee network that extends an RS-485
bus: a coordinator (`ConnectorApp.c`) sits on the UART of an RS-485 master,
routers and end devices (`EndnodeApp.c`) sit on the far side of the air and
switch relays. It runs on TI's OSAL, a cooperative task system for one 8051
core, and on TI's ZigBee stack.

This directory holds TLA+ models of the parts that carry the program's own
logic, model-checked with TLC on small instances, and TLAPS proofs of the
properties that matter most for instances of every size. Paths below are
relative to `src/ZStack-Smart-2.5.2b/`; `App/` stands for
`Projects/zstack/Applications/SmartApp/Source/`.

## 1. Inventory

| Component | State | Operations | What is hard, what makes it correct |
|---|---|---|---|
| **OSAL tasks** `Components/osal/common/OSAL.c` | `tasksEvents[]`, the message list `osal_qHead`, a header per buffer | set event; allocate, send, receive, deallocate message; main loop `osal_run_system` | interrupts (nested: `HAL_ENTER_ISR` enables them again) call the API between any two critical sections. No message without a wake-up, no lost flag, one owner per buffer, FIFO per task, no starvation but by higher-priority tasks |
| **OSAL timers** `OSAL_Timers.c`, `OSAL_Clock.c` | the list at `timerHead` | start, start reload, stop; `osalTimerUpdate` once per pass | the walk leaves its critical section between records while interrupts append. The list stays sound, every timer expires once, accuracy does not drift |
| **User events** `App/Manage/Callbacks/api_events.c` | `puser_event` list, `userevent_map` cache, one OSAL timer per event | set, update, fire (`process_event`) | lazy deletion, cached pointers, counts with a resident bit, callbacks that set events while the list is walked. Periodic events live for ever |
| **RS-485 bridge** `App/Manage/list.c`, `frame-analysis.c`, `HeartBeat.c`, `ConnectorApp.c`, `EndnodeApp.c` | coordinator: table RS-485 address -> network address; node: `Address_dev` in RAM and NV, `Device_state` | heart beat, route a command, broadcast, control, change address | lost, reordered, misrouted frames, resets between RAM and NV, changing network addresses |
| **Application task** `App/Common/CommonApp.c` | network state, permit flag, power-on counter in NV | message dispatch, permit join, power-on factory setting | order of messages and events, quick power cycles |
| **Commissioning** `Components/stack/zdo/ZDApp.c`, `ZDObject.c`, `sys/ZGlobals.c`, `CommonApp.c` | `devState`, `devStartMode`, `retryCnt`, the flags and timers of ZDApp; in NV the hold item, the start-up option, network, key, leave request | start, discovery, join, authentication, resume, rejoin, leave, reset; saving of network and key; notification of the application; factory keys | several NV writes that belong together, power failures between them, timers of the old state that fire in the new one. A device comes back alone and with its key, forgets its network only when told to, and settles |
| **Demo base devices** `App/Device/DemoBase_DeviceDataCtrl.c` | `optData`, card and buzzer state | periodic queries, set and get | a buffer shared by callbacks and messages |
| **Serial communication** `App/Manage/serial-comm.c`, `Components/hal/target/CC2530EB/_hal_uart_dma.c`, `hal_dma.c` | two transmit buffers, a receive ring, the DMA channels, the idle timer | write, poll, transfer-done interrupt, receive callback | main loop, DMA engine and interrupt work on one structure; time is a byte that wraps. No byte lost, doubled or overwritten, frames cut at silence only, everything is sent in the end |
| **Codecs** `App/Manage/incode/`, CRC | none | pure functions | widths and boundaries |
| **OSAL heap** `OSAL_Memory.c` | block headers, `ff1`, `osalMemStat` | allocate, free, kick | merging only while searching, two regions, a shortcut to the first free block. No overlap, no block that can never be found again, no refusal while there is room |
| **OSAL NV** `osal/mcu/cc2530/OSAL_Nv.c` | flash pages with their marks, item headers, `pgOff`, `pgLost`, `pgRes`, the hot-item cache | item init, read, write, delete, compaction, `initNV` | power loss between any two flash operations and in an erase, writes that fail. Writes are all or nothing, a reserve page is always left, the counts promise no room that is not there |
| **The rest of the stack, MAC, HAL, MT, ZCL** | | | vendor code; modelled only from how the application uses it |

Interaction: interrupt service routines and the HAL poll post events, messages
and timers to OSAL; the main loop dispatches to the tasks in order of priority;
the stack sends `ZDO_STATE_CHANGE` and `AF_INCOMING_MSG_CMD` messages to the
application task, whose remaining events go to `process_event`; user events
start OSAL timers, which raise the application's events again; heart-beat
callbacks send frames that fill the coordinator's table. Frames of the RS-485
master come in through the receive ring of the UART driver, whose poll runs in
every pass of the main loop (`hal_ProcessPoll`), and answers go out through its
transmit buffers. Messages, timer records, events and table rows are blocks of
the OSAL heap; RS-485 addresses and the network's own state are NV items.

The hazards of each component, at their lines, are listed in `PROJECT.json`.

## 2. Modules

| Module | What it is |
|---|---|
| `OsalTasks` | `OSAL.c`: one action per API call and critical section, one per step of `osal_run_system` |
| `TaskMailbox` | abstract: one FIFO mailbox per task |
| `MCOsalTasks` | TLC instance |
| `OsalTasks_proofs` | inductive invariant, theorems and refinement of `OsalTasks` |
| `OsalTimers` | `OSAL_Timers.c`: the list as memory, the walk in its steps |
| `TimerService` | abstract: a timer runs, expires once or reloads, is stopped |
| `MCOsalTimers` | TLC definitions |
| `OsalTimers_proofs` | inductive invariant, theorems and refinement of `OsalTimers` |
| `UserEvents` | `api_events.c` and its users |
| `MCUserEvents` | TLC definitions |
| `UserEvents_proofs` | inductive invariant and theorems of `UserEvents` |
| `Rs485Network` | coordinator table, nodes and the frames between them |
| `MCRs485Network` | TLC definitions |
| `Rs485Network_proofs` | inductive invariant and theorems of `Rs485Network` |
| `OsalNv` | `OSAL_Nv.c`: one action per flash operation |
| `NvStore` | abstract: a store whose writes are all or nothing, with power loss |
| `MCOsalNv` | TLC definitions |
| `OsalNv_proofs` | inductive invariant and theorems of `OsalNv` |
| `OsalMemory` | `OSAL_Memory.c`: one action per call, the walk over the headers inside |
| `HeapSpace` | abstract: disjoint stretches of memory |
| `MCOsalMemory` | TLC instance |
| `OsalMemory_proofs` | inductive invariant, theorems and refinement of `OsalMemory` |
| `UartDma` | `_hal_uart_dma.c` and the receive callback of `serial-comm.c` |
| `MCUartDma` | TLC instance |
| `UartDma_proofs` | inductive invariant and theorems of `UartDma` |
| `StartUp` | `ZDApp.c` of routers and end devices, the start-up options, and the application's keys and power-on counter |
| `MCStartUp` | TLC instance |
| `StartUp_proofs` | inductive invariant and theorems of `StartUp` |

### OsalTasks

Thread 0 is the main loop, threads 1 to `NIsr` are interrupt priorities; only
the highest running one takes steps (`CanRun`). A critical section is one
action, so `osal_msg_send` is three (`osal_msg_send`, `osal_msg_enqueue`,
`SignalTask`) with interrupts in between, and `osal_msg_receive` is one. The
main loop scans (`ScanReady`, `ScanNext`, `ScanEnd`), takes the flags
(`TakeEvents`), runs a handler, which may do any API call and must receive once
if it handles `SYS_EVENT_MSG`, and puts back what the handler returns. `hold`
is not a variable of the code: it is the set of buffers a thread has a pointer
to, so that a use after the hand-over can be expressed. The contract in the
header of `osal_msg_receive`, that a task frees or sends on what it receives, is
the guard `Settled`.

### OsalTimers

The list is the code's: `timerHead`, `next`, records, and the cursors of the
walk; the heap is a set of blocks. `Visit` is one critical section of the walk,
`Signal` and `FreeRecord` follow it outside. A start by an interrupt
(`IsrTimer`, the key's debounce timer) may come between any two of them; the
other timers are started and stopped by tasks. `want` and `age` are history:
what was asked for and how much time has passed, so that accuracy can be stated.
A timer may expire early: the time that passed before its start, since the last
pass, is deducted from it as well. That is one pass of the main loop at most, and
two for a timer that an interrupt starts while the walk goes on (`EarlyBy`).
`CountsRealTime` says that this error does not grow; `ExpiresOnTime` bounds how early
and how late an expiry is, and says that its event is raised. `TimerService` says
nothing of time.

### UserEvents

The memory of `api_events.c` is the record `ue`; each C function is an operator
from a record to the set of records it may leave. Events are driven by the real
users: the key, the state changes of the stack, the RFID and sensor boards, the
power-on event. Time is abstract, a running timer may expire at any moment. The
behaviour of a NULL pointer that is read (`Query_User_Event` on an empty list)
is a choice: address 0 of XDATA holds data, so the comparison there may succeed
(`WILD`) or fail. Allocations are not checked in the source; `EnoughBlocks` says that the
heap has a block for each event of the image, so that none of them fails here (the hazard
is listed).

### Rs485Network

The coordinator's list is the sequence `list`; a node has its network address
(`short`), the copy it reports (`nwkAddr`), `Address_dev` and its NV item. The
air is a set of frames. `rs485_changeAddr` is two actions, RAM and NV, with a
reset possible between them. 0 (`Zero`) is an address like any other, since
`rs485_changeAddr` takes any byte, and it is also what `Address_dev` holds from a
reset until the first state change: a node that has not read its address obeys
what names 0. `CommandsObeyedByOwner` allows that and nothing else. The stack (joining, rejoining with another address,
delivery, loss) is external. The query commands are left out: they answer the
master and change nothing.

### OsalNv

`flash` is what survives a reset; `pgOff`, `pgLost`, `pgRes` and `hot` are the
RAM that `initNV` rebuilds. A call is a chain of flash operations: `pc` names the
next one and `job` holds the call's arguments and locals, so that `PowerLoss` may
strike before each of them. The order is the code's: header, mark on the old
copy, data, checksum, then the cleanup of a compacted page, and last the old copy
is zeroed. Compaction (`MarkPage`, `CompactItem`, `CopyHeader`, `CopyData`,
`CopyChk`) and recovery (`BootScan`, `BootSettle`, `ScanItem`, `ScanEnd`,
`PickReserve`) are likewise one action per flash operation or per item looked at.

Two things can go wrong besides power loss. A write that the code reads back
(header, data, checksum) may fail and leave its words erased; the marks, which
are not read back, take. An erase may be cut off, with one of the two outcomes
that the comments of `initNV` name: the page header reads as erased, or only the
mark of the compaction is gone. The data of an item is one uniform step (its words
are not told apart), writes are of whole items, items that are deleted are not
hot ones, and `osal_nv_read` is judged once `osal_nv_item_init` has opened the
item, as its callers must. The test for an unclean reserve page and the break on a
full target in `compactPage` are left out: `OneReserve` and `RoomIsThere` show that
they never bite (`PagesSound` checks both).

The refinement maps an item to the value that a reset would bring back
(`Survivor`) and the call in progress to its value. `NvStore` then says that each
step leaves every item alone or replaces the one being written by its new value. Once a
flash write has failed it says only that a guarded write, one that starts from a complete old
copy with no other page left half compacted, takes no item away; section 3 has what may
happen otherwise.

### OsalMemory

`mem` holds the headers by address, in units of a header. A call is one action, since
the code runs it in a critical section; the walk of `osal_mem_alloc` is the
recursive function in `Walk`, one `WalkStep` per header, with the merging of free
neighbours on the way. `asked` and `last` are history: what was asked for. Frees
are of blocks that were handed out; a second free of the same block is outside the
contract. The kick comes once, at any time.

### UartDma

One action per critical section of the main loop (`HalUARTWrite` and
`HalUARTWriteDone`; the poll is `TxPoll`, with `Fire`, `Rekick` or `Pass`, on the
transmit side and `RxPoll` and `RxCount` on the receive side), one for the
interrupt (`DmaIsr`), and one each for the two DMA channels (`DmaByte`, `RxByte`).
Time is counted in characters; the driver sees it only through `txLapse` and
`rxLapse`, differences of the low byte of the sleep timer that wrap at `Wrap`.
Bytes are numbers, so that order can be stated. The two halves share nothing but
the poll and the clock, so a behaviour follows one of them (`lane`). Suspend and
resume are left out (`POWER_SAVING` is off), and writes are of one byte or more.

### StartUp

`nv` holds the six NV items of the story: the hold item, the bit of the start-up option
that asks for the default network state, whether a network and a key are stored, the leave
request, and the power-on counter. `zdo` is the RAM of ZDApp, `app` that of the application;
`msgs` and `app.msg` are their queues. A handler runs to its end in the main loop, so it is
one action that computes the new RAM and leaves in `todo` the NV writes it still has to
do, in the code's order; `FlashStep` does the next one, and `PowerLoss` or `WatchdogReset`
may come before each. That a single write is all or nothing is what `NvStore` promises.
While `todo` is not empty no other handler runs (`Ready`). `Serves` is the order in which
`ZDApp_event_loop` looks at its flags; ZDApp comes before the application in `tasksArr`,
hence `AppTurn`. A handler that enables the watchdog goes on for up to a second: `wdt`
says that the reset is on its way, and everything may happen until then.

The network layer is a binary library and external: a request of ZDApp is `asked`, and is
confirmed with success while the network is in reach (`up`). A resuming router needs no
answer from the air: `ZDO_StartDevice` makes the scan up. `trouble` counts what may go
wrong outside: an outage, a lost parent, a leave request, a factory key, an address conflict, a request
that is refused, a message that finds no memory, a key that comes too late. The ten
seconds that an unauthenticated device waits count as trouble when they run out in reach
of the network. `lives` is history: starts since the application recorded a connection.
The coordinator's own start, which has no key to wait for and no parent to lose, is left
out, and so are the contents of network and key. `retryCnt` never exceeds 1.

Three simplifications. `role` is constant: every network that can be heard has the stack
profile of the image, while `ZDApp_NodeProfileSync` (`ZDApp.c:1086`, 2852-2863) makes a router
an end device when it joins a network of another one. `zdoDiscCounter` stops where it
counts as enough; the code's `uint8` starts again after 255 scans that found nothing, which
puts the join off but does not change what can happen. And the binary library is assumed to
ask for a save of the network (`ZDApp_NwkStateUpdateCB`) in a connected device only;
`NoKeylessResume` rests on that.

## 3. Runs

| Run | Shows | Bounds |
|---|---|---|
| `OsalTasks_system` | types, wake-ups, queue and ownership, event flags; refinement of `TaskMailbox`; a message is received unless higher tasks are flagged for ever | 2 tasks, 1 interrupt priority (the proofs cover nesting), 3 buffers, so that a task can have two messages with another task's in between |
| `OsalTimers_service` | list with one live record per timer, no growing error, expiry on time, refinement of `TimerService` | 2 timers, one started by an interrupt and one that reloads; 3 records, so that a stopped record, its successor and the other timer fill the heap; timeout 3 ms, up to 2 ms per pass, so that a timer lasts longer than a pass and less than two |
| `UserEvents_devices` | the event list of each role, and liveness of its events | all the events of the image, one block more than events |
| `UserEvents_permit` | finding: `process_event` does not return | coordinator |
| `Rs485_safety` | table, durable addresses, commands obeyed by their owner | 2 nodes, a network address that passes from one to the other, 3 RS-485 addresses (broadcast, factory, 0), 2 frames in the air (so they overtake) |
| `Rs485_converge` | the table becomes right when things are quiet | 2 nodes, 2 network addresses, the RS-485 addresses 0 and factory, 1 frame in the air |
| `OsalNv_crash` | refinement of `NvStore`, reads, reserve page, room, no item lost in a write that fails, under power loss, cut-off erases and a failed write | 3 pages of 6 words, items of 2 and 3 words (one of them hot), 2 values, 1 failed write, any number of resets |
| `OsalNv_erase` | finding: recovery erases a live item | pages of 7 words, no failed write |
| `OsalMemory_heap` | nothing lost, nothing handed out twice, no refusal while there is room; refinement of `HeapSpace` | 16 units, bucket of 6, requests of 1, 2 and 5 units: two that fit the bucket and one that does not |
| `UartDma_link` | order of bytes, exclusion of the interrupt, no overwritten byte, no early cut, liveness | transmit buffers of 3 bytes, a ring of 7; the sleep timer wraps at 5 and transmit polls may be 7 late, so that it does wrap; receive polls up to 3 late |
| `UartDma_restamp` | finding: a pending transfer is put off for ever | as above, with polls at least once per character |
| `StartUp_life` | the application learns the last state; a connected device comes back alone; no resume without a key; the counter forgets late only; the device settles | router or end device, 2 power failures, 2 troubles, 1 extra scan, counter limit 1 |

Two of everything that competes is where the interesting cases are: two nodes
exchange network addresses or share an RS-485 address, two messages for one task
make `osal_msg_receive` signal itself, a page to compact needs another page and the
reserve. The proofs remove these bounds for the properties they state (section 4).

`OsalNv_crash` uses pages in which the two items fill every word: a page that is
compacted there has no unwritten tail, so that the problem of finding 2 cannot occur;
`OsalNv_erase` has one word more. The constants of `UartDma` are the board's (9600
baud, one character 35 ticks, buffers of 128, threshold 64, idle time 198, reads of 80
bytes, frames of 64, a byte wrapping at 256) scaled down with their order kept,
except that the real idle time is about six characters.

In `StartUp_life` two power failures reach the factory setting with the counter's limit 1
(two short lives in a row), or cut one sequence of writes and then the restart that
follows; two troubles are enough to be lost from the network and to lose it again while
rejoining. It does not check for deadlock because a held device waits for its user.

`UserEvents_devices` and `UserEvents_permit` do not check for deadlock because the
image really stops there: `process_event` that never returns is the status `stuck`, a
pointer that went wild is `wild`. No run asks whether coordinator and router avoid
them (`EndDeviceGoesOn` asks it of the end device): they do not. The
coordinator and the router query an empty event list at start-up (`api_events.c:188`,
called from `CommonApp_InitConfirm`), and a key press sequence gets them stuck
(finding 1).

That a timer expires at all is part of `CountsRealTime`: what a record has counted
keeps up with the time that passes but for what the walk has yet to bring to it, and a
record never counts more than its timeout.

### Fairness

- `OsalTasks`: strong fairness of the main loop's own steps, because interrupts
  disable it again and again; interrupts come to an end infinitely often, and so do
  event processors and the polling of the drivers (stated as `[]<>` of the states in
  which they are over). Nothing is assumed about callers: flags may be raised and
  messages sent for ever or not at all.
- `UserEvents`: timers expire, and each raised event has its turn. The latter is
  an assumption about time: the periods are 500 ms and more and a pass of the
  main loop takes far less, so that an event at the head of the list does not
  shadow the others for ever. `process_event` itself serves the first match only.
- `Rs485Network`: of heart beats with the same contents that are sent for ever,
  one arrives; frames do not stay in the air for ever; the applications process
  their messages.
- `UartDma`: the loop goes round, the clock runs, the DMA engine moves bytes and the
  interrupt is taken. The clock has strong fairness only because a tick is not taken
  in the middle of a receive poll. `TxMaxGap` and `RxMaxGap` bound how late the loop
  may be; they are no promise of the code. Nobody is obliged to write or send.
- `StartUp`: weak fairness of each handler, of the NV writes and of the watchdog (the
  main loop goes round), of the expiry of timers, of the answers of the network layer and of
  the trust center's key, and an outage ends. Nothing is assumed about the user. Power
  failures and troubles end because they are bounded: `Settles` is about what follows them.
- `OsalTimers`, `OsalNv` and `OsalMemory` state safety only.

### Findings

1. `UserEvents_permit`. `process_event` ends in a call of itself with the same
   arguments (`App/Manage/Callbacks/api_events.c:376`, under the comment "Discard
   unknown events"). The key reaches it: permit joining, forbid it within 30 seconds.
   The forbid overwrites the event with count 0, and `set_app_event`, which does
   nothing for count 0, leaves the OSAL timer running. Its flag then has no live
   entry.
2. `OsalNv_erase`. If a cut-off erase leaves a page without its compaction mark but with
   its items, `initNV` finds neither a reserve page nor a pending one. It zeroes the
   duplicates and then looks for a page that has lost all its words, which the page
   in question need not have (an unwritten tail is not lost), and falls back to the
   page with the most lost words (line 338): that may be another one, with live items.
3. `UartDma_restamp`. With bytes queued behind a finished transfer, the else branch of
   the poll (`_hal_uart_dma.c:722`) calls `HalUARTIsrDMA` in each pass, and each call
   takes the time of the last transfer anew. A loop that passes at least once per character
   time never starts the transfer. `QueuedIsSentBySlowPolls` shows that it is enough
   to be away for longer than a character now and then.

Smaller things that the modelling met:

- The receive shadow is not taken again when bytes arrive while the idle timer runs, so
  that polls that are several characters late cut a frame early (`FramesKeptUnlessLate`
  says when they cannot).
- `RS485_Analysis` compares the head of a command with `Address_dev`, which is 0 until the
  first state change reads it from NV, under the comment "decide whether it is a command for
  this device" (`App/Device/EndnodeApp.c:180`, in Chinese). A device may have been given the
  address 0, and a command for it may come to another node that has just joined under the
  network address it had: that node switches its relays. `CommandsObeyedByOwner` states
  this exception and shows that there is no other.
- A write whose data or checksum fails returns `NV_OPER_FAILED` but leaves its header in the
  page; `findItem` (`OSAL_Nv.c:659`) prefers it to the old copy, which is marked as
  transferred, and does not look at checksums. Until the next reset reads return the
  incomplete data, against the comment of `compactPage` (lines 522-523), and the same write
  repeated after a failed checksum returns success without writing; after the reset the old
  value is back. `ReadsStoredUntilFault` therefore promises nothing after a failed write,
  and `ImplementsStore` no more than that a guarded write loses no item; `PagesSound` holds.
- That reset may come too late. The next write of the item starts from the incomplete copy
  and derives the checksum it expects from that copy's, which was never written, so it fails
  as well. If it has to compact the page with the old copy, `compactPage` skips that copy (it
  has the id being written), and the abort for this case (line 1388) compares the compacted
  page with the page of the source, which is now the incomplete copy's. The page is erased,
  and the item has no good copy left. One failed flash write is enough. A write is
  `guarded` only if its old copy is complete because of this.
- A call whose compaction fails leaves its page marked. When a later call compacts another page
  and power is lost before the end of its erase, recovery may find two pages to settle; it
  takes the last one for the reserve and does not copy from it. Hence the other condition of
  `guarded`: no page that an earlier call left marked.
- `retryCnt` never exceeds 1 (`TypeOK` of `StartUp`): the first failure of a resume changes
  the mode to rejoin, in which failures are not counted. The normal join "after certain times of
  rejoin retries" (`ZDApp.c:1524`) is never reached: a device whose parent's network is gone
  rejoins until its user resets it.
- Between `WatchDogEnable` and the reset the program runs on. A network save that is
  pending clears the start-up option that the factory key just set, and a state change of a
  connected device writes the hold item again: the reset then does not forget the network.
  `ComesBackAlone` excepts that second. No run asks for the converse.

## 4. Proofs

`OsalTasks_proofs` (any number of tasks, priorities, buffers and flags). The
inductive invariant joins the type invariant, `NoLostWakeup`, `QueueSound` and
`OneOwner` with what they rest on. `SendAgrees`: a thread inside
`osal_msg_send` has a buffer and a task, and the buffer is its own until it is
linked. `HeaderAgrees`: the header of an allocated buffer names a task just when
the buffer is in the queue or about to be linked; without it, the header test of
`osal_msg_deallocate` would not protect a queued buffer. `IsrAtRest`: a priority
that is not being served holds nothing. Theorems: `TypeCorrect`,
`NoStrandedMessage`, `QueueIsSound`, `BuffersHaveOneOwner` and, as an action
property, `FlagsAreNotLost`. `QueueIsFifoPerTask` is the refinement of `TaskMailbox`: a task's
mailbox is the subsequence of the one queue that is addressed to it, so linking a buffer
at the end appends to one mailbox, and unlinking the first buffer of a task takes the head
of one. That the filtered sequence behaves so is shown by induction on its length. Assumed of the constants (`ConstantsAssumption`):
there is a task, `SYS_EVENT_MSG` is a flag of its own, `NULL` is no buffer.

`OsalTimers_proofs` (any number of timers and records, any timeouts, any lateness of the
loop). The properties speak of the list as it is reached from `timerHead`. The proofs
follow a path, a function from the naturals to records that stays at `NULL` once it is
there; a step of the code changes one place of it, and a finite set of blocks bounds its
length (`PathLaw`). The inductive invariant joins the types, `Linked` (the list ends, meets no
record twice, holds the allocated records but the one being freed, and the cursors stand on
neighbours), `OneRecord`, `Cursors`, `Unused` (a free block is blank, so that appending it
ends the list) and `CountsRealTime`. Theorems: `TypeCorrect`, `ListAlwaysSound`,
`TimersCountRealTime`, the action property `TimersExpireOnTime` (an expiring record has
counted its whole timeout, so `CountsRealTime` before the visit bounds its age) and
`TimersImplementService`, the refinement of `TimerService`. Assumed of
the constants (`TimersAssumption`): finitely many blocks, positive timeouts, `NULL` is no
block and `NoTimer` no timer.

`UserEvents_proofs` (any boards, any number of blocks that is enough). `Good` says that the
list holds the allocated blocks once each, an event has one block, `userevent_map` leads to
that block or nowhere, and an entry with a count left has a timer or a flag; the last but
for the blocks of a set, because `process_event` clears a flag before it starts the event
again. `Good` also bounds the durations by that of the heart beat: the list is not sorted
any more once an update has changed a duration in place, but the walk for the heart beat still
meets every entry, so that it is listed once. `Lasting` is the argument for the end
device: whatever has a timer or a flag has an entry that `process_event` stops at,
since every entry is resident but the power-on counter's, and that one never has a timer and a
flag together. Lists are shortened by a recursive function (`Without`); what it returns
is shown by induction on the length. Theorems: `TypeCorrect`, `ListAlwaysSound` and
`EndDeviceAlwaysGoesOn`. Assumed: `EnoughBlocks`.

`OsalMemory_proofs` (any size of heap, bucket and requests). `IsHeap` says that the headers
tile the heap and keep the bucket apart; with it the invariant has `NothingIsLost`, what
`ff1` points to, and `Owned`, that a block handed out is in use and as long as was asked.
The walk of `osal_mem_alloc` is a recursive function of the number of headers passed;
`Walking` is its loop invariant (the headers are those of the heap with free neighbours
merged, and no stretch seen so far had room), shown by induction over its steps, with the
distance to the end of the heap as the reason why it ends. Theorems: `TypeCorrect`,
`RoomAlwaysUsed` (an action property) and `HeapImplementsSpace`, the refinement of
`HeapSpace`. Assumed of the constants (`HeapAssumption`): each of the two regions has room for
a block, and a block is longer than a header.

`Rs485Network_proofs` (any number of nodes, addresses and frames). The strengthening says
that a node that has sent no heart beat has the address 0 or the one it was just given
(`AddressKnown`), and that a node that beats, or is going to, has a network address
(`HasShort`): without the former nothing would be known of a node that takes a command
soon after a reset. Theorems: `TypeCorrect`, `TableIsAFunction`,
`AnnouncedAddressSurvives` and the action property `OnlyOwnersObey`
(`CommandsObeyedByOwner`). Assumed of the constants (`AddressAssumption`): the network
addresses of nodes differ from the coordinator's and from the broadcast address, and 0
and the factory address are addresses.

`UartDma_proofs` (any buffer sizes, character times, lateness of the loop and wrap of
the sleep timer). The inductive invariant adds to the types: `WriteInv`, a write
between its critical sections still sees the buffer it chose and has room in it;
`TransferInv`, the channel is not armed while its interrupt is outstanding, and a
transfer keeps its bytes until then; `ShadowInv`, the shadow is no older than the last byte,
and with a quiet channel and no shadow the last byte is old. `IsrIsExcluded` is not
inductive without them. Theorems: `TypeCorrect` (no write runs over a buffer),
`InterruptIsExcluded`, and the action property `TransfersWaitForTheLine`.
A second invariant, `Order`, rests on the first: `TransferIsOfOther`, a transfer is of
the whole buffer that is not written to, and a pending one finds it still free;
`BytesNumbered`, the bytes to be sent, the transfer's before the write buffer's, are
numbered consecutively from `sent` up to `wrote`. From it `TransmitKeepsOrder`, the
transmit half of `BytesInOrder`. Bytes are numbered modulo `TxNum`, so the proof starts
with three lemmas on `%`, which the solver does not know. Assumed of
the constants (`UartAssumption`): they are positive, the character time and the idle
time are below the wrap of the timer, and a frame is not longer than a read.

`StartUp_proofs` (any number of power failures and troubles, any limits of the counters;
nothing is assumed of the constants but that they are numbers). The inductive invariant
joins the types of the items and of the writes a handler has left (`NvInv`) with two
arguments about the order of those writes. `HoldInv`: a HOLD among them is followed by the
watchdog; and if the application was told of a connection, or is about to be, then the hold
item is INIT or the write of INIT or the watchdog is still to come. `KeyInv`: while the key
is missing from NV or about to be wiped, the start-up option is set or no network is
saved, none is about to be, and unless the key is about to be written the device is
`Fresh`. `Fresh` is what makes it inductive: such a device has done nothing but try to
join, with one request, answer or delay at a time and none left when it waits for the
trust center, so that no late answer can make it a member without `DeviceAuthEvt`, which
writes the key. Theorems: `Bookkeeping` (the invariant), `StartsByItself`
(`ComesBackAlone`) and `ResumesWithKey` (`NoKeylessResume`).
Two more parts join it in `Whole`. `ZdoInv`, about the record of ZDApp: one failure ends
a resume (so `retryCnt` stays below 2), a router that resumes has asked for nothing but the
scan that succeeds, a rejoin request waits only in a connected end device, and in a state
the application is to know of, it knows, or is being told, or the flag for it is raised.
`Counts`: the power-on counter in RAM is the one in NV or is about to be written, and stays
behind `lives` until the counter's limit. Theorems: `TypeCorrect`, `AppKnows`
(`AppKnowsSteadyState`) and the action property `PatientWithItsNetwork` (`GivesUpLate`).

`OsalNv_proofs` (any number of pages, items, sizes and failed writes). A page is a
sequence of items, and its words are a recursive function of it; the first lemmas say what
appending, zeroing and rewriting an item does to them. The invariant says for each step
what the code relies on there. Between calls that is `PagesSound`. In a compaction what has been
written to the reserve page is no more than the words of the items passed (`CompactOK`,
`CopyItemOK`), which is why `compactPage` may append without looking at the end of the page,
and `FitsOnce`, what `initItem` found before it began, still holds, which is why the item fits
when it is done. In the scan of the recovery no page counts more lost words than it has, and
the pages before the cursor know where their items end (`ScanOK`). A power loss leads to
`BootOK`, which asks of the flash its shape alone, so that nothing need be known about where
the power was lost. Theorems: `TypeCorrect` (no page ever holds more than it has room for) and
`PagesAlwaysSound`. Assumed of the constants (`NvAssumption`): two pages or more, an item fits
in a page, `Null` is no page, id, value or place.

The second half of the module is about the copies of the items, as long as no write has failed
(`Sem`); after a failed write reads do differ (section 3). A copy is `Live` until it is zeroed,
`Done` once its checksum is written, `Old` once it is marked as transferred. Between calls
(`Idle2`) every item has one copy, it is complete, the cached place of a hot item is that
copy, and no page is marked as compacted. During a compaction (`CopyState`) the copies off
the reserve page are complete and no item has two, and the reserve page has a copy of just
those items whose copy on the compacted page is marked and lies before the cursor; the cached
places follow. At the scan (`Scan2`) an item has at most one new and one old copy, and the
pages behind the cursor have no incomplete copy, in the first pass no old one, in the second
no pair. What links them across a loss of power is `FlashOK`, which speaks of the flash alone
and holds wherever power is lost, in an erase that was cut off too: old copies are complete, at
most one page is marked and at most one is not in use, and the pages in use hold a complete
item twice only as an old and a new copy; with a marked page and one not in use they hold
every item once and complete, so that the compaction can begin anew. One lemma for each action
shows that it keeps `FlashOK` and `Control2`. Theorem: `ReadsAreStored`
(`ReadsStoredUntilFault`).

Only model-checked: all liveness properties (out of the prover's reach); the receive half
of `BytesInOrder` (it holds only while the loop reads before the ring is full, which is the
bound `RxMaxGap`); and of `OsalNv` `ImplementsStore`, which is no theorem: with room left at the end
of a page, finding 2 breaks it.

The library's induction theorems take an operator as a parameter, which the provers cannot
instantiate. Where a proof needs induction (over a list's length, the steps of a walk) it is
made of sets: the set of numbers for which the statement holds contains 0 and with a number the
next one (`SetInduction`, from the well-foundedness of `<` on the naturals).

## 5. Not modelled

- `osal_msg_find`, `osal_msg_push` and the MAC's own queues; `POWER_SAVING`.
- Exhausted heap outside `OsalMemory` and the timers; unchecked `osal_mem_alloc`
  results are in the hazards.
- NV: partial writes of an item, deletion of hot items, migration of old images; the
  frame parsers of the build without RS-485; CRC and text codecs; the register-level
  drivers of RFID reader and sensors.
- ZDApp: the start of a coordinator and what it does as trust center, security modes other
  than the standard one, ZDO requests and responses, the frame counters' values.
- Vendor code: the rest of the stack, MAC, MT, ZCL. It makes up more than nine tenths of the
  lines in the repository (the ZCL clusters alone, which this image does not compile in,
  are larger than everything the project wrote), and the part of the stack that decides,
  the network layer and APS, is a binary library. It is modelled where the
  application meets it, as external actions; a model of its sources would be guesswork
  about the library between them. The share of the repository's lines that the models cover is
  therefore small, while they cover most of what runs in this image and keeps state of
  its own: the OSAL, the UART driver, and the application.

## 6. Plan

The order is by importance to this program.

1. Done: `OsalTasks`, `UserEvents`, `Rs485Network`, `OsalTimers`, `OsalNv`,
   `OsalMemory`, `UartDma`, `StartUp`.
2. Allocation failure in `UserEvents` and `Rs485Network`.
3. The coordinator's start and permit join as a part of `StartUp`.
4. Proofs: the order of received bytes in `UartDma` under `RxMaxGap`.
