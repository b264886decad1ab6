# A TLA+ model of the ZigLight firmware

The repository is the firmware of a ZigBee lighting system for the TI CC2530:
lights (routers or end devices), a coordinator that keeps a table of them, and a
serial link from the coordinator to a Gizwits Wi-Fi module that shows the table
on a phone. It is built on TI's Z-Stack: the OSAL kernel, the HAL drivers, the
low level of the MAC and the glue of the ZigBee stack are in source, most of the
MAC, NWK and APS layers only as binary libraries
(`Projects/zstack/Libraries`).

This directory holds TLA+ modules of the parts with the most state shared
between tasks, interrupts, power failures and radio messages, TLC configurations
that check them on small instances, and TLAPS proofs of some of the results for
all instances. `PROJECT.json` maps every definition to the lines it models.
Paths below are relative to `src/`.

1. [The system](#1-the-system)
2. [The modules and the code](#2-the-modules-and-the-code)
3. [The runs](#3-the-runs)
4. [Fairness](#4-fairness)
5. [Proofs](#5-proofs)
6. [Disagreements between code and comments](#6-disagreements-between-code-and-comments)
7. [What is not modelled](#7-what-is-not-modelled)
8. [Plan](#8-plan)

To check: `tlc -config Osal.cfg MCOsal.tla` and likewise for the table in
section 3; `tlapm Osal_proofs.tla` and likewise for section 5.

## 1. The system

There is one processor. The program is one endless loop, `osal_run_system`
(`Components/osal/common/OSAL.c:991`), that updates the clock and timers, polls
the drivers, calls the application's `gizwitsHandle` (in this repository's copy
of the loop) and runs one handler of the task of highest priority that has an
event. Nothing preempts a handler but interrupts, which set events, enqueue
messages and start timers. `HAL_ENTER_CRITICAL_SECTION` turns them off. So the
hard behaviours are (a) an interrupt, or a DMA channel, between two steps of
foreground code that were written as if they were one, (b) a reset, or a write
that fails, between two flash writes, (c) lost and reordered radio messages
against unsynchronised timers of several devices, (d) state that outlives the
call it was set for.

| Component | State | Operations | Interacts with | Correct if |
|---|---|---|---|---|
| OSAL kernel (`OSAL.c`) | `tasksEvents`, `osal_qHead`, message headers | allocate, deallocate, send, receive, set/clear event, run loop | every task and interrupt | a buffer has one owner; a queued message always has its event; events are not lost; messages are per task first in, first out |
| OSAL timers (`OSAL_Timers.c`, `OSAL_Clock.c`) | `timerHead`, records, clock | start, start periodic, stop, update walk, next timeout | tasks, key interrupt, power manager | one record per timer; neither early nor late; a stop is final |
| OSAL heap (`OSAL_Memory.c`) | two buckets of blocks, `ff1` | alloc, free, kick | everything | blocks in use disjoint and unmoved; NULL only if nothing fits |
| Power manager, sleep (`OSAL_PwrMgr.c`, `hal_sleep.c`) | `pwrmgr_task_state`, `pwrmgr_device`, `halSleepPconValue`, sleep timer | task state, device, power conserve, halSleep, wake-up interrupts | timers, MAC, ZNP | never asleep with work, never past a timer, only with consent |
| NV item store (`osal/mcu/cc2530/OSAL_Nv.c`) | flash pages, `pgOff`, `pgLost`, `pgRes`, `hotPg` | init, item init, read, write, delete, compaction | ZDO, APS, applications | a reset loses nothing that was returned; boot recovers from any interruption |
| ZigLight application (`ZigLightApp.c`, `List1.c`) | per light `main_state`; at the coordinator `nodelist`, `deletnodelist`, `newdevice_joinin` | requests, beats, commands, address answers, sweep | ZDO, Gizwits | the table and the lights agree once nothing changes; one node per light |
| Gizwits link (`gizwits_protocol.c`, `gizwits_product.c`) | ring buffer, parser, report slot | parse packets, reports, retries | UART, the table | a broken packet costs little; the last data points are reported |
| UART (`_hal_uart_dma.c`; `_hal_uart_isr.c`) | receive ring and two transmit buffers shared with DMA and interrupt | read, write, poll | Gizwits, MT, ZNP | bytes neither lost nor repeated below capacity |
| MAC low level (`Components/mac/low_level/srf04`) | `macTxActive`, `macRxActive`, receive function, `macRxOnFlag`, radio registers | transmit, receive, on/off, channel, sleep, interrupts | MAC high level (binary) | no assertion fails; each transmit ends exactly once; receiver and channel end as asked |
| Key establishment (`zcl_key_establish.c`) | table of records, ageing and calculation timers | initiate, the exchange of certificates, ephemeral keys and MACs | ZCL, security manager | both ends store the same key; no record stays for ever |
| OTA upgrade (`zcl_ota.c`, `hal_ota.c`) | download offset, timers; the two image areas | block requests, waits, upgrade; the boot loader's copy | ZCL, flash, application | every block once and in order; only whole images run |
| ZNP (`znp_spi.c`, `znp_app.c`) | `npSpiState` | SREQ, AREQ, POLL transactions | host processor, sleep | no transaction stalls or is answered twice |
| ZDO (`ZDApp.c`, `ZDObject.c`, ...) | `devState`, end device bind | start, join, rejoin, bind | NWK library, applications | `devState` follows the last request; a pair ends bound or unbound on both sides |
| MT, AF, APS glue, ZMAC, security manager, SAPI, boot loaders, samples, USB | tables or nothing | marshalling | | see section 7 |

What can go wrong in each of them, at which line, is listed under `hazards` in
`PROJECT.json`, with the property that would notice.

## 2. The modules and the code

| Module | Models | Used by |
|---|---|---|
| `Mailbox` | what the messages of OSAL promise: one first-in first-out mailbox per task | refined by `Osal` |
| `Osal` | events, buffers, the queue, `osal_run_system` | `MCOsal`, `Osal_proofs` |
| `OsalTimerList` | the operators of the timer list | `OsalTimers`, `HalSleep` |
| `OsalTimers` | starting, stopping and the interruptible walk of `osalTimerUpdate` | `OsalTimers_proofs` |
| `Subsequence` | what is left of a sequence at some of its positions, without recursion | `Osal`, `HalSleep` |
| `Allocator` | what a heap promises | refined by `OsalMemory` |
| `OsalMemory` | `osal_mem_alloc` block by block, `osal_mem_free`, `osal_mem_kick` | `Osal_proofs` |
| `HalSleep` | the way to sleep and back, with the timer list and the interrupts | `HalSleep_proofs` |
| `NvStore` | what the NV store promises: items written atomically, nothing undone | refined by `OsalNv` |
| `OsalNv` | pages, items, flash operations, recovery | `MCOsalNv` |
| `ZigLight` | lights, coordinator's table, reports to the phone | `ZigLight_proofs` |
| `GizwitsLink` | ring buffer, packet parser and report slot, and the module at the other end | |
| `HalUartDma` | the DMA serial driver below it, with the two DMA channels | `HalUartDma_proofs` |
| `MacRadio` | the MAC low level and the radio around it | `MCMacRadio`, `MacRadio_proofs` |
| `KeyEstablish` | both roles of the key establishment on several devices | `MCKeyEstablish`, `KeyEstablish_proofs` |
| `Install` | what an upgrade promises: one step from a whole image to another | refined by `OtaClient` |
| `OtaFlash`, `OtaBoot` | the two image areas, and the boot loader over them | `OtaClient` |
| `OtaClient` | the download, with server, radio, flash and boot loader | `OtaClient_proofs` |

Operators named `...Late`, `...TooFar`, `...Loose` and so on, each commented
"Mutant", stand in front of the definition they deviate from. They are plausible
mistakes used to make sure that the properties notice them, and are not part of
any specification.

### Osal

State: `osal_qHead` is a sequence of buffers (the links of the list), `destId`
and `heap` what their headers say and which are allocated, `tasksEvents` a set
of flags per task; `pc`, `idx` and `events` are where `osal_run_system` is and
the events it has taken out of the table; `msgPtr` and `outBuf` the buffers the
running handler (or the driver poll) holds; `notify` is the task
`osal_msg_send` has enqueued for and not yet signalled.

One step is one critical section, or the code between two of them. So
`osal_msg_send` is `Send` (enqueue) and then `Signal` (set the event), and an
interrupt may come between them, as it may between `Scan` (the test of
`tasksEvents[idx]`), `Fetch` (take and clear) and `AddBack` (restore what was
left). The handlers are the two kinds there are in the code: those that drain
their messages in a `while` and those that treat one message and return the
event (`NextMessage`, `ReturnAfterOne`). `IsrSend` and `IsrSetEvent` are the
interrupts; only the MAC's send messages, to the MAC's task.

Properties: `BufferOwnership` (a buffer is in the queue once, or held by one
owner, or free), `NoLostWakeup` (a task with mail has `SYS_EVENT_MSG`, or is
being signalled, or is about to look), `EventsNotLost` (only a task's own
dispatch or clear takes its events), `ImplementsMailbox`, `TopPriorityServed`.

### OsalTimerList and OsalTimers

A record is `[task, flag, timeout, reload]`; a stopped one has `flag = NoFlag`
(event_flag 0) and stays in the list until a walk frees it. `osalTimerUpdate`
holds `srchTimer` and `prevTimer` while it lets interrupts in after each
record: `pos` is `srchTimer`, `UpdateTimer` treats one record in its critical
section, `FreeTimer` frees a spent one and sets the event outside. `ReadClock`
takes the elapsed time, `Tick` is a millisecond of the hardware clock, and
`IsrStartTimer` is the key interrupt's `osal_start_timerEx` at any point of
that. `hist` is a history variable: for each record what was asked for, how
many milliseconds have passed since, and by how much the code's accounting
(walking off time from before the start, or walking late) may shift it.

Properties: `ListOK` (types, and one record per timer), `TimersAccurate` (the
time left in a record is what was asked less what has passed, up to that
recorded shift and nothing else; a periodic timer is counted anew from each
reload, so nothing is claimed of what its periods add up to), `StopIsFinal`,
`TimersFire`.

### Allocator and OsalMemory

The headers of the heap are the function `len` from the addresses of blocks to
their lengths, and the set `inUse`. The search of `osal_mem_alloc` is one action
per turn of its loop: `PassUsed`, `PassFree`, `Coalesce`, with `hdr`, `prev` and
`coal` as in the code, then `Take` (with the split) or `ReturnNull`. The
allocation that `osal_mem_kick` makes to find the end of the long-lived blocks is
the same search (`kick`). The module names `osal_mem_init`, `HeapNext`, `HeapSpec`,
`heapVars` and `at` what other modules call `Init`, `Next`, `Spec`, `vars` and
`pc`, so that `Osal_proofs` can extend it together with `Osal`. That the bucket still has room when the kick comes
(`BucketHasRoom`) is what `OSALMEM_SMALLBLK_BUCKET` is sized for; without it the
code would move `ff1` into the wilderness.

Properties: `Ff1IsFirst` (no free block lies below `ff1`, where no search would
find it), `NullOnlyIfFull` (from where the search started no run of free
neighbours, merged or not, is large enough), `ImplementsAllocator`.

### HalSleep

The tail of a pass of the run loop: `TimeUpdate`, `AllowSleep`
(`Hal_ProcessPoll`'s `ALLOW_SLEEP_MODE`), the scan, `PowerConserve`,
`ChooseTimeout`, `Decide`, `SetSleepMode` (the write of `PCON`), `WakeUp`.
`halSleepPconValue` is the handshake: interrupts clear it, and the write of
PCON puts the processor to sleep only if it is still set. `build`, chosen once
from `Builds`, is the board: the interrupts are the sleep timer's, the MAC's,
and the keys' (CC2530EB) or the ZNP's port interrupt (CC2530ZNP). Here
`osalTimerUpdate` is one step; `OsalTimers` has its interleavings.

Properties: `NoWorkAsleep` (but for the event of the ZNP's port interrupt, see
section 6), `SleepOK` (types, and no sleep beyond a timer), `TimersFire`;
`SleepIsAgreed` is proved only.

### NvStore and OsalNv

An operation on items is, in the code, a sequence of flash writes and erases.
`OsalNv` computes that sequence once (`WriteOps`, `CreateOps`, `Compact`,
`BootOps`, ...) into `todo`, and `FlashStep` executes one; `PowerFail` may come
before any of them and `PowerFailErasing` in the middle of an erase, leaving
what `PartialErases` allows. `FlashFail` is a write that leaves flash as it was,
of one of the kinds in `Failing`: the page's compaction mark, which the code
does not read back, or data and checksums, which it does; these carry, as
`else`, what the code still does when the read-back fails. A page is its two
header marks and its items; an item has `zeroed`, `xfer` and `good` (its checksum
holds) and its value. `pgOff` is the sum of the sizes, `pgLost` is
`Lost(pg) - uncounted[pg]`, so the accounting error of the code is explicit.
After the page headers, `initNV`'s walk over all items is modelled item by item
(`Stops`, `ScanRestart`, `ScanZero`, `ScanCount`, `ScanDone`), because it writes
flash and a reset may come in between.

Properties: `ImplementsStore` (refinement of `NvStore`, under which a value is
what `Durable` reads: an operation takes effect at one point, has done so when
it returns with success, may fail or be cut off by the power, and takes effect
never later or twice), `PagesOK` (types, no page over-full, one erased reserve
page), `ReadsAreDurable` (what a read returns now, also of a hot item through
its cached place, is what it returns after a reset), `BootCompletes`.

### ZigLight

A light is `main_state` (asking or beating) and `since`; the coordinator is
`nodelist` (head first), `deletnodelist`, `newdevice_joinin` and what its
network layer knows of IEEE addresses (`known`); the phone is `appView`; `net`
is the set of messages under way. `ReceivePacket` is the whole of
`ZigLightApp_MessageMSGCB` for requests and beats, with `mac_table_fresh`,
`search_Node...` and `rfdata_handle`; `Sweep` is the periodic event with
`detectHandle`; `ReportTable`, `ReportDeleted` and `ReportNew` are the three
reports of `gizwitsHandle`, each with its static cursor or list. `Restart` is a
reset of the coordinator: the lists are in RAM and lost, the lights and the
phone do not notice. `forgotten` is a history variable, the lights the phone
has been told of and the coordinator has not heard of since such a reset.

Time. The periods are jittered (`osal_rand`): a beat every 10 to 14 s (14.1 s
with the time a handler takes), a request every 1 to 5 s, a sweep every 10 to
14 s. The model has no clock; it has the order of events these periods allow.
Between two transmissions of a light at most `MaxGap = 2` sweeps happen, and an
exchange of messages, which takes less than 5.9 s, spans at most one (`late`).
`Transmit` also waits for the light's last exchange to be over or lost. The code
does not: this assumes that an exchange takes less than the time to the next
transmission, which for a light still asking may be as short as 1 s.
This is exactly what matters to `MAX_MISS_HEARTBEAT_CNT = 3`: it gives a light
that is heard three sweeps, at least 20 s.

`heartbeatCnt` is a byte that is only compared with its value at the last sweep:
the node keeps whether it has moved (`fresh`; a light sends at most one packet a
second, so it cannot wrap between two sweeps). `detectHandle` moves a node and
goes on through the pointer of the moved one; where that would be NULL, the
model takes the removal as the code intends it.

Properties: `TableOK` (types; a light has one node, `OneNodePerDevice`; and a
change of the table not yet told to the phone is always still on its way to be
told, but for what a reset has forgotten), `CursorValid` (`nodeptr` never points at a node that
`detectHandle` moved away), `RemovedOnlyIfSilent` (a light is dropped only if
since it was last counted it was away, unheard or kept from beating),
`TableAndPhoneConverge` (once nothing happens any more, the table is the set of
lights that are there, and the phone has these and at most the forgotten ones
besides).

### GizwitsLink

`Pass(n)` is a pass of `osal_run_system` when `n` bytes have arrived:
`UartProcess` hands them to the ring `pRb` in portions (`rbWrite` refuses a
portion that would fill the ring), and `gizwitsHandle` lets
`gizProtocolGetOnePacket` (`Byte`, `Store`, `Parse`) read until a packet is
complete, acknowledges, retries or gives up the report in the slot
(`AckHandle`, `AckCheck`). Then `gizDevReportPolicy` reports the data points if
they have changed, and once more, whatever has changed, in a pass that falls in a
millisecond in which the timer count is a multiple of 600000 (`Due`, the choice of
`timer` in `Pass`); each report takes the one slot. A packet is shortened to the
fields that are told apart, with the stuffing of 0xFF and the sum, and every byte remembers the packet it was sent in. The module at
the other end acknowledges and beats; `LoseByte` and `LoseReport` are the line.

Properties: `LinkOK` (types; a packet of which a byte is lost costs at most
itself and the next one), `Settles` (again and again reporting comes to rest with
the data points reported as they are and the slot free), `FreedForAReason` (the
slot becomes free by an acknowledgement, if perhaps another report's, or when the
retries are used). That a lost report is always sent again
(`ResentUntilAcknowledged`) the code does not keep, see section 6.

### HalUartDma

ZigLight's coordinator uses the DMA variant of the driver. The receive ring
`rxBuf` is filled by a DMA channel (`ReceiveByte`) that never looks whether a
cell has been read; the driver finds the end of the data by what the cells
hold. Two transmit buffers take turns: `HalUARTWriteDMA` copies
(`WriteCopy`) and then commits (`WriteCommit`) to one while a channel sends the
other, `halDmaIsr` is that channel's interrupt. `HalUARTPollDMA` is
`PollReceive`, `PollShadow`, `PollFire`, `PollCall`, between which the interrupt
may come. Both sides measure time with one byte of the sleep timer; the model
keeps the age of a shadow, which wraps as the byte does. Bytes are numbered, so
order and loss are visible. `PollsInTime` assumes that the loop comes round
before the ring fills from its high-water mark on.

Properties: `UartOK` (types; the buffer sent and the buffer written are never
the same, the channel is started only with bytes to send), `BytesInOrder`
(nothing lost, repeated or overtaken in either direction), `AllAreTaken` (the
last bytes of a burst too, which only the idle timer reports), `SlowPollsDrain`.

### MacRadio

The driver's functions call each other many levels deep inside one interrupt,
so each is an operator from a record `r` of static variables and radio
registers to a record, and actions apply one. The foreground is interruptible
where the code leaves its critical sections: `TxFrame`, `TxPrepare`,
`TxDecide`, `TxGoCancel`/`TxGoCsma`, `RxDisable`/`RxDisableOff`. `RfIsr` and
`RfIsrFifop` are the two halves of `macMcuRfIsr`, `RfErrIsr` the overflow. The
radio is modelled from how the driver uses it: frames that arrive segment by
segment, the FIFO and its overflow, hardware acknowledgements, the strobe
processor with its CSMA program and its wait for an acknowledgement. The MAC's
other requests are `RxEnable`, `RxSoftEnable` (`macRxSoftEnable`: the flags are set
and the receiver left as it is), `RxDisable`, `SetChannel`, `Sleep` and `WakeUp`.
`soft` is a history variable: the receiver was off when `macRxSoftEnable` enabled
it and nothing has turned it on since.

The high level is binary. Assumed of it: it calls the driver from one task at a
time, asks for the receiver or a channel only while the radio is not asleep (a
transmit asked for in sleep is aborted), and for the next transmit only when the
last one has ended; otherwise it may ask for anything at any time.
`macRxHardDisable` is not among the requests: the only callers in this source are
`macRxTxReset` and the slotted transmit, which are left out, and called in a
transmit it would cut it.

Assumptions about the environment, in the guards: `HeadersRead` (an interrupt is
never so late that the next frame begins before the header of the last one was
read), the strobe processor does not transmit between the end of a frame and
its acknowledgement, and the RF, RF error and timer interrupts do not nest (they
have the same priority).

Properties: `DriverOK` (types; the driver's `MAC_ASSERT`s; the receive state
machine and the FIFO agree on what comes next), `CompletedOnce`,
`QuietIsSettled` (once nothing is under way the receiver is on exactly if it is
enabled, unless it was only soft-enabled, `soft`, and the radio is on the channel
asked for), `EveryTransmitEnds`.

### KeyEstablish

`keyEstablishRec` is the table of each device, `timers` and `events` those of
its task (`aging`, and the two that put the long calculations off). One action
per handler: `Initiate` and its failures, one `Receive...` per command of
either role, `AgeKeyEstablishRec`, `Cmd_CalculateKey`, `Rsp_CalculateKey`. An
ephemeral key is its owner and a number, the derived key the set of the two, a
MAC what it is computed over; so two ends agree exactly if they used the same
two ephemeral keys. Messages are a bag without order; one that is never
delivered is a lost one. `Plans` says what the applications start. A device
whose handler goes on with an index past its table (`wild`) is followed no
further. All devices run this code, so that the suite and the times they tell each
other are valid; a refused certificate is one of the failures.

Properties: `SessionsOK` (types; one record per partner; when the initiator
stores a key the responder has stored the very same, unless it had no room),
`RecordsExpire` (a device with one partner keeps no record for ever).

### OtaFlash, OtaBoot, Install and OtaClient

An image is a function from blocks to the version each belongs to, so a mixture
of two images, an erased or doubly written block are visible; a right CRC is that
all blocks are of one version that is not corrupt. `OtaBoot` is `main` and
`dl2rc` of `hal_ota.c`, a power failure possible between any two flash
operations. `OtaClient` adds `zclOTA_...`: one action per frame and per event,
`ProcessOTAMsgs` the application's part, `Server` the server with its console,
`Lose` the radio. Timers may expire at any moment.

Properties: `DownloadOK` (types; what is written so far is the beginning of one
version; what runs is one whole image), `ImplementsInstall` (the refinement from
the first block to the start of the new image: an upgrade is a single step, that
no loss of power takes back or leaves half done, and the device comes up),
`DownloadEnds`. What runs and `ImplementsInstall` hold with two windows of the code
shut (`WindowFails` and `BlockBeforeReset` FALSE): power that fails between the
erasure of the page of the CRC words and their writing (`hal_ota.c:173` to 177, 128)
and a block of another download between the callback and the reset; section 6
has what happens in them. `DownloadEnds` also relies on `MaxWaits`: a server that
answers "wait" for ever keeps the client asking for ever.

## 3. The runs

| Run | Module, configuration | Distinct states | What it shows |
|---|---|---|---|
| osal | `MCOsal`, `Osal.cfg` | 50,668 | ownership, no lost wake-up, no lost events, mailbox refinement, the top task is served |
| osaltimers | `OsalTimers`, `OsalTimers.cfg` | 535,872 | timers stay unique and exact with an interrupt in the walk, stops are final, every timer fires |
| osalmemory | `OsalMemory`, `OsalMemory.cfg` | 1,611,378 | the heap keeps what it handed out, loses no block, and says NULL only if it must |
| halsleep | `HalSleep`, `HalSleep.cfg` | 551,145 | both builds: no sleep with work, none past a timer, no timer lost to sleep |
| osalnv | `MCOsalNv`, `OsalNv.cfg` | 336,877 | all operations with a power failure anywhere and compaction marks that fail |
| ziglight | `ZigLight`, `ZigLight.cfg` | 559,033 | the table is consistent, and table and phone converge, also after a reset of the coordinator |
| ziglight_stuck | `ZigLight`, `ZigLight_stuck.cfg` | violated | `EveryLightIsAnswered` fails |
| gizwitslink | `GizwitsLink`, `GizwitsLink.cfg` | 43,840 | a lost byte costs its packet and at most the next one; reporting comes to rest again, also after timed reports and late acknowledgements |
| haluartdma | `HalUartDma`, `HalUartDma.cfg` | 1,432,214 | bytes in order both ways, none left behind |
| macradio | `MCMacRadio`, `MacRadio.cfg` | 742,086 | the MAC low level under every interleaving with its interrupts |
| keyestablish | `MCKeyEstablish`, `KeyEstablish.cfg` | 382,232 | keys agree, records expire |
| ota | `OtaClient`, `OtaClient.cfg` | 756,238 | from the first block to the new image, whatever is lost and wherever the power fails but in the window of section 6 |

Bounds, and why they are enough to be interesting:

- *osal*: two tasks, three buffers, one flag, at most two calls into
  the kernel (`MaxCalls`) per run of a handler or of the driver poll. Two tasks are a sender and a receiver of each
  priority; three buffers let a queue hold two of one task with one of the
  other between them; an interrupt may add one at any time.
- *osaltimers*: one task with two flags (`key` is the interrupt's), timeouts 1
  and 3 ms, room for two records in the heap, a walk at most 2 ms late
  (`MaxLag`), three starts (`MaxStarts`) in a behaviour. An interrupt starts a
  timer before, at and behind the walk's position, and the heap is full when two
  timers run, or one runs, or is being freed, and a stopped one still has its
  record: a third start then finds its timer or fails.
- *osalmemory*: a heap of 34 bytes, a bucket of 14, three sizes (with
  headers 3, 5 and 9), of which two are small enough for the bucket: blocks
  split with and without a rest too small to be one, several free neighbours are
  merged, both parts fill up. There is no bound on
  allocations and frees.
- *halsleep*: two tasks (MAC and HAL or ZNP), timeouts {1, 3}, the key's
  debounce 4, the MAC's next timeout in {0, 2, 4}, `maxSleepLoopTime` 3: timeouts
  below, at and beyond each limit the code compares with; `MaxStarts` bounds the
  timers started in a behaviour, `MaxLag` the time awake between two clock
  readings.
- *osalnv*: three pages (two in use and the reserve) that hold two items each,
  one item hot and one that is deleted, two values. Each page fills up, so each
  write may compact; the reserve goes round all pages. There is no bound on
  operations, power failures or failing compaction marks. `ForeseenErases`: an
  interrupted erase that has removed items has removed the page's active mark;
  what happens if it has not is in section 6.
- *ziglight*: two lights, one that has joined through the coordinator (its
  address is known) and one that has to be asked for its IEEE address; three
  network addresses; reports of one light (`Batch`), so that two lights need
  two; two events (`MaxEvents`) of loss, departure, return, command, request of
  the table, allocation failure or reset of the coordinator. So a loss can meet a
  departure, two losses one exchange, a reset a departure; the bound also makes
  the system settle, which the convergence properties are about.
- *gizwitslink*: one change of the data points, and one heartbeat or timed report
  (`Extras`), with one retry and one loss of any byte or report; a ring (12 bytes)
  smaller than two packets, portions of 4; the heartbeat's number is 255, which has
  to be stuffed. With a timed report two reports are under way or waiting at once,
  and the acknowledgement of each may meet the slot of the other.
- *haluartdma*: a ring of 4 for 5 bytes, so that it wraps; transmit buffers of 2
  for 4 bytes, so that each is used twice or once full; a timer byte of 8 values
  and polls 0 to 4 ticks apart, with 2 to a character, so that a round of the
  loop is shorter and longer than a character.
- *macradio*: one transmit (with its retransmission by the strobe programs),
  two frames that arrive, of five kinds (data with and without acknowledgement
  request, broken, acknowledgement that matches or not), two other requests
  (receiver on, enabled only, off, channel, sleep and its wake-up), a FIFO of three segments that a
  frame of four overflows, one backoff more than the first.
- *keyestablish*: a trust centre and two devices, two table entries, room for one
  link key, one failure; four plans: one device twice (messages of the first
  attempt meet the second), both ends at once, two devices at once, the trust
  centre as responder of one and initiator of the other. Two sessions of one
  device with its table full and its keys full are the cases at the limits.
- *ota*: three blocks on two flash pages, the CRC words not in the first block, a
  good and a corrupt new version, one retry of block and end requests, one frame
  each way at a time (an older one may be delivered after it was asked for
  again), one answer to wait, two power failures between two runs of the
  application, none of them while both CRC words are erased.

`CHECK_DEADLOCK FALSE` is said where the system may really stop: `HalSleep`
(deep sleep without any further interrupt, or the bound on starts used up),
`MacRadio`, `GizwitsLink` and `KeyEstablish` (the environment is bounded), and
`OtaClient` (two power failures used up and a device that has nothing to do).

## 4. Fairness

- `Osal`: weak fairness of the run loop's steps, taken together. The loop never
  waits. Interrupts are not fair. Only the task of highest priority is served
  under it: a task that always has an event starves those below, as the code
  intends.
- `OsalTimers`, `HalSleep`: the loop, the hardware clock (`Tick`), and the sleep
  timer's interrupt, which is unmasked in sleep. No other interrupt is fair, so a
  sleep must end by itself.
- `OsalNv`: the steps of the store. Power failures are not
  bounded; `BootCompletes` says that boot ends in every behaviour in which they
  stop at some time.
- `ZigLight`: a light's periodic timer expires, a message that is not lost
  arrives, sweeps come round, and the run loop calls `gizwitsHandle`. Losses and
  resets are bounded, not unfair.
- `GizwitsLink`: a pass of the run loop with all that has arrived, the passing of
  the acknowledgement's time, and the module's answers. Nothing forces a heartbeat
  or a timed report. Changes and timed reports are bounded: in the code the next
  timed report comes 600 s later, long after the retries of the last one, and
  `Settles` is about what happens in between.
- `HalUartDma`: polls, the end of a write, the channel's interrupt (weak), and
  the clock (strong, as it does not tick inside a poll, which is short). How often
  polls come relative to the clock is free up to `MaxGap`; `SlowPollsDrain`
  states what it needs beyond that as its premise.
- `MacRadio`: pending interrupts are served, the foreground goes on, and a frame,
  a strobe program or an acknowledgement on the air ends. These are weak
  fairness of actions; the conditions under which each is enabled are written out in
  `Fairness` because TLC's evaluation of ENABLED on handlers nested this deep is
  exponential.
- `KeyEstablish`: each device's events and timers; nothing of the network, so
  every message may be lost.
- `OtaClient`: what the device does of itself (`Run`), and the boot loader;
  nothing of the radio or the server. `Install` has weak fairness of coming up,
  which the refinement has to meet.

## 5. Proofs

| Theorem | Says | For all |
|---|---|---|
| `Osal_proofs!TypeCorrect` | `Spec => []TypeOK` | tasks, buffers, flags |
| `Osal_proofs!OwnershipHolds` | `Spec => []BufferOwnership` | as above |
| `Osal_proofs!NoWakeupIsLost` | `Spec => []NoLostWakeup` | as above |
| `Osal_proofs!FlagsKept` | `Spec => EventsNotLost` (an action property) | as above |
| `Osal_proofs!QueueImplementsMailbox` | `Spec => ImplementsMailbox` (a refinement) | as above |
| `Osal_proofs!HeapIsTyped` | `HeapSpec => []HeapTypeOK` | heap, bucket, header and block sizes, requests |
| `Osal_proofs!NoBlockBelowFf1` | `HeapSpec => []Ff1IsFirst` | as above |
| `Osal_proofs!NullIsHonest` | `HeapSpec => []NullOnlyIfFull` | as above |
| `Osal_proofs!HeapImplementsAllocator` | `HeapSpec => ImplementsAllocator` (a refinement) | as above |
| `OsalTimers_proofs!ListIsWellFormed` | `Spec => []ListOK` | tasks, flags, timeouts, room in the heap, lag of the walk |
| `OsalTimers_proofs!TimersStayAccurate` | `Spec => []TimersAccurate` | as above |
| `OsalTimers_proofs!StopPrevents` | `Spec => StopIsFinal` (an action property) | as above |
| `HalSleep_proofs!NothingWaitsAsleep` | `Spec => []NoWorkAsleep` | tasks, timers, timeouts, both builds |
| `HalSleep_proofs!ConsentIsHonoured` | `Spec => []SleepIsAgreed` | as above |
| `HalSleep_proofs!NothingIsOverslept` | `Spec => []SleepOK` | as above, if no timer is started with 0 |
| `ZigLight_proofs!OneNodeSafe` | `Spec => []OneNodePerDevice` | lights, addresses, batch, events |
| `ZigLight_proofs!CursorSafe` | `Spec => []CursorValid` | as above |
| `ZigLight_proofs!PhoneIsToldTheTruth` | `Spec => []TableOK` | as above |
| `ZigLight_proofs!HeardLightsStay` | `Spec => RemovedOnlyIfSilent` (an action property) | as above, if `MaxGap < MaxMiss` |
| `HalUartDma_proofs!BuffersStayApart` | `Spec => []UartOK` | buffer sizes, rates, bytes, lengths |
| `HalUartDma_proofs!BytesKeepOrder` | `Spec => []BytesInOrder` | as above |
| `MacRadio_proofs!DriverStaysOK` | `Spec => []DriverOK` | frames, channels, FIFO size, backoffs, transmits, requests |
| `MacRadio_proofs!NoTransmitCompletesTwice` | `Spec => []CompletedOnce` | as above |
| `MacRadio_proofs!RadioSettles` | `Spec => []QuietIsSettled` | as above |
| `KeyEstablish_proofs!KeysAlwaysAgree` | `Spec => []SessionsOK` | devices, table and key room, plans, faults |
| `OtaClient_proofs!DownloadInOrder` | `Spec => [](TypeOK /\ ImageInOrder)` | image and page sizes, versions, retries, power failures |
| `OtaClient_proofs!RunsOnlyWholeImages` | `Spec => []DownloadOK` | as above, if `~WindowFails` and `~BlockBeforeReset` |
| `OtaClient_proofs!InstallsInOneStep` | `Spec => Promise!Steps`, the safety part of `ImplementsInstall` | as above, if `~WindowFails` and `~BlockBeforeReset` |

The assumptions are the `ASSUME`s of the modules. Most say that sizes are natural
numbers and that special values (`NoBuf`, `SysEventMsg`, `NoMac`) are none of the
ordinary ones, and that a heap block holds a byte besides its header. The bounds
(`MaxCalls`, `MaxStarts`, `MaxEvents`, ...) are any natural numbers. Those that
say more are:

- `UartAssumption`: a character takes no longer than `TxTick`, the time the code
  waits for the last one, and the low byte of the sleep timer, by which both
  sides measure time, does not wrap in a wait and a round of the loop.
  `PollsInTime`: a round of the loop takes no longer than the characters for
  which the ring has room above its high-water mark.
- `KeyEstablishAssumption`: the ages at which the calculations of keys and MACs are
  done lie within a record's life, which is at most a byte
  (`zcl_key_establish.h:108` to 120).

and four hypotheses stand in the theorems that need them. Without each of them
TLC has a counterexample: `NoZeroTimeouts` and `~WindowFails`,
`~BlockBeforeReset` in section 6; `MaxGap < MaxMiss` is the comparison of the
periods with `MAX_MISS_HEARTBEAT_CNT` that section 2 explains, and with as many
sweeps as misses between two transmissions a light that is heard is removed.

*Osal.* Neither property is inductive. `NoLostWakeup` depends on who has the
buffer a `Signal` is about, and on `SYS_EVENT_MSG` being in `events` while a
task runs, so `IInv` adds `LoopInv`: where the loop is between handlers, nobody
holds a buffer and no events are taken out; `notify` names a task exactly in the
middle of a send. `ReceiveEffect` and `EnqueueEffect` say once what taking a
message out of the middle of the queue, and putting one at either end, do to
`Queued` and to each task's `MailOf`. Then `StepLoop`, `StepOwnership` and
`StepWakeup` go through the actions. `FlagsKept` needs `IInv` only to know whose
events `events` are.

For the refinement, a task's mailbox is the queue at the positions of its
messages (`Elements` of `Subsequence`). Five lemmas say what that does when the
queue changes: the k-th of a finite set of numbers exists and is unique
(`Ranks`), a position behind all others appends its element (`ElementsAppend`),
the first position's removal is a tail (`ElementsTail`), and positions that move
up together, as all behind the one that `osal_msg_extract` unlinks do, leave the
selection alone (`SameShape`, `ElementsMoved`). So `Enqueue` is a `Put`
(`SendPuts`), `ReceiveFound` a `Take` (`ReceiveTakes`), and every other step
leaves all mailboxes as they are, `Allocate` too, which resets `dest_id`:
ownership says that its buffer is not in the queue.

*OsalMemory.* Its proofs are the second part of `Osal_proofs`, as the heap is the
other part of the kernel; the two share no variable and no lemma. The properties stand on one fact no header states: blocks tile the
two parts of the heap (`Tiling`: after each block comes a block or the end, and
none begins inside another). From it follow disjointness and what merging and
splitting may do. `Small` says where `ff1` may point, `Kicking` what the
allocation of `osal_mem_kick` returns, `Searching` how `hdr`, `prev` and `coal`
belong together, and `Passed` what the search has already ruled out, which is
`NullOnlyIfFull` in the making. `HeapInv` is their conjunction with the types; one
lemma per action (`PassUsedStep`, `PassFreeStep`, `CoalesceStep`, `TakeStep`,
`OtherSteps`). For the refinement, the search does not change what is in use
(`SearchKeeps`), `Take` is an allocation apart from all others
(`TakeAllocates`) and a free or a kick gives one block back (`ReleaseFrees`).

*OsalTimers.* `TimersAccurate` is about timers and clock readings; a walk in
progress has already taken the elapsed time off the records before its position
and not off those behind. `Accurate` says so (`Fits`, with `DueAt(i)`, what is
still to be taken off the i-th record: the time since the reading, and the
reading itself if the walk has not come to it). `FreeRipe` is the same for
records already taken out of the list and not yet freed, which must be run out
or stopped, and `StoppedGone` says that a stopped timer has no live record in
either. `TimerInv` is these, the types and `UniqueTimers`. The list's operators
are described once each (`AddTimerGives`, `DeleteTimerGives`,
`RemoveTimerGives`, `UpdatedGives`).

*HalSleep.* `NoWorkAsleep` is strengthened to `ScanInv`: as long as
`halSleepPconValue` is still set, the tasks the scan has passed have no events
that call a sleep off, and from the power manager on no task has. `Decide`, which
sets the flag again, keeps that because it does so with interrupts off and after
testing it. Both builds are in the one theorem; the ZNP's port interrupt, which
sets an event and leaves the flag alone, is the exception `SleepsOn` names.

`SleepOK` rests on `InTimeInv`, which follows the timeout from
`osal_next_timeout` to the sleep timer: while `halSleepPconValue` is set, it is
above zero and no more than any timer of the list has left. A timer that an
interrupt starts in between breaks that and clears the flag in the same step.
That every timer of the list has still to run (`Running`) is part of the
invariant, as 0 would mean no timer; it needs `NoZeroTimeouts` where timers
start, and `osalTimerUpdate` keeps it by unlinking what has run out
(`AfterUpdateIs`, again by `Ranks`).

*ZigLight.* A light has one node, and the cursor is in the table, by an argument
about how a packet may change the list: it *grows* by at most one node, of a
light that had none (`CountFirstGrows`, `SearchOrInsertGrows`,
`MacTableFreshGrows`), and growing is safe for both (`GrowthIsSafe`). A sweep
picks a subsequence, which keeps nodes different (`DetectHandleKeepsOne`); it
could take the cursor's node away, but does not run while a report of the table
is under way (`MacToAppFlag`). A reset empties the list and drops the cursor.

`TableOK` is nearly inductive: `TableInv` adds the types of what is left and
`ReportsAreDue`, and a lemma for each handler says what it leaves of the marks
(`Announces`). `RemovedOnlyIfSilent` is a race of a light's transmissions with
the sweeps, over a table whose nodes are found by MAC or by address.
`CountInv` says that the addresses tell the lights apart, in the table and in
the messages under way (`AddressesApart`), that a light has one exchange under
way at a time (`OneExchange`), and that the sweeps a node has missed are no more
than those since its light last sent or, during an exchange, than a gap allows
(`InTime`). The proof found a gap in the model's own assumption: that a light
joins with an address no node has is not enough, as a message sent under an
address by a light that has left would then be counted for the one that got the
address next. TLC shows the removal of a light that is heard, with
`MaxEvents = 4`, which the run's bound of 2 does not reach. `Join` now says that
the address is not in a message under way either; in the network it is drawn at
random from 16 bits.

*HalUartDma.* Three facts make `UartOK` inductive. The channel stands before a
byte of its transfer and raises its interrupt only at the end (`Sound`); every
move of the hardware goes on with the transfer there is or ends it (`Follows`,
from `LoadSound` and `ShiftSound`); and while the channel works or its interrupt
waits, the buffer not written to holds bytes, so that a write or a poll cannot
take it for free. `Copied` says that what a write has copied ends where it will
commit. `IsrTx` covers the interrupt's work by whomever it is done, `FireTx` the
change of buffers. Neither `PollsInTime` nor a relation between the polls and
the line is used: those matter only for `BytesInOrder`.

That invariant, `RxOrder` and `TxOrder` together are inductive. Receiving:
`RingOK` says which byte is in each cell of the ring, all free cells being
marked so; it holds as long as the ring is never full, and `InTimeOK` is why it
is not: what waits has taken its time to arrive, since the last poll that left
at most the high-water mark, and `PollsInTime` bounds that. Sending: `LineOK`
follows the bytes from the buffer through the data register to the line and
says which comes next, `AddedOK` that the other buffer holds the bytes after
those. `ShadowOK` is about the code's wait for the last character by the clock
alone: while the register holds a byte the shadow is valid, and it is not
invalidated before the character is over, which needs `CharTicks <= TxTick` and
that the timer's byte does not wrap.

*MacRadio.* An interrupt runs through operators a dozen deep, from records of some
thirty fields to records. Each operator has a lemma (`RxOffEffect`,
`TxCompleteInside`, `BusyOutside`, `PayloadEffect`, ...) that says which fields it
may change (`Keeps`) and what it makes of the parts of the invariant; the lemma
of an operator that applies it uses that lemma and no definition below it. So
each handler comes down to one lemma (`Settled(r', due) /\ Calm(r, r')`: what an
interrupt leaves, and that the foreground does not notice), and the induction
(`StepInv`) to one step per action. Operators that work both inside and outside the
receive interrupt have a lemma for each, as they find different things broken.

`IInv` is `Settled` with `ForegroundInv`. None of the three properties is inductive:
`CompletedOnce` says that nobody completes a transmit nobody waits for, which
holds because a transmit is awaited exactly while `macTxActive` is not
`NO_ACTIVITY` (`Awaited`) and because the states in which a completion may come fit
the strobe program and the interrupt masks (`Transmit`: the end of a program is
awaited exactly in `GO` and `LISTEN_FOR_ACK`, and what CSPZ says fits).
`QuietIsSettled` needs a reason for every thing put off, and that the reason ends
with a call that makes up for it: a receiver that is on without being enabled has
a receive, an acknowledgement, a transmit or a pending `macRxDisable`
behind it (`Needed`), a queued frame a receive or an acknowledgement (`Queue`), a
changed channel a transmit (`Tuned`). `SoftInv` follows the one exception, a
receiver that `macRxSoftEnable` enabled while it was off. `ReceiveInStep` needs what is still to come:
`Stream` says that FIFO and air together hold the rest of the frame being read
and at most one after it, and `Unread` how long that rest is in each state of the
receive state machine. TLC checked `IInv` on the bounds of the run first, and
again after each change; that in state `payload` no more is left than payload and FCS
(`n <= f.payload + 1`) came out of a proof step that failed without it.

*KeyEstablish.* `SessionsOK` relates keys stored at two ends that never see each
other's table. `KeyInv` gives every record and every message the ephemeral keys
it may carry (`TablesOK`, `LinksOK`, `MessagesOK`): a key that the initiator may
confirm was computed from the ephemeral keys its responder had when it sent its
MAC (`ConfirmationsOK`), wherever that responder's record has gone since, and what
is stored follows from it (`StoredOK`). No bound on delay, repetition or failures
is used; that a MAC is right only for the keys it was computed from is.

*OtaClient.* `ClientInv` needs no assumption on the power: a download in progress
has written the beginning of one version (all that `DownloadInOrder` states), and
the rest of the page it is in is erased (`RestErased`, needed to prove it), wherever frames or the supply fail. `CommitInv` is the boot
loader's: a device that runs has an image that is whole and vouched for
(`Settled`), one that boots may instead have a checked download whose copy is due
(`Pending`), and while it copies, `Copying` says which blocks and which CRC words
are already there. `NextIsPromised` then maps each step to a step of `Install`
or to none.

Only model-checked:

- liveness (`TopPriorityServed`, the `TimersFire` of both modules, `BootCompletes`,
  `TableAndPhoneConverge`, `Settles`, `AllAreTaken`, `SlowPollsDrain`,
  `EveryTransmitEnds`, `RecordsExpire`, `DownloadEnds`, and the fairness in
  `ImplementsInstall`): fairness is stated with ENABLED, which TLAPS does not
  handle;
- `OsalNv` (`PagesOK`, `ReadsAreDurable`, `ImplementsStore`): that no page
  overflows, that compaction fits and that every flash operation of a whole
  sequence is harmless depend on what the folds `SizeOf` and `Compact` compute for
  lists of any length, an induction over data; and they hold only for the failures and
  interrupted erases the run allows, as section 6 shows;
- `GizwitsLink` (`LinkOK`): `Parse` is a recursion over the bytes in the ring, so
  that it has the same obstacle, and `LossIsContained` is about every way in which
  packets can be cut and joined to others, which the run tries out for one loss.

## 6. Disagreements between code and comments

Found as a run that is violated (`findings` in `PROJECT.json` quotes the lines):

1. *ziglight_stuck*: `newdevice_joinin = 3`, set for one light, stops the
   coordinator from answering the others.

Met while modelling. Where a property is named, TLC refutes it in the way told,
with the configuration of the module's run changed as said:

- `HalSleep`: "an ISR (that could wake up from power mode)" calls a decided
  sleep off (`CC2530ZNP/hal_sleep.c:394`), but `port0Isr` of the ZNP
  (`znp_spi.c:882`) sets an event without `CLEAR_SLEEP_MODE`. If CTS falls
  between `HalUARTSuspend` and the write of PCON, the processor sleeps with the
  event set. `SleepsOn` is that exception; with it empty, `NoWorkAsleep` fails.
- `HalSleep`: `osal_next_timeout` answers 0 for "no timers"
  (`OSAL_Timers.c:519`), and a timer may have timeout 0. The device may then sleep
  deeply and the timer never fires: `TimersFire` fails with 0 in `Timeouts`.
- `OsalNv`: `initNV` recognises a compacted page by `pgLost == page size -
  header` (`OSAL_Nv.c:326`), which a page with unused space at its end does not
  meet, and may erase another page, with live items, against the comment at
  line 294: `OnlyDuplicatesErased` fails with items of sizes 1 and 2 (`Uneven` in
  `MCOsalNv`).
- `OsalNv`: the final pass of `initPage` returns early at a lone old item (462)
  and leaves `pgLost` short of a duplicate it just zeroed (312): `LostIsExact`
  fails.
- `OsalNv`: the comment on `compactPage` (505 to 529) says that while flash
  fails "the last value written with a return value of SUCCESS can continue to
  be read successfully". With `Failing = {"data"}` or `{"checksum"}`,
  `ImplementsStore` fails: a write that failed leaves a new copy without a
  checksum, which `findItem` prefers, so that reads return it and every later
  write fails too, its checksum being reckoned from the erased one; if such a
  write compacts the page with the last good copy, that one is skipped (it has
  the id being written), its page is erased as the found copy is elsewhere
  (line 1388), and the value is gone for good. A write of what the
  half-written copy holds returns SUCCESS without having stored anything.
- `OsalNv`: "initNV() will deterministically clean-up one page pending
  compaction per power-cycle": a failed compaction leaves its page marked, and a
  reset between the two steps of a later compaction of another page then makes
  `initNV` take the marked page with the highest number for the compacted one.
- `OsalNv`: after an erase cut short in such a way that the page's active mark is
  kept but its items are gone (`AllErases` in `MCOsalNv`), `initNV` does not
  recognise the compacted page and erases one with live items.
- `OsalNv`: `osal_nv_delete` of a hot item, which `MT_SYS.c:573` allows, leaves
  `hotPg`/`hotOff`: a read still returns SUCCESS and the old value.
- `OsalTimers`: a timer started by an interrupt between two clock readings is
  charged the time before its start (`OSAL_Timers.c:428`), so it may expire early
  by that. `TimersAccurate` allows exactly this.
- `ZigLight`: a stream of commands less than 3 s apart restarts a light's
  periodic timer each time, so that it never beats and is removed from the table.
- `ZigLight`: a light that left before a reset of the coordinator is never taken
  back from the phone. `TableAndPhoneConverge` allows exactly these.
- `GizwitsLink`: the comment at `gizwits_protocol.c:1079` says of a report
  "发送后的协议数据进行超时判断，超时200ms进行重发，重发上限为三次" (if it is not
  acknowledged in 200 ms it is sent again, up to three times). An acknowledgement
  is matched by its command only (1038), so a late one of an earlier report frees
  the slot of the next, which may be lost and is then never sent again:
  `ResentUntilAcknowledged` fails, and `FreedForAReason` is what remains. The
  constants differ as well: 2000 ms and twice (`gizwits_protocol.h:39`). As every
  report uses the one slot, a report also takes the place of one not yet
  acknowledged.
- `KeyEstablish`: the ageing timer "has to be started to make sure the record is
  going to be deleted" (`zcl_key_establish.c:384`), but the handlers stop the one timer of the whole
  table for the one record they treat, and no timer is started where the memory
  for the certificate is missing (371 to 374): `EveryRecordExpires` fails with
  two partners. `RecordsExpire` is what remains.
- `KeyEstablish`: a confirmation without a record for its sender goes on with
  index MAX_KEY_ESTABLISHMENT_REC_ENTRY and writes past the table (1430 to 1447).
  A key that `ZDSecMgrAddLinkKey` has no room for is confirmed all the same.
- `KeyEstablish`: for an invalid time in an answer the initiator sets `status` to
  `TermKeyStatus_BadMessage` (`zcl_key_establish.c:1102`, 1112), but it is `keyStatus`
  that is looked at (1142): the exchange goes on with the value the record was made
  with. Only a device of other make sends such a time, so this is not modelled.
- `OtaBoot`: the power may fail while both CRC words of the running image are
  erased; they are then equal, and `main` (`hal_ota.c:127`) starts what is
  there. `RunsWholeImage` fails with `WindowFails = TRUE`.
- `OtaClient`: a block that arrives between the end of the wait for the upgrade
  and the reset, when another download has just begun, is written over the image
  about to be installed: `ImplementsInstall` fails with
  `BlockBeforeReset = TRUE`. The timeout of a block response does not look at the
  status (`zcl_ota.c:543`), and gives up a download that has been completed:
  `CompletedNotGivenUp` fails. And without memory for the callback
  (`zclOTA_UpgradeComplete`, 1857) a completed download is forgotten, which the
  model does as well.
- `HalUartDma`: if every round of the loop is shorter than a character, each
  poll restarts the wait for the last byte, and the second buffer waits for ever;
  `SlowPollsDrain` has this as its premise. If the ring overruns, `rxHead` and the
  channel are out of step from then on, and `zigLight_uartProcess` hands bytes
  over that were never read into its buffer. `PollsInTime` excludes it.
- `MacRadio`: `macRxTxReset`'s comment (`mac_rx.c:279`) says that it calls
  `macTxHaltCleanup`; nothing does, so that a reset in the middle of a transmit
  leaves `macTxActive` set and the strobe program waiting for a receiver that
  is off.
- `MacRadio`: `rxStartIsr` may read an empty FIFO after it forced the end of a
  transmit that a channel change was waiting for; this takes interrupts later
  than `HeadersRead` allows.

## 7. What is not modelled

The share of the repository's lines that the modules stand for is small, and
will stay so. Most of its source is the vendor's: cluster tables and marshalling
(`zcl_se.c`, `zcl_general.c`, `ZDProfile.c`, `MT_*.c`), sample applications,
drivers of other boards and a USB library, with little or no state of their own
and nothing in it that runs concurrently with itself.

- *OSAL kernel*: `osal_msg_push`, `osal_msg_find`, `osal_msg_dequeue`'s other
  users, `osal_self`, and the string and formatting helpers. *Timers*:
  `osal_get_timeoutEx`, `osal_adjust_timers`, the UTC calendar. *Heap*: the
  profiling code; that a caller frees a block twice or writes past it. *NV*:
  failing writes of headers, item marks and page-use marks, failing erases,
  writes of part of an item, a damaged length.
- *ZigLight*: the status message and its line on the serial port, a network
  address being reused, `AutoUpateMac`, a reset of a light while it is counted, and
  a transmission of a light that still has an exchange under way (section 2).
- *Gizwits*: the data points themselves, the product's other commands, packets
  longer than their fields that are told apart, and what is read past `protocolBuf`
  (the parser's buffer has no limit in the model; no packet in the runs comes near
  that of the code). That two different packets have
  the same sum is possible, so nothing is claimed about a packet that is cut and
  completed by another's bytes.
- *UART*: the interrupt-driven variant (`_hal_uart_isr.c`), flow control, with
  which the port is not opened, and suspending the port for sleep.
- *MAC*: beacon networks (slotted transmits), promiscuous mode, scans, transmit
  power, the T2 timer, source matching, measurements, `macLowLevelReset`,
  `macRxHardDisable`. The high level is binary: its requests are inputs, under the
  assumptions section 2 names.
- *Key establishment*: indications to the application, the poll rate, sequence
  numbers, invalid times from devices of other make, and the cryptography, which is in a binary library.
- *OTA*: the signature, the server's address, time, the query's timeout; an image
  whose CRC is 0, or that is nothing but a header; the wrap of the retry counter.
- *ZNP SPI*, *end device bind*, `devState`: planned, section 8.
- *MT, AF, ZMAC, SAPI, PIB, ZGlobals, saddr, BindingTable*: dispatch, marshalling
  and tables without a protocol of their own; *LEDs, ADC, LCD, DMA, USB*: pure
  input and output; *boot loaders and OAD*: separate programs; *samples*: the
  vendor's other applications; *ZDSecMgr*: its exchanges rest on the binary
  APSME; *libraries*: binary.

## 8. Plan

In order of what the rest of the system rests on. Modules marked *done* are
described above.

1. `Osal` with `Mailbox`, `OsalTimers`, `HalSleep`, `OsalNv` with `NvStore` and
   failing writes, `ZigLight` with the coordinator's reset, `MacRadio`: *done*.
2. `OsalMemory` with `Allocator`, and the proofs of both: *done*.
3. `GizwitsLink` and `HalUartDma` below it: *done*, each with the other's side
   as its environment.
4. `OtaClient`, `OtaBoot`, `Install`; `KeyEstablish`: *done*.
5. Proofs of the safety of `Osal` with its mailboxes, `OsalMemory`, `OsalTimers`,
   `HalSleep`, `ZigLight`, `HalUartDma`, `MacRadio`, `KeyEstablish` and
   `OtaClient`: *done*.
6. `ZnpSpi`: the SPI transactions of `znp_spi.c`, with the monitor that repairs
   lost interrupts.
7. `ZdMatch` (`ZDObject.c` 2285-2420, end device bind) and `ZDApp` (`devState`).

A module added gets a passing run with two or three actors, or joins the run of
the module it composes with, and a violation run only for a real disagreement.
