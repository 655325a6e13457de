# Verification of the Victor 9000 DMA board firmware

TLA+ modules, TLC configurations and TLAPS proofs for the firmware in
`src/software/`: a Pico on the expansion bus of a Victor 9000 that emulates the
DMA board of the hard disk, stores the sectors on an SD card or behind a FujiNet
module, and offers a console through registers of its own.

Everything here is translated from the C and PIO sources; `PROJECT.json` gives the
file and lines behind every definition.

    tlc  -workers 2 -config SasiBus.cfg SasiInStep.tla
    tlapm SasiBusProofs.tla

## 1. The system

    Victor 8088 ──bus cycles──▶ register PIO ─words─▶ register ISR ─queue─▶ worker ─▶ SASI ─▶ storage ─▶ SD / FujiNet
        ▲                        (PIO0)               (core 1, top      (core 1, main    │
        │                                              priority)          loop)          ▼
        └───────── HOLD/HLDA, address, data, strobes ◀────────────── bus master (PIO1, dma.c)

    dmaterm / boot ROM ─ three cells ─▶ register ISR ─ring─▶ management channel (core 0) ─▶ console, menu
                                                                                            │ mailbox
                                                                        storage (core 1) ◀──┘

Three contexts run at once: the **register ISR** and the **worker** share core 1 (the
ISR preempts the worker anywhere, never the reverse), **core 0** runs console, menu and
diagnostics; beside them run the 8088 and the two PIO blocks.

| Component | State it keeps | Operations | What is hard | What makes it correct |
|---|---|---|---|---|
| Deferred queue (`reg_queue_processor.h`, `defer_dequeue`) | ring, head, tail, drop counter | `fast_enqueue` (ISR), `defer_dequeue` (worker) | lock-free; wrap; the ISR publishes while the worker copies | it is a bounded FIFO; a copied slot is never overwritten |
| Register ISR and cache (`register_irq_handlers.c`, `register_cache.c`) | cached cells, interrupt latch and pin, `reset_requested` | prefetch, read commit, write of CONTROL, DATA, STATUS, address bytes | answers within a bus cycle and **predicts** the next phase before the worker has acted | phases in SASI order, no stale status or address, interrupt never lost |
| Deferred worker (`reg_queue_processor.c`) | `bus_ctrl`, selected target, command index | CONTROL, DATA, committed reads, resets | every store to a shared cell races with the ISR | bus and cache agree once the worker is idle |
| SASI controller (`sasi.c`) | command block, DMA address, parameters | READ, WRITE, SENSE, MODE SELECT, parameters, diagnostics | resets in the middle of a command; retries; failing medium | status belongs to the command, GOOD means done, data goes to the programmed address |
| Host driver (`test/dos_dma_test`) | the phase it polls for | select, command, data, status, message; time-out and reset | it polls for exact values and resets on time-out | every command ends |
| Bus master (`dma.c`, `dma_master.pio`) | pins, FIFOs, HOLD, state machine | block read, block write, abort | pin handoff between two state machines; READY stuck; retries | one driver at a time; a true result means every byte moved; the bus comes back |
| Register PIO program (`board_registers.pio`) | where it is in a bus cycle, XACK, data lines, two FIFOs | T0 to T3, restarts | the host may already poll when core 1 starts; every transfer stops and restarts it | each cycle ends, with the right byte; one prefetch and one commit per cycle; off the bus during a transfer |
| Management channel (`mgmt_chan.c`, `mgmt_con.c`, `dmaterm.c`) | three cells, command ring, reply FIFO, acknowledge counters, line, menu | poll, publish, write, download, reset | one-byte window with a phase bit, bounded waits on both sides, sessions that die | bytes in order, exactly once, of the right session; nothing deadlocks |
| Console mailbox (`console_ops.c`) | one slot | submit (core 0), service (core 1) | the submitter times out, core 1 goes on | the answer is to the question; arguments are not clobbered |
| USB console, menu (`tui.c`, `tui_cmds.c`) | mode, owner | keys, drawing | two consoles, one menu | one owner |
| Storage (`storage.c`, `sd_storage.c`) | routes, open files, FatFs locks, error counts, a copy in progress | mount, eject, sector I/O, list, create, delete, copy in chunks, remount | a remount in the middle of anything closes every handle | a target serves what was mounted last; failures do not leave locks or half images |
| FujiNet link (`fuji_*.c`) | tag, mounted targets | tagged transactions over SPI, retries; read, write, mount, eject, list | the module queues repeated requests and answers late, reboots, keeps slots configured | a reply answers its own request; a target is served its own image |
| SASI command log (`sasi_log.c`, `fatfs_guard.c`) | record ring, batch, file, guard | push, flush from either core | full ring, one batch buffer and one FatFs for two cores | what was taken is on the card, in order, once |
| Core-0 main loop, stuck detector (`dma_board.c`) | the last counts, one report per stall | polling, monitoring | core 1 may hang anywhere, also with the guard | a stall is reported |

The hazards, each at its line with the properties aimed at it, are listed in
`PROJECT.json` under `hazards`.

## 2. Modules

| Module | Models | Uses |
|---|---|---|
| `DeferQueue` | the queue's ring, one load or store per step | `BoundedFifo` through a refinement mapping |
| `BoundedFifo` | what the queue promises: a FIFO that refuses only when full | |
| `DeferQueueProofs` | theorems about `DeferQueue` | |
| `SasiBus` | host driver + ISR + worker + SASI controller | the queue as a bounded sequence, which `DeferQueue` justifies |
| `CommandPort` | what the board promises a driver: commands served one at a time, each done at most once, each with a verdict that is true | |
| `SasiInStep` | the inductive invariant of `SasiBus`: what host, ISR and worker know of each other; the state of a command as `CommandPort` has it | `SasiBus`; `CommandPort` through a refinement mapping |
| `SasiBusProofs` | theorems about `SasiBus` | `SasiInStep` |
| `BusMaster` | block transfers: worker + state machine + 8088 + memory | a transfer of `SasiBus` taken apart; `BlockCopy` through a refinement mapping |
| `BlockCopy` | what a transfer promises: a copy that says true, or a failure that leaves nothing in a wrong place | |
| `RegisterPort` | the register cycles of the 8088 + register state machine + ISR, with the start and the restarts by core 1 | the cells stand for registers that read back what was written; what SASI registers do besides is `SasiBus` |
| `BoardBus` | `BusMaster` and `RegisterPort` on one bus | both; their steps are tied where the code ties them |
| `BusMasterProofs`, `BoardBusProofs` | theorems about `BusMaster`, `BoardBus` | |
| `CoreLoops` | the two main loops: command log, guard of FatFs, stuck detector | a command of `SasiBus` as two records and a use of the card |
| `CoreLoopsProofs` | theorems about `CoreLoops` | |
| `MgmtChan` | channel ISR + core 0 + `dmaterm` | the command ring as a bounded sequence |
| `MgmtChanProofs` | theorems about `MgmtChan` | |
| `Storage` | mailbox (core 0 and core 1) + routes + SD storage | a sector operation of `SasiBus` taken apart |
| `StorageProofs` | theorems about `Storage` | |
| `FujiLink` | the FujiNet backend on core 1 + the ESP32 module | a FujiNet sector operation or mount of `Storage` taken apart |
| `FujiLinkProofs` | theorems about `FujiLink` | |

The modules have their configurations beside them; constants are numbers and model values,
so no separate instance module is needed. No module declares a RECURSIVE operator.

### DeferQueue

`head`, `tail` and `dropped` are the C variables; `buf` is the ring; a volatile load or store
is a step of its own. Producer: load head and tail, test full, store the entry, publish
the head. Consumer: load, test empty, copy the slot, release the tail. The refinement
mapping takes the entries between tail and head as the FIFO of capacity `Size - 1`.
`DropWrap` stands for the counter's width.

### SasiBus

- **Contexts.** A bus cycle together with the ISR's handling of it is one step, since nothing
  on core 1 preempts the ISR; a read is two steps (PREFETCH serves the cached cell, COMMIT ends
  the cycle) as in the code. The worker's stores to cells the ISR reads or writes are a list `todo` that
  `WorkerStore` performs one by one, so that a bus cycle can come between any two. Cells only the
  worker uses (`bus_ctrl`, command index, target) change at the control step that starts the list.
  `cached_sync_dma_address` is three loads and three stores. The interrupt latch and the pin are separate
  stores; `dma_update_interrupts`' test and its latch store are merged.
- **Data.** A byte of DATA is a selection byte, the first byte of command *n*, or filler. A status byte
  remembers which command it reports on; a byte of an address remembers the command it
  was programmed for and the number of blocks added since. `NONE` is every opcode that moves no data,
  zero-length MODE SELECT included. The STATUS register and its alias are stored as one.
- **Host.** `dma_vfy2.c`: it polls STATUS for one exact phase, and resets the board when a poll times out.
  It never writes STATUS. A time-out is possible when the value it has just read does not match and the worker is
  inside a handler (media and transfers can take longer than the host waits) or has nothing left to do. The several
  CONTROL writes before and after the address are merged into one, which makes the largest queue depth reached about three lower than
  in the program – far from the 255 entries there. `Settle = FALSE` is a host that goes on after a
  reset while the worker is still in a handler, as a BIOS does whose delay loop is shorter.
- **Left out.** Trace records, statistics, range checks, the 100 µs delay after a command byte,
  `asserting_ack` and `dma_dir_in` (read only by the legacy paths of `dma.c`), the "not mounted" check at a command's start (mounting happens
  on core 1 between commands; a missing medium shows as a failing sector), and the same test before the sync of a WRITE, which is true there: a sector
  has just been stored through that mount.
- **READ.** The test for a reset (`SectorBegin`), the read from storage (`FetchSector`, milliseconds later) and the transfer (`Transfer`) are three steps: a RESET
  that comes in between does not keep that sector from being transferred, only the next.

### CommandPort

The SASI interface as a driver may think of it, with neither queue nor cache nor phases: a command is asked for, runs, moves its blocks one by one
(`BeginTransfer`, `EndTransfer`) between the target it selected and the address programmed for it, is synced if it writes, and ends with one verdict, GOOD only if
`Fulfilled`; the driver hears that verdict and accepts it; a reset cuts the command off. `SasiInStep` defines these six variables over the state of `SasiBus`.
`state` follows the driver, except that a command starts when the *worker* has taken its block (`Sent - Len(queue)` entries) and is answered when the worker's own
bus is in the status phase. `done` and `moving` are those of the handler, or the parameter bytes of the worker; `verdict` is the status byte in `todo` that is still to be
stored, later the one in its cell, later the one the driver has latched. Once a reset has begun the command is nobody's: its handler may still move a sector
(`SectorBegin` looks at the flag only at the top of the loop), which `CommandPort` promises nothing about.

### BusMaster

One action per register write or wait: CLK5 edge and HOLD, HLDA or its time-out, stop of the register
state machine, strobes, address lines, enable, two words per byte, drain, 3 µs sleep, park, stop, release, listen again,
HOLD down. The bus-master state machine takes words at its own pace and waits for READY; `Hang` is a READY
that stays low past the worker's time-out, `Heal` its return. A byte of memory or buffer remembers
which transfer put it there and where.

The abstract side is `BlockCopy`: a transfer that may fetch and store bytes in any order, each in its own place, and may return
true only when every byte is there. The mapping is the identity on memory, buffer and result; `Doubtful` is the last byte of each batch
of a write, whose bus cycle the drain test does not see (3 µs are granted for it).

Left out: a missing CLK5 beyond the time-out of the request, and the unused register and request paths of `dma.c`. `Heal` is
excluded within the microsecond between a time-out and the stop of the state machine: a READY that came back just there could let the state machine take
one of the two words of a byte, and the next transfer would begin with the other – the fault of `bus_read_hang` by a rarer way, and with it the properties of `bus_master` would
fail. The time-out of the grant is two steps (`GrantTimeout`, `Withdraw`), and HLDA may come between them. Memory changes only through the Pico while it
has the bus, and the host does not touch the buffer of a transfer.

### RegisterPort and BoardBus

A cycle of the 8088 is `StartCycle` (ALE), the words of the state machine (`PushPrefetch`, `PullAnswer`, `PushCommit`, `PushWrite`) and `EndCycle`
(READY). The ISR handles one word per step. Core 1 outside the ISR takes the steps of `setup_irq_handlers`, `warm_caches`,
`core1_main` and `reset_register_pio_sm` one at a time, `init` says which, and none of them happens while a word waits with the interrupt enabled, because the ISR
preempts core 1 at once. `known` is history: what the 8088 may expect a register to hold.

`BoardBus` is the conjunction of the two: the 8088 needs the bus for its cycles and grants HOLD between two of them; the worker's
`Quiesce` is also the stop of the port, its `Listen` the end of the restart; everything else of one half leaves the other unchanged.

The program's cycle counts enter as assumptions on the order of events, each from the pin timing in the comments of the `.pio` file: the last word of a cycle is pushed
before the next ALE and before HLDA (about 80 ns after RD/ rises); RD/ is low before the answer is pulled; the state machine sees an ALE
only when it waits at T0; during a transfer ALE belongs to the Pico's own pins, and returns to PIO0 with the handoff at its end.

### CoreLoops

`sasi_log_push` and the two flushers are cut at each load and store of a shared index; `sasi_log_flush_locked` copies a record, releases its slot,
and writes a batch in one piece or fails after a prefix. Core 0 flushes as well only with `SASI_LOG_AUTO_FLUSH_DEFAULT` (`AutoFlush`). The guard is
tried by a flush and waited for by storage. The stuck detector is two steps, sample and judge. `Hang` stops core 1 where it uses the card, pushes
or executes.

Left out: the text of a record, `f_sync`, `sasi_log_flush_now` (nothing calls it), the log records of failed block transfers, the stack canary and the dumps.

### MgmtChan

Every access of core 0 to a cell or counter shared with the ISR is a step: `Publish` stores the byte, `Announce` the status
that flips the phase; `take_reset` is `Rebase`, `Flush`, `Clear`, `Show`, `Rearm` in that order. The host is
`dmaterm.c`: complement probe, reset and settle, poll loop, read and acknowledge, and a drain that goes on (`ReadMore`) without a look at the overflow. It may leave or be
rebooted from the settling on (`Leave`); a reboot before the reset is asked for is left out, since what a probe has left in the ring is flushed by the reset of the next
launch. `Launch` takes a reset asked for before the reboot as served: a reboot takes seconds and loads DOS from the disks of this very board, while core 0 polls the channel
all the time.
Two steps merge accesses that follow each other in the code. `Announce` sets `s_ready`, `s_phase` and `s_served`, which only core 0 reads, and the status cell, which is all that
the ISR serves. `PumpBegin` reads the drop counter and whether the ring is empty: only core 0 takes bytes out, so a byte or a drop that comes in between finds
a ring that is not empty, and is what the next pump would see.
A boot-ROM download (0x1C) is three parts. `unacked` is `s_served - s_ack`; only its being zero is tested, so
wrap-around of the two 8-bit counters does not matter. Burst limits are nondeterministic stops, and the
spin limit (`GiveUp`) may be reached whenever core 0 waits, because an acknowledge can come after its last look.

Left out: the text of replies, cursor keys and backspace, the CMD_FULL flag's brief appearances (the ring is drained
before the flag is published). A menu is painted only when something on it changed (`dirty`).

### Storage

`Submit`/`Post`/`Take`/`TimeOut` are core 0's `console_op_submit`; `ServiceBegin`, the `Do…` actions and
`CopyBegin`/`CopyStep` core 1's `console_op_service`. The handlers of core 1 are one step each: sector
I/O and console operations run on the same core, one after the other, and only a copy is cut in chunks with sector I/O in
between. Each handler is an operator that gives the set of its outcomes – the volume afterwards and what it returns – since `sd_storage_mount`,
for one, contains an unmount, an open, a remount and a second open. `h` says whether calls of FatFs may fail in this
step. FatFs is external (its source is not in the repository): handles die with the mount, an open file is locked, `f_mount(NULL)` drops the locks, and a file system that went
down stays down until it is mounted again, as the comments of `sd_storage.c` take it. The real `f_open` and `f_opendir` may remount by themselves, which would
only make a recovery come earlier than here.
Error counters stop at the first value the code no longer tells apart.

Left out: sector contents and ranges, read-only mounts (the console and the boot code mount writable), the
guard shared with the log, and FujiNet beyond success or failure of a mount: `Storage` takes a mounted slot to serve what was mounted
there last, which is `ServesSelected` of `FujiLink`.

### FujiLink

One call at a time (core 1 makes them all) is a sequence of transactions; `Send` and `Recv` are the two SPI bursts, and
`SendTimesOut`, `RecvTimesOut`, `RecvJunk` and a rejected `Recv` lead to `Retry`, which is the loop of `transact_frame_locked`:
every attempt has a tag of its own. Only the distance of a tag from `s_tag` matters, so a request carries its age, modulo
`TagWrap` as the 8-bit tag wraps. A call's local state is reset when it returns.

The module (`Esp…`, external) raises DRDY when it has a receive buffer or a reply armed. It may listen while it still serves
a request, so a request repeated after a time-out is queued beside the first one and executed later; clocking an
armed reply loses it, and the request sent over it may or may not be taken. It keeps the configured slots over a reboot (`conf`),
but not what they serve (`live`), nor that the host is mounted. A module that serves a request is done after at most `MaxWait` time-outs
of the Pico; one that is off may stay silent. At boot a slot may already be configured: the first one, which is where the fallback mounts.

The host directory is the entries `1..LastEntry`, of which those in `Images` are images and the rest directories; a listing passes over the latter and stops after
`WalkCap` entries of either kind (64 in the code) as if it had come to the end.

`want`, `vals` and `again` are history: the image a target must serve, the values its sector may have (a write that failed may have
taken effect or not), the repeated requests of a directory walk. `want` is open (`None`) from the unmount of a slot until the next
mount that succeeds.

Left out: the shared bus and its baud rate (the callers are all on core 1), framing and checksum byte by byte (a spoilt frame is
rejected), runs of several sectors, read-only mounts, timing statistics.

## 3. Runs

| Run | Question | Instance | States |
|---|---|---|---|
| `defer_queue` | Is the ring a bounded FIFO at the grain of single loads and stores? | 4 slots, 2 entries, drop counter mod 3 | 6 286 |
| `sasi_bus` | Do phase, status, address, interrupt and abort stay right under any preemption? | 2 commands, 1 reset at any point, 2 targets, 2 blocks, 2 retries | 2.56 M |
| `sasi_bus_live` | Does every command end, and is it served as `CommandPort` promises? | 2 commands, 1 reset, 2 blocks, 2 parameters, 1 target | 649 k |
| `bus_master` | Do port and bus master share the bus, are results truthful when READY hangs on a write, and is each register read served right from the first poll on? | 3 bytes in batches of 2, FIFOs of 2, 2 transfers, 2 hangs, 2 registers (one decoded) | 213 k |
| `mgmt_chan` | Are bytes delivered in order, once, to their session, through resets and overflows? | rings of 3 and 2, 2 keys, replies of 2, 2 sessions | 793 k |
| `storage` | Do answers, images, locks and routes survive time-outs, card losses and failing calls? | 2 targets, 3 images, thresholds 2 and 3, 2 operations, 2 faults | 5.20 M |
| `fuji_link` | Do replies answer their own request, and targets get their own sectors, over an unreliable link? | 2 targets, 3 entries (2 images, 1 directory), listings cut at 2, tags mod 7, 2 attempts, 3 calls, 1 fault | 5.40 M |
| `core_loops` | Does the log reach the card whole, one core at a time, and is a hung core 1 reported? | ring of 2, batch of 2, 2 commands, 1 failed write, both cores flush | 423 k |

Why these bounds are enough to see the interesting cases:

- `defer_queue`: the ring wraps without limit (head and tail are not bounded by the number of operations), fills and drops.
- `sasi_bus`: the second command meets the leftovers of the first and of a reset; two blocks distinguish "first", "last" and an
  address that advances; two targets a stale selection; 11 slots are one more than the deepest queue the instance reaches (10), so the
  queue refuses nothing here (`InStep` says so; what a refusal would do to the abort flag is the second half of `ResetFlagBacked`, which is proved for every size).
- `bus_master`: a full and a partial batch, more words per batch than the FIFO holds, and a retry after a hang; the host may begin a cycle before core 1
  has set the port up, in the middle of the set-up, and between any two batches; a register that is not decoded meets the same paths.
- `core_loops`: four records fill the ring twice over, the indices wrap, and a failed write can meet a full batch, a full ring and the other core.
- `mgmt_chan`: the FIFO is smaller than a reply, so the writer has to wait for acknowledges; the second session meets the leftovers of the first.
- `storage`: an image can be on one target, on the other, or in a copy; two faults reach the remount threshold with a failure inside the remount.
- `fuji_link`: tags wrap: a mount alone takes seven transactions, and 7 is the smallest modulus that meets `TagsAssumption` with a queue of two, one time-out
  per request and one fault (`NothingOutstanding` holds here down to 5: no leftover gets older than four tags). The 256 of the code
  leave ample room. Three calls are a mount, a mount that fails or an eject, and an access that meets their leftovers; the one fault may be a lost or spoilt message, a
  refusal or a reboot, while time-outs and repeated requests are not limited. The directory has one entry more than a listing looks at, so that a walk may
be cut at the cap, or come to the end because it has missed an entry.

Some properties need words of caution: `CoherentWhenQuiet` (with the address read back) and `IrqNotLost` speak of the moments at which the worker has
nothing to do; `CopiesOrFails` exempts the last byte of each batch of a write, whose cycle the code gives 3 µs; `ServesLastWrite` speaks of cycles that began after the set-up; `ServesSelected`
and `ReadsLatest` say nothing of a target whose last mount has failed; `ListIsFaithful` lets a walk miss one entry for each repeated
request, and anything behind the cap; `AbortsOnReset` lets the sector whose turn has begun be transferred, and says nothing of a RESET that comes after the handler's last test.

### Disagreements between code and comments

Each has a run in which TLC finds the counterexample.

| Run | Property | What happens |
|---|---|---|
| `sasi_reset_cache` | `NoFreeBusIllusion` | the caller of `dma_device_reset` zeroes the cached phase, which the comment there forbids, and erases a selection the ISR has already predicted |
| `sasi_reset_address` | `AddressSurvivesReset` | an aborted command writes its DMA address over the one programmed after the reset |
| `bus_read_hang` | `ReadIsFaithful` | after READY has hung on a read, the retry returns true with every byte one place late |
| `mgmt_impatient` | `AckIsDue` | the host's bounded settle acknowledges in the middle of a reset, and the channel never publishes again |

The first two need a host that goes on while the worker is still in a handler (`Settle = FALSE`),
which is why `sasi_bus` has a host that waits; `bus_master` has READY hang on writes only because of the third, `mgmt_chan` a patient
host because of the fourth.

Observed without a run:

- a STATUS read between the worker's stores of interrupt latch and pin (`dma_update_interrupts`) leaves the line raised with the latch clear;
- with two RESETs queued, processing the first withdraws the abort request of the second (`dma.c:969`): `AbortsOnReset` holds only for a host that lets the board settle, which has one RESET on its way;
- the stuck detector also prints STUCK when the queue is empty and the host merely polls STATUS, contrary to the comment at `dma_board.c:599`;
- `sasi_log.h:25` says the ring holds so many records "before oldest are overwritten"; `sasi_log.c:144` drops the new one instead, which is what `LogIsFaithful` states;
- an automatic remount kills the log's file handle: the next flush fails and the log disables itself; with auto-flush, core 0 may still write to a file that core 1 has just closed;
- `tui.c`'s key decoder is not initialised again when the USB console enters a menu the channel has owned;
- a target that is moved to FujiNet leaves its SD image open, and a later eject closes the FujiNet side only;
- the automatic remount is tried once, when the error count equals the threshold; failure counts survive disabling and a new mount;
- a listing of more than 64 entries, directories counted, is cut there and returned as complete (`fuji_blkdev.c:446`, "safety cap"), while `fuji_blkdev.h` calls true a clean walk;
- READ_DIR_ENTRY moves the directory on, so a repeated one after a lost reply skips an entry: `fuji_dir_list` returns true with an image
  missing, and `fuji_stat` can say "not found on server" of a file that is there;
- a FujiNet mount that fails after the unmount of the slot leaves the target marked mounted under its old name; if it fails at
  MOUNT_ALL, the next MOUNT_ALL of any target makes it serve the new image.

## 4. Fairness and liveness

| Specification | Fairness | Why the code justifies it |
|---|---|---|
| `SasiBus!FairSpec` | WF(Worker), WF(HostProgress) | the worker's loop never blocks: every wait has a time-out; the host's next step is always one more poll or write. The time-out has no fairness: it may happen, but no command needs it to end |
| `BoardBus!BoardFairSpec` | WF(core 1), WF(bus-master state machine), WF(HLDA granted or withdrawn), WF(port, ISR and ends of cycles) | every wait of core 1 has a time-out and the ISR holds it up for a few words only; both state machines are clocked; the 8088 answers HOLD after its cycle and ends a cycle when READY is high. READY has none: it may hang for ever, and the host need not start a cycle |
| `CoreLoops!FairSpec` | WF(Worker), WF(MainLoop), WF of the two clocks | both loops go round until core 1 hangs; time passes. That the bus stays free, or that the host keeps polling, is a premise of the property that needs it |
| `MgmtChan!FairSpec` | WF(Core0), WF(HostProgress) | core 0's main loop polls the channel each turn; the host's loop polls. Neither typing nor quitting is fair |
| `DeferQueue!FairSpec` | weak fairness of the worker's steps | the worker drains the ring in its main loop |

`Storage` and `FujiLink` state no liveness: a console operation can rightly wait for as long as the card takes, and the retries of a
transaction are a loop with a fixed bound.

## 5. Proofs

TLAPS proves, for every value of the constants that meets the named assumptions (`SizeAssumption`, `WrapAssumption`, `SizesAssumption`,
`TargetsAssumption`, `LengthsAssumption`, `HangOnAssumption`, `BoundsAssumption`, `RegsAssumption`, `BytesAssumption`, `StorageAssumption`, `ChannelAssumption`, `LinkAssumption`, `TagsAssumption`):

- **DeferQueueProofs** (248 obligations). `TypeCorrect`, `CopySafe` and `RingIsFifo`: the ring, for every size and every
  set of entries, implements `BoundedFifo` of capacity `Size - 1`. The invariant `IInv` adds to the type and to
  `CopyIsOldest` three facts without which no step could be taken: a store into the free slot does not change the contents
  between tail and head (`StoreIsInvisible`), the consumer's loaded head shows a non-empty ring until it releases
  (`TakesFromNonEmpty`), and what the producer publishes is what it stored (`PublishesWhatItStored`). `InitIInv` and
  `NextIInv` make it inductive; `InitRefines` and `StepRefines` map each step to a step of the FIFO or a stutter.
- **SasiBusProofs** (8884 obligations). `TypeCorrect`: command index, parameter counter, retry counter and queue stay within their
  buffers, with one typing lemma per action. `AbortIsAnswered`: an abort request that READ and WRITE see is always backed by a
  queued RESET or by the store that answers it, unless the queue has refused an entry – otherwise commands would be
  aborted for ever. The argument is per place a RESET can be: the ISR raises the flag and queues the entry in one step
  (`EnqueueKeepsReset`), taking the entry puts the answering store into `todo` (`ControlKeepsBacked`), and that store clears the flag.
  `IrqNotLostAlways`: an interrupt latched in the cells reaches the pin. Its invariant `PinFollowsLatch` says that latch and pin differ only between the store
  to the one and the store to the other, which comes at once; no plan of the worker stores to the pin by itself (`Ordinary`). `AbortsOnResetAlways` assumes a host that
  lets the board settle (`Settle`): then at most one RESET is on its way (`ResetOnce`), and its request stands until its entry is taken, so that a handler at its loop test begins no other sector and a handler at its end gives no answer. Without the assumption the
  answer to a first RESET erases the request of a second.

  The other properties of the run `sasi_bus` need to know where host, queue and worker are relative to each other, and none of them is inductive: that the status is of this
  command, for instance, hangs on the block that was counted, hence on the bytes the worker has taken, hence on the phases the host has waited for. `InStepAlways` proves all of this at once.
  `InStep` (module `SasiInStep`) numbers what the host sends for a command, from the two reads that end the one before to its last parameter byte. With `e` sent and
  `n` of them queued, `Round(e)` says that the queue holds the entries `e - n + 1` to `e`, that the worker is where it must be after `e - n` (`Taken`: preparing, receiving the block,
  executing, asking for parameters, answering), and that the cached phase, once the stores in `todo` are made, is the one the ISR has predicted, or the worker's own from the first
  command byte on (`Forecast`). So a host that runs ahead on predicted phases and a worker that is late agree on what comes next. `Observed` is what the host may rely on once it has read it,
  `Handling` what a handler knows (block, target, address, blocks done), `Mirroring` that each byte of the address in force is in the cache or still to be copied there, `Clearing` that a
  reset leaves nothing of the command it cuts off. The proof goes by who moves: a store of the worker shortens its plan (`RemainsOnly`, `RemainsLeads`, `RemainsAnnounces`), taking an
  entry moves the worker one number on (`TakeKeepsRound`), a step of a handler stays inside a number (`HandlerKeepsRound`), and a bus cycle that sends something adds one at the end (`SendKeepsInStep`).
  `NothingRefused`, `StatusIsForThisCommandAlways`, `GoodMeansDoneAlways`, `TransferAddressAlways`, `TargetIsSelectedAlways` (no run checks it by itself: `IInv` has it) and `CoherentWhenQuietAlways` follow from the invariant;
  `PhaseOrderAlways` from it and one look at each store to the cached phase (`StorePhase`, `HostPhase`).

  `ServesCommandsAlways` is the refinement of `CommandPort`: every step of host, ISR or worker is one step of it or leaves it unchanged. `Stage` derives from `InStep` where the command is by the
  number of entries taken; `OneVerdictAlways` says that the status bytes on their way to the cell are one verdict, so that storing it changes nothing (`StoreMovesVerdict`). Then one lemma for each
  kind of step: bus cycles change nothing while the driver waits (`HostWaits`, `HostSees`) but begin, hear and end a command (`HostAsks`, `HostHears`, `HostEnds`); taking an entry starts the
  command, counts a parameter or answers (`TakeServes`); each step of a handler begins or ends a transfer, syncs, answers or is invisible (`HandlerServes`). A handler the driver waits for
  is never cut short, since no RESET can be on its way (`NotReset`).

  These theorems assume two things besides the bounds. `Settle`: the host lets the board settle after a reset; without that `CoherentWhenQuiet` and `TransferAddress` are false,
  by the counterexamples of `sasi_reset_cache` and `sasi_reset_address`. `Deep`: the queue holds the entries up to the end of a command block, and the parameters – `QueueSize > 6 + CdbLen` and `QueueSize > ParamLen`, 256 against 12 and 8 in the program.
  It is needed since the driver does not look at the queue: it waits for phases, which bounds what can be in flight, but not below that.

- **BusMasterProofs**. `OneDriverAlways` needs only `PadsFollow`, which says for each step of the worker who drives what. `CopiesOrFailsAlways`
  is the refinement of `BlockCopy`, for every length, batch and FIFO depth. It assumes `HangOn \subseteq {"write"}`: with READY hanging on reads the
  property is false (`bus_read_hang`). Its invariant `DataInv` accounts for every word between worker and state machine: the words pulled are a prefix of the words put,
  alternating between the two of a byte (`InStep`); the lines of the bus and the byte on them are those of the word pulled last (`CycleOpen`); cells the
  worker has passed hold the byte of this transfer, except those of `LastOfBatch` (`Stored`), and a read has fetched what it has passed (`Fetched`); a read has at most one byte
  under way (`OneByOne`); after an abort nothing of the transfer is left in a FIFO (`CutOff`, `AtRest`). `Ended` and `ResultOpen` tie this to the result.
- **BoardBusProofs**. `BoardIsBusMaster`: every step of the board is a step of `BusMaster` or leaves it unchanged, so that `BoardOneDriver` and
  `BoardCopiesOrFails` follow at once. `PortQuietUnderDmaAlways`, `PrefetchBalanceAlways`, `ServesLastWriteAlways` and `BoardTypeCorrect` rest on `PortIInv`: where core 1 is in its set-up
  and in a transfer (`Core1Inv`), that the state machine follows the open cycle (`FollowsCycle`), that a port being reset is stopped and empty (`Resetting`), and
  that the FIFOs are in one of six shapes (`Balanced`), or have lost the one prefetch word that the set-up clears (`Lost`), which the following restart repairs. `CellsKnown`
  says what a cell holds or will hold once the ISR has caught up, `AnswerIsCell` that no store comes between an answer and its use, `CleanCycle` that no restart meets a cycle
  begun after the set-up. The induction goes by the kinds of step (`PortSteps`).
- **CoreLoopsProofs** (1264 obligations). `OneInFatFsAlways` needs only `Control`: who is in FatFs holds the guard. `LogIsFaithfulAlways` holds for every ring, batch and
  width of the indices (a multiple of the ring's size greater than it, `SizesAssumption`), with both cores flushing. `Contents` says where the n-th record is: in the file, in the
  batch or in the ring, by its number; `Pushing` that between the test for a full ring and the publication only the reader's index moves, so that the slot stored
  into is still free; `Releasing` that the record a flush has copied is the oldest one until its slot is released. The lemmas on remainders (`Counting`,
  `SlotsOf`) say that an index that wraps still counts the records and that no two of them share a slot.
- **StorageProofs** (1297 obligations). All five properties of the run `storage`, for every set of targets, images and operations and any number of faults.
  `Sound` is the invariant of the volume, and one lemma for each operator of `sd_storage.c` says that it keeps it: each target has an image of its own that is on the card, its handle reaches
  that image or none, and while the file system is up it does and holds the lock (`Mounted`) – without the lock, `rm` could take an open image away; no target has the new image of a copy,
  and one whose files a remount has closed is not locked, so that it can be deleted (`Copying`). `Mailbox` says that what waits in the slot is what was asked last, and that a copy is under way
  only while core 1 works on it; `Routed` that a route leads to the image mounted last or to none. Most steps only take images off targets (`Narrows`), which concerns neither
  mailbox nor routes; `FailedMount` follows a failing mount through its remount.
- **MgmtChanProofs** (1864 obligations). The five safety properties of the run `mgmt_chan`, for every size of the rings and of the line, any length of replies and downloads, and any
  number of sessions and keys. They assume a host that waits for its reset (`Impatient = FALSE`); with one that gives up waiting `AckIsDue` is false
  (`mgmt_impatient`). The invariant is needed because each property is about one moment of a session, while what makes it true lies in the reset before it: `Handshake` says that
  the host waits as long as a reset is pending and that the echo is what ends the wait, `Progress` what each step of the reset has cleaned up by then, `Silence` what the echo therefore
  promises until the host sends its first byte. In between, `Balance` says that served minus acknowledged is 0 or 1 and that the host can tell which, `Numbered` where the n-th byte of
  the session is (taken by the host, in the cell, in the FIFO), and `Epochs` that what core 0 works on is of one session, which is the host's unless a reset is pending. Most steps of core 0 only
  move on (`MoveKeeps`), take a byte (`PopKeeps`), or publish one (`PublishKeeps`, `AnnounceKeeps`).

- **FujiLinkProofs** (2158 obligations). The five properties of the run `fuji_link`, for every number of targets and calls, every directory and every cap of a listing, and any retries and faults that meet
  `TagsAssumption`: a module that holds `QueueCap` requests and sees `MaxWait` time-outs with each, and at most `MaxFaults` faults, need fewer tags than there are
  (`QueueCap * (MaxWait + 2) + MaxFaults <= TagWrap`). The firmware ensures no such thing, its tag has 8 bits and nothing bounds the faults; with more of them a request could wait in
  the module until its tag comes round. `InTime` is the bookkeeping: every new tag is paid for by a time-out, a reply that is clocked away, a place in the queue or a fault, and a
  waiting request can see only so many of each before it is served (`ToCome`, `OnTheWay`). With `Ordered` the reply to the current attempt is then the last thing
  under way, which is `NothingOutstandingAlways`. The other three build on that: a transaction that follows a success is alone in the module (`Steady`); a select
  request can wait there only while it is open what its target serves (`OpenWhileSelected`), so slots keep what mounted targets were given (`SlotsAsWanted`), whatever else is mounted;
  a write that waits has its value among those of every image it can reach (`WritesAccounted`); a reply says what is still so when it is accepted
  (`AnswersTrue`, `Means`); and a walk goes on behind the last entry it found, passing one entry for each request (`WalkGoesOn`).

Only model-checked: all liveness and the fairness part of the FIFO refinement (temporal reasoning with ENABLED is out of the prover's reach). Every invariant and every action property
of the passing runs is a theorem.

## 6. Not modelled

- **Cycle counts** of the two PIO programs: `RegisterPort` and `BusMaster` assume the order of events they give.
- **Stack canary and diagnostic dumps** of `dma_board.c` and `dma.c`: they need a model of memory, or change nothing.
- **`sasi_log_flush_now`**, **`f_sync`**, the legacy register path of `dma.c`: nothing calls the first and the last; the second adds no state here.
- **Menu drawing, console texts**: layout.
- Generated register tables, board files, FatFs and the SDK: third-party or data.

## 7. Plan

Done, in the order of importance: the queue everything crosses (`DeferQueue`), the bus the host sees (`SasiBus`), the transfer
below it (`BusMaster`, with `BlockCopy` as its promise), the promise to the driver (`CommandPort`), the register port beside it (`RegisterPort`, `BoardBus`), the channel (`MgmtChan`), the storage
(`Storage`), the FujiNet link (`FujiLink`), the log and the watch over core 1 (`CoreLoops`).

Next:

1. Abstract specifications: the mailbox as one question, one answer (`Storage`); the channel as a byte stream with
   resets (`MgmtChan`); the link as a disk with lost and doubtful writes (`FujiLink`).
2. A run for the image left open when a target moves to FujiNet.
