------------------------------- MODULE SasiBus -------------------------------
(***************************************************************************)
(* The SASI bus the Victor sees through the register window, and the two   *)
(* contexts of core 1 that produce it:                                     *)
(*   - the register ISR answers every bus cycle from the register cache,   *)
(*     predicts the next phase there and queues the operation;             *)
(*   - the worker, preemptible by the ISR at every store to a shared cell, *)
(*     takes the operations, drives bus_ctrl and executes the commands.    *)
(* The host is the driver of test/dos_dma_test/dma_vfy2.c: it polls STATUS *)
(* for one exact phase at a time and resets the board when a poll times    *)
(* out.  A bus cycle and the ISR's handling of it are one step: the ISR    *)
(* has the highest priority of its core.                                   *)
(***************************************************************************)
EXTENDS Naturals, Sequences

CONSTANTS
  CdbLen,       \* bytes of a command block, 6 in command_complete()
  ParamLen,     \* parameter bytes of command 0x0C over the DATA register, 8
  MaxBlocks,    \* bound: sectors of the longest transfer
  DmaRetries,   \* SASI_DMA_SECTOR_RETRIES, 8
  QueueSize,    \* DEFER_QUEUE_SIZE, 256
  Targets,      \* SASI target numbers the host selects
  MaxCommands,  \* bound: commands the host issues
  MaxResets,    \* bound: board resets the host performs
  Settle        \* whether the host's delay after a reset outlasts a command handler

ASSUME SizesAssumption ==
  /\ CdbLen \in Nat \ {0}
  /\ ParamLen \in Nat \ {0}
  /\ MaxBlocks \in Nat
  /\ DmaRetries \in Nat \ {0}
  /\ QueueSize \in Nat \ {0}
  /\ MaxCommands \in Nat
  /\ MaxResets \in Nat

ASSUME TargetsAssumption == Targets \subseteq Nat

VARIABLES
  cache,       \* cached_regs: what the ISR serves
  queue,       \* the defer queue (a bounded FIFO, see DeferQueue)
  drops,       \* whether the queue refused an operation
  dma,         \* the fields of dma_registers_t only the worker touches
  status,      \* dma->status
  addr,        \* dma->dma_address, by byte
  resetReq,    \* dma->reset_requested
  irqPending,  \* dma->state.interrupt_pending
  irqLine,     \* the level of DMA_IRQ_PIN
  pc,          \* the worker's control point
  todo,        \* stores to shared cells the worker still has to make
  w,           \* locals of the command handler that runs
  hp,          \* where the host's driver is
  latch,       \* the byte a bus read has returned and not yet committed
  step,        \* byte counter of the host's loops
  issued,      \* commands the host has started, oldest first
  resets       \* board resets so far

cacheVars == <<cache, queue, drops>>
sharedVars == <<status, addr, resetReq, irqPending, irqLine>>
workerVars == <<dma, pc, todo, w>>
hostVars == <<hp, latch, step, issued, resets>>
vars == <<cacheVars, sharedVars, workerVars, hostVars>>

-----------------------------------------------------------------------------
(* Signals of the SASI bus and the phases as the host reads them. *)

StatusBits == {"INP", "CTL", "BSY", "REQ", "MSG"}
Signals == StatusBits \cup {"SEL", "ACK"}

BusFree == {}
Selection == {"BSY"}
CommandPhase == {"BSY", "REQ", "CTL"}
ParamPhase == {"BSY", "REQ"}
StatusPhase == {"BSY", "REQ", "CTL", "INP"}
MessagePhase == StatusPhase \cup {"MSG"}

Busy(b) == (b \ {"REQ", "MSG", "INP", "ACK"}) \cup {"BSY", "CTL"}
DataIn(b) == (b \ {"REQ", "MSG", "CTL", "ACK"}) \cup {"BSY", "INP"}
DataOut(b) == (b \ {"REQ", "MSG", "CTL", "INP", "ACK"}) \cup {"BSY"}
ReqCommand(b) == (b \ {"ACK", "MSG", "INP"}) \cup {"BSY", "REQ", "CTL"}
ReqParam(b) == (b \ {"MSG", "CTL", "INP", "ACK"}) \cup {"BSY", "REQ"}
ReqStatus(b) == (b \ {"ACK", "MSG"}) \cup {"BSY", "REQ", "CTL", "INP"}

(* A command as the host means it.  "NONE" stands for every opcode that moves
   no data and is answered GOOD at once, unknown ones included. *)
Command ==
  [op : {"NONE"}, blocks : {0}, dma : {FALSE}, target : Targets]
    \cup [op : {"READ", "WRITE"}, blocks : 1 .. MaxBlocks, dma : {TRUE}, target : Targets]
    \cup [op : {"SENSE", "MODE"}, blocks : {0}, dma : {TRUE}, target : Targets]
    \cup [op : {"PARAMS"}, blocks : {0}, dma : BOOLEAN, target : Targets]

CommandId == 1 .. MaxCommands
NoCommand == 0

(* A byte written to DATA: a selection byte, the first byte of command n (which
   stands for the whole block), or one of the bytes that follow. *)
Byte == ({"target"} \X Targets) \cup ({"cdb"} \X CommandId) \cup {<<"fill", 0>>}

(* A status byte remembers which command it reports on. *)
StatusByte == [id : 0 .. MaxCommands, good : BOOLEAN]
Zero == [id |-> NoCommand, good |-> TRUE]

(* One byte of a DMA address: the byte of the address programmed for command
   "prog", advanced past "off" transfers. *)
Lane == {"L", "M", "H"}
LaneAt == [i \in 1 .. 3 |-> <<"L", "M", "H">>[i]]
AddrByte == [prog : 0 .. MaxCommands, off : Nat]
Address == [Lane -> AddrByte]
Programmed(k, n) == [l \in Lane |-> [prog |-> k, off |-> n]]
Advance(a) == [l \in Lane |-> [a[l] EXCEPT !.off = @ + 1]]

ControlBits == {"ON", "LATCH", "SEL", "RESET"}
QueueEntry ==
  ({"control"} \X SUBSET ControlBits) \cup ({"data"} \X Byte) \cup {<<"read", 0>>}

-----------------------------------------------------------------------------
(* The ISR's side: what one bus cycle does. *)

Enqueue(e) ==
  IF Len(queue) < QueueSize - 1
    THEN queue' = Append(queue, e) /\ UNCHANGED drops
    ELSE drops' = TRUE /\ UNCHANGED queue

(* PREFETCH of DATA: the byte served depends on the cached phase. *)
ServeData ==
  CASE {"CTL", "INP", "MSG"} \subseteq cache.stat -> Zero
    [] {"CTL", "INP"} \subseteq cache.stat /\ "MSG" \notin cache.stat -> status
    [] OTHER -> cache.data

IsrFetchData ==
  /\ latch' = <<ServeData>>
  /\ cache' = [cache EXCEPT !.data = ServeData]
  /\ UNCHANGED <<queue, drops, sharedVars>>

AfterDataReadSame == cache
(* The cache moves status -> message -> free as soon as the byte is read. *)
AfterDataRead ==
  CASE "MSG" \in cache.stat ->
         [cache EXCEPT !.data = Zero, !.stat = BusFree]
    [] "MSG" \notin cache.stat /\ {"CTL", "INP"} \subseteq cache.stat ->
         [cache EXCEPT !.data = Zero, !.stat = @ \cup {"MSG"}]
    [] OTHER -> cache

(* READ_COMMIT of DATA. *)
IsrCommitData ==
  /\ cache' = AfterDataRead
  /\ Enqueue(<<"read", 0>>)
  /\ UNCHANGED sharedVars

IsrCommitStatusKeepsLatch ==
  /\ irqLine' = FALSE
  /\ UNCHANGED <<cacheVars, status, addr, resetReq, irqPending>>

(* READ_COMMIT of STATUS clears the interrupt latch and the line. *)
IsrCommitStatus ==
  /\ irqPending' = FALSE
  /\ irqLine' = (irqLine /\ ~irqPending)
  /\ UNCHANGED <<cacheVars, status, addr, resetReq>>

(* What the ISR predicts from a CONTROL write: RESET first, then the edges of
   SELECT. *)
Predicted(c) ==
  LET phase(b) == [cache EXCEPT !.stat = b, !.data = Zero, !.sel = "SEL" \in c]
  IN  CASE "RESET" \in c -> phase(BusFree)
        [] "RESET" \notin c /\ "SEL" \in c /\ ~cache.sel -> phase(Selection)
        [] "RESET" \notin c /\ "SEL" \notin c /\ cache.sel -> phase(CommandPhase)
        [] OTHER -> [cache EXCEPT !.sel = "SEL" \in c]

FlaggedNever(c) == resetReq
(* RESET tells the command in flight to stop. *)
Flagged(c) == resetReq \/ "RESET" \in c

(* WRITE of CONTROL. *)
IsrWriteControl(c) ==
  /\ cache' = Predicted(c)
  /\ resetReq' = Flagged(c)
  /\ Enqueue(<<"control", c>>)
  /\ UNCHANGED <<status, addr, irqPending, irqLine>>

(* WRITE of DATA never touches the cache. *)
IsrWriteData(b) ==
  /\ Enqueue(<<"data", b>>)
  /\ UNCHANGED <<cache, sharedVars>>

(* WRITE of an address byte takes effect in the ISR and is not queued. *)
IsrWriteAddr(l, b) ==
  /\ addr' = [addr EXCEPT ![l] = b]
  /\ cache' = [cache EXCEPT !.addr[l] = b]
  /\ UNCHANGED <<queue, drops, status, resetReq, irqPending, irqLine>>

-----------------------------------------------------------------------------
(* The host's driver. *)

Expected ==
  [idle |-> BusFree, bsy |-> Selection, cmd |-> CommandPhase, param |-> ParamPhase,
   stat |-> StatusPhase, msg |-> MessagePhase]
AfterPoll ==
  [idle |-> "target", bsy |-> "deselect", cmd |-> "byte", param |-> "parambyte",
   stat |-> "readstat", msg |-> "readmsg"]
Polls == DOMAIN Expected

Current == Len(issued)
Mine == issued[Current]
BaseControl == {"LATCH"} \cup (IF Mine.dma THEN {"ON"} ELSE {})

HostBegin(c) ==
  /\ hp = "start"
  /\ Current < MaxCommands
  /\ issued' = Append(issued, c)
  /\ IsrWriteControl({"LATCH"} \cup (IF c.dma THEN {"ON"} ELSE {}))
  /\ hp' = "addr"
  /\ step' = 1
  /\ UNCHANGED <<latch, resets, workerVars>>

HostAddress ==
  /\ hp = "addr"
  /\ IsrWriteAddr(LaneAt[step], [prog |-> Current, off |-> 0])
  /\ hp' = IF step = 3 THEN "idle" ELSE hp
  /\ step' = IF step = 3 THEN 1 ELSE step + 1
  /\ UNCHANGED <<latch, issued, resets, workerVars>>

(* One poll of STATUS: the prefetch returns the cached phase ... *)
HostPoll ==
  /\ hp \in Polls
  /\ latch = <<>>
  /\ latch' = <<cache.stat>>
  /\ UNCHANGED <<cacheVars, sharedVars, workerVars, hp, step, issued, resets>>

(* ... and the commit ends the bus cycle; the driver compares. *)
HostPolled ==
  /\ hp \in Polls
  /\ latch # <<>>
  /\ hp' = IF latch[1] = Expected[hp] THEN AfterPoll[hp] ELSE hp
  /\ latch' = <<>>
  /\ IsrCommitStatus
  /\ UNCHANGED <<step, issued, resets, workerVars>>

HostTarget ==
  /\ hp = "target"
  /\ IsrWriteData(<<"target", Mine.target>>)
  /\ hp' = "select"
  /\ UNCHANGED <<latch, step, issued, resets, workerVars>>

HostSelect ==
  /\ hp = "select"
  /\ IsrWriteControl(BaseControl \cup {"SEL"})
  /\ hp' = "bsy"
  /\ UNCHANGED <<latch, step, issued, resets, workerVars>>

HostDeselect ==
  /\ hp = "deselect"
  /\ IsrWriteControl(BaseControl)
  /\ hp' = "cmd"
  /\ step' = 1
  /\ UNCHANGED <<latch, issued, resets, workerVars>>

HostCommandByte ==
  /\ hp = "byte"
  /\ IsrWriteData(IF step = 1 THEN <<"cdb", Current>> ELSE <<"fill", 0>>)
  /\ hp' = CASE step < CdbLen -> "cmd"
             [] step >= CdbLen /\ Mine.op = "PARAMS" /\ ~Mine.dma -> "param"
             [] OTHER -> "stat"
  /\ step' = IF step < CdbLen THEN step + 1 ELSE 1
  /\ UNCHANGED <<latch, issued, resets, workerVars>>

HostParamByte ==
  /\ hp = "parambyte"
  /\ IsrWriteData(<<"fill", 0>>)
  /\ hp' = IF step < ParamLen THEN "param" ELSE "stat"
  /\ step' = IF step < ParamLen THEN step + 1 ELSE 1
  /\ UNCHANGED <<latch, issued, resets, workerVars>>

HostReadData ==
  /\ hp \in {"readstat", "readmsg"}
  /\ latch = <<>>
  /\ IsrFetchData
  /\ UNCHANGED <<hp, step, issued, resets, workerVars>>

(* On a status other than GOOD the driver gives up and resets the board; a BIOS
   reads the message first. *)
HostAccept ==
  /\ hp \in {"readstat", "readmsg"}
  /\ latch # <<>>
  /\ IsrCommitData
  /\ latch' = <<>>
  /\ hp' \in CASE hp = "readmsg" -> {"start"}
               [] hp = "readstat" /\ ~latch[1].good /\ resets < MaxResets -> {"msg", "reset"}
               [] OTHER -> {"msg"}
  /\ UNCHANGED <<step, issued, resets, workerVars>>

Quiet == queue = <<>> /\ pc = "idle" /\ todo = <<>>

(* The delays of the host are far longer than what the worker needs for a queued
   operation: only a command handler, or a bus on which nothing moves any more,
   outlasts MAX_POLL_ITERATIONS polls. *)
HostTimeout ==
  /\ hp \in Polls
  /\ latch # <<>>
  /\ latch[1] # Expected[hp]
  /\ pc # "idle" \/ Quiet
  /\ resets < MaxResets
  /\ hp' = "reset"
  /\ latch' = <<>>
  /\ IsrCommitStatus
  /\ UNCHANGED <<workerVars, step, issued, resets>>

HostReset ==
  /\ hp = "reset"
  /\ IsrWriteControl({"RESET"})
  /\ resets' = resets + 1
  /\ hp' = "unreset"
  /\ UNCHANGED <<latch, step, issued, workerVars>>

HostUnreset ==
  /\ hp = "unreset"
  /\ IsrWriteControl({})
  /\ hp' = "settle"
  /\ UNCHANGED <<latch, step, issued, resets, workerVars>>

(* The driver's "small delay to let the board settle". *)
HostSettled ==
  /\ hp = "settle"
  /\ Quiet \/ (~Settle /\ pc # "idle")
  /\ hp' = "start"
  /\ UNCHANGED <<cacheVars, sharedVars, workerVars, latch, step, issued, resets>>

HostProgress ==
  \/ \E c \in Command : HostBegin(c)
  \/ HostAddress \/ HostPoll \/ HostPolled \/ HostTarget \/ HostSelect
  \/ HostDeselect \/ HostCommandByte \/ HostParamByte \/ HostReadData
  \/ HostAccept \/ HostReset \/ HostUnreset \/ HostSettled

-----------------------------------------------------------------------------
(* The worker's stores to shared cells, each its own step. *)

Stat(b) == <<"stat", b \cap StatusBits>>   \* both aliases of cached STATUS
Irq(b) == <<"irq", b>>                     \* dma_update_interrupts: test and latch
Line(b) == <<"line", b>>                   \* ... then the pin

StatusStoresLateByte(b, s) ==
  <<Stat(ReqStatus(b)), <<"status", s>>, <<"data", s>>, Irq(TRUE)>>
(* sasi_enter_status_phase, the stores the ISR can see. *)
StatusStores(b, s) ==
  <<<<"status", s>>, <<"data", s>>, Stat(ReqStatus(b)), Irq(TRUE)>>

(* dma_address.full = a; cached_sync_dma_address: a load and a store per byte. *)
WriteBack(a) ==
  <<<<"addr", a>>, <<"load", "L">>, <<"sync", "L">>, <<"load", "M">>, <<"sync", "M">>,
    <<"load", "H">>, <<"sync", "H">>>>

StoreSet ==
  ({"stat"} \X SUBSET StatusBits) \cup ({"irq", "line"} \X BOOLEAN)
    \cup ({"status", "data"} \X StatusByte) \cup ({"addr"} \X Address)
    \cup ({"load", "sync"} \X Lane) \cup {<<"unreset", 0>>}

CacheStore(s) ==
  /\ cache' = CASE s[1] = "stat" -> [cache EXCEPT !.stat = s[2]]
                [] s[1] = "data" -> [cache EXCEPT !.data = s[2]]
                [] s[1] = "sync" -> [cache EXCEPT !.addr[s[2]] = w.byte]
                [] OTHER -> cache

SharedStore(s) ==
  /\ status' = IF s[1] = "status" THEN s[2] ELSE status
  /\ addr' = IF s[1] = "addr" THEN s[2] ELSE addr
  /\ resetReq' = IF s[1] = "unreset" THEN FALSE ELSE resetReq
  /\ irqPending' = IF s[1] = "irq" THEN s[2] ELSE irqPending
  /\ irqLine' = IF s[1] = "line" THEN s[2] ELSE irqLine

WorkerStore ==
  /\ todo # <<>>
  /\ LET s == Head(todo) IN
       /\ CacheStore(s)
       /\ SharedStore(s)
       /\ todo' = (IF s[1] = "irq" /\ s[2] # irqPending THEN <<Line(s[2])>> ELSE <<>>)
                    \o Tail(todo)
       /\ w' = IF s[1] = "load" THEN [w EXCEPT !.byte = addr[s[2]]]
               ELSE IF s[1] = "sync" THEN [w EXCEPT !.byte = [prog |-> 0, off |-> 0]]
               ELSE w
  /\ UNCHANGED <<queue, drops, dma, pc, hostVars>>

-----------------------------------------------------------------------------
(* The worker takes one queued operation. *)

ExtractTarget(b) == IF b[1] = "target" THEN b[2] ELSE 0

(* sasi_enter_status_phase, the worker's own cells. *)
AwaitStatus(d) ==
  [d EXCEPT !.bus = ReqStatus(@), !.nonDmaReq = TRUE, !.statusPending = TRUE]

ResetStoresKeepFlag ==
  <<<<"status", Zero>>, Irq(FALSE), Stat(BusFree), <<"data", Zero>>>>
(* What dma_device_reset and its caller store: the request is answered here, and
   the cache is cleared a second time. *)
ResetStores ==
  <<<<"status", Zero>>, <<"unreset", 0>>, Irq(FALSE), Stat(BusFree), <<"data", Zero>>>>

DeferResetKeepsCount(c) ==
  /\ dma' = [dma EXCEPT !.bus = {}, !.nonDmaReq = FALSE, !.statusPending = FALSE,
                        !.dmaEnabled = FALSE, !.select = "SEL" \in c,
                        !.command = <<"fill", 0>>, !.target = 0]
  /\ w' = [w EXCEPT !.index = 0]
  /\ todo' = ResetStores
  /\ UNCHANGED pc
(* CONTROL with RESET. *)
DeferReset(c) ==
  /\ dma' = [dma EXCEPT !.bus = {}, !.nonDmaReq = FALSE, !.statusPending = FALSE,
                        !.dataOut = 0, !.dmaEnabled = FALSE, !.select = "SEL" \in c,
                        !.command = <<"fill", 0>>, !.target = 0]
  /\ w' = [w EXCEPT !.index = 0]
  /\ todo' = ResetStores
  /\ UNCHANGED pc

SelectedTargetKept == dma.target
(* The selection byte precedes SELECT, so the edge reads it back. *)
SelectedTarget == ExtractTarget(dma.command)

EdgeStoresSynced(fall, b) == <<Stat(b)>> \o IF fall THEN <<Irq(TRUE)>> ELSE <<>>
(* The cache is left alone: the ISR may have moved it on already. *)
EdgeStores(fall, b) == IF fall THEN <<Irq(TRUE)>> ELSE <<>>

(* CONTROL without RESET: the enable latch and the edges of SELECT. *)
DeferControl(c) ==
  LET latched == [dma EXCEPT !.select = "SEL" \in c,
                             !.dmaEnabled = IF "LATCH" \in c THEN "ON" \in c ELSE @]
      rise == "SEL" \in c /\ ~dma.select
      fall == "SEL" \notin c /\ dma.select
  IN  /\ dma' = CASE rise -> [latched EXCEPT !.bus = @ \cup {"SEL", "BSY"},
                                             !.target = SelectedTarget]
                  [] fall -> [latched EXCEPT !.bus = (@ \ {"SEL", "INP"})
                                                       \cup {"BSY", "REQ", "CTL"},
                                             !.nonDmaReq = TRUE]
                  [] OTHER -> latched
      /\ todo' = EdgeStores(fall, dma'.bus)
      /\ UNCHANGED <<pc, w>>

(* sasi_cmd_index starts again once command_complete() holds. *)
NextIndex == IF w.index + 1 >= CdbLen THEN 0 ELSE w.index + 1

(* handle_sasi_command_byte: the last byte starts the command, any other asks
   for the next one. *)
CommandByte(d, acked, b) ==
  LET first == IF w.index = 0 THEN (IF b[1] = "cdb" THEN b[2] ELSE NoCommand) ELSE w.cdb
  IN  /\ w' = [w EXCEPT !.index = NextIndex, !.cdb = first]
      /\ IF w.index + 1 >= CdbLen
           THEN /\ dma' = d
                /\ pc' = "route"
                /\ todo' = acked
           ELSE /\ dma' = [d EXCEPT !.bus = ReqCommand(@), !.nonDmaReq = TRUE]
                /\ todo' = acked \o <<Stat(ReqCommand(d.bus)), Irq(TRUE)>>
                /\ UNCHANGED pc

(* handle_sasi_data_out_byte: the last parameter byte completes with GOOD. *)
ParamByte(d, acked) ==
  /\ IF d.dataOut > 1
       THEN /\ dma' = [d EXCEPT !.bus = ReqParam(@), !.nonDmaReq = TRUE, !.dataOut = @ - 1]
            /\ todo' = acked \o <<Stat(ReqParam(d.bus)), Irq(TRUE)>>
       ELSE /\ dma' = AwaitStatus([d EXCEPT !.dataOut = 0])
            /\ todo' = acked \o StatusStores(d.bus, [id |-> w.cdb, good |-> TRUE])
  /\ UNCHANGED <<pc, w>>

(* DATA: acknowledge the byte, then hand it to the phase the bus is in. *)
DeferData(b) ==
  LET named == [dma EXCEPT !.command = b,
                           !.target = IF dma.select THEN ExtractTarget(b) ELSE @,
                           !.bus = IF dma.select THEN @ \ {"SEL"} ELSE @]
      taken == dma.nonDmaReq /\ "INP" \notin dma.bus
      d == IF taken
             THEN [named EXCEPT !.nonDmaReq = FALSE, !.bus = (@ \ {"REQ"}) \cup {"ACK"}]
             ELSE named
      acked == IF taken THEN <<Stat(d.bus)>> ELSE <<>>
  IN  \/ /\ d.bus \cap {"CTL", "INP", "MSG"} = {"CTL"}
         /\ CommandByte(d, acked, b)
      \/ /\ d.bus \cap {"CTL", "INP", "MSG"} # {"CTL"}
         /\ d.dataOut > 0
         /\ ParamByte(d, acked)
      \/ /\ d.bus \cap {"CTL", "INP", "MSG"} # {"CTL"}
         /\ d.dataOut = 0
         /\ dma' = d
         /\ todo' = acked
         /\ UNCHANGED <<pc, w>>

(* A committed read of DATA: status -> message, message -> free. *)
DeferRead ==
  /\ \/ /\ "MSG" \in dma.bus
        /\ dma' = [dma EXCEPT !.bus = {}, !.nonDmaReq = FALSE, !.statusPending = FALSE]
        /\ todo' = <<Irq(FALSE)>>
     \/ /\ dma.bus \cap {"MSG", "CTL", "INP"} = {"CTL", "INP"}
        /\ dma' = IF dma.statusPending
                    THEN [dma EXCEPT !.bus = @ \cup {"MSG"}, !.nonDmaReq = TRUE,
                                     !.statusPending = FALSE]
                    ELSE dma
        /\ todo' = IF dma.statusPending THEN <<Irq(TRUE)>> ELSE <<>>
     \/ /\ "MSG" \notin dma.bus
        /\ ~({"CTL", "INP"} \subseteq dma.bus)
        /\ dma' = [dma EXCEPT !.nonDmaReq = @ /\ ~("INP" \in dma.bus)]
        /\ todo' = <<>>
  /\ UNCHANGED <<pc, w>>

WorkerTake ==
  /\ pc = "idle"
  /\ todo = <<>>
  /\ queue # <<>>
  /\ queue' = Tail(queue)
  /\ LET e == Head(queue) IN
       \/ e[1] = "control" /\ "RESET" \in e[2] /\ DeferReset(e[2])
       \/ e[1] = "control" /\ "RESET" \notin e[2] /\ DeferControl(e[2])
       \/ e[1] = "data" /\ DeferData(e[2])
       \/ e[1] = "read" /\ DeferRead
  /\ UNCHANGED <<cache, drops, sharedVars, hostVars>>

-----------------------------------------------------------------------------
(* The worker executes a command: route_to_sasi_target and the handlers. *)

Unknown == [op |-> "NONE", blocks |-> 0, dma |-> FALSE, target |-> 0]
Running == IF w.cdb = NoCommand THEN Unknown ELSE issued[w.cdb]
Verdict(good) == [id |-> w.cdb, good |-> good]

WorkerAt(p) ==
  /\ pc = p
  /\ todo = <<>>
  /\ UNCHANGED <<cacheVars, sharedVars, hostVars>>

(* Leave the handler through signal_command_complete_with_status. *)
Complete(before, good) ==
  /\ pc' = "idle"
  /\ dma' = AwaitStatus(dma)
  /\ todo' = before \o StatusStores(dma.bus, Verdict(good))

(* Drive a phase of the bus and go on at p. *)
Phase(b, p) ==
  /\ pc' = p
  /\ dma' = [dma EXCEPT !.bus = b]
  /\ todo' = <<Stat(b)>>

Fresh == [w EXCEPT !.block = 0, !.try = 1, !.ok = TRUE, !.wrote = FALSE, !.synced = FALSE]

Route ==
  /\ WorkerAt("route")
  /\ \/ /\ Running.op = "NONE"
        /\ Complete(<<>>, TRUE)
     \/ /\ Running.op \in {"READ", "WRITE"}
        /\ Phase(Busy(dma.bus), "snapshot")
     \/ /\ Running.op = "SENSE"
        /\ Phase(DataIn(dma.bus) \cup (dma.bus \cap {"ACK"}), "burst")
     \/ /\ Running.op = "MODE"
        /\ Phase(DataOut(dma.bus) \cup (dma.bus \cap {"ACK"}), "burst")
     \/ /\ Running.op = "PARAMS"
        /\ dma.dmaEnabled
        /\ Phase(DataOut(dma.bus), "burst")
     \/ /\ Running.op = "PARAMS"
        /\ ~dma.dmaEnabled
        /\ pc' = "idle"
        /\ dma' = [dma EXCEPT !.bus = ReqParam(@), !.dataOut = ParamLen, !.nonDmaReq = TRUE]
        /\ todo' = <<Stat(ReqParam(dma.bus)), Irq(TRUE)>>
  /\ w' = Fresh

(* REQUEST SENSE, MODE SELECT, DMA parameters: read the address, one transfer. *)
Burst ==
  /\ WorkerAt("burst")
  /\ pc' = "bursting"
  /\ w' = [w EXCEPT !.loc = addr]
  /\ UNCHANGED <<dma, todo>>

BurstDone ==
  /\ WorkerAt("bursting")
  /\ \/ Complete(WriteBack(Advance(w.loc)), TRUE)
     \/ Complete(<<>>, FALSE)
  /\ w' = [w EXCEPT !.loc = Programmed(0, 0)]

(* READ and WRITE work on a private copy of the address. *)
Snapshot ==
  /\ WorkerAt("snapshot")
  /\ pc' = "loop"
  /\ w' = [w EXCEPT !.loc = addr]
  /\ UNCHANGED <<dma, todo>>

Fail ==
  /\ pc' = "check"
  /\ w' = [w EXCEPT !.ok = FALSE]
  /\ UNCHANGED <<dma, todo>>

(* Top of the sector loop: a reset ends it; READ turns to the storage, WRITE to the
   transfer. *)
SectorBegin ==
  /\ WorkerAt("loop")
  /\ \/ /\ resetReq \/ w.block = Running.blocks
        /\ pc' = "check"
        /\ UNCHANGED <<dma, todo, w>>
     \/ /\ ~resetReq /\ w.block < Running.blocks
        /\ Running.op = "READ"
        /\ pc' = "fetch"
        /\ UNCHANGED <<dma, todo, w>>
     \/ /\ ~resetReq /\ w.block < Running.blocks
        /\ Running.op = "WRITE"
        /\ Phase(DataOut(dma.bus), "transfer")
        /\ w' = [w EXCEPT !.try = 1]

(* READ goes to DATA IN when the storage has answered, milliseconds after the test:
   a reset that comes meanwhile does not keep the sector from being transferred. *)
FetchSector ==
  /\ WorkerAt("fetch")
  /\ \/ Fail
     \/ Phase(DataIn(dma.bus), "transfer") /\ w' = [w EXCEPT !.try = 1]

SectorEnd ==
  IF w.block + 1 < Running.blocks
    THEN Phase(Busy(dma.bus), "loop")
    ELSE pc' = "loop" /\ UNCHANGED <<dma, todo>>

AdvancedNoMove == [w EXCEPT !.block = @ + 1]
Advanced == [w EXCEPT !.block = @ + 1, !.loc = Advance(@)]

(* One DMA attempt of the sector; the last failing attempt fails the command. *)
Transfer ==
  /\ WorkerAt("transfer")
  /\ \/ /\ Running.op = "READ"
        /\ SectorEnd
        /\ w' = Advanced
     \/ /\ Running.op = "WRITE"
        /\ pc' = "store"
        /\ UNCHANGED <<dma, todo, w>>
     \/ /\ w.try < DmaRetries
        /\ w' = [w EXCEPT !.try = @ + 1]
        /\ UNCHANGED <<pc, dma, todo>>
     \/ /\ w.try = DmaRetries
        /\ Fail

(* WRITE stores the sector before it moves on. *)
StoreSector ==
  /\ WorkerAt("store")
  /\ \/ SectorEnd /\ w' = [Advanced EXCEPT !.wrote = TRUE]
     \/ Fail

(* After the loop: no status for a host that has reset the board.  That the target
   is still mounted is true here: its last sector has just been stored through that
   mount, and only core 1 unmounts, between two commands. *)
CheckReset ==
  /\ WorkerAt("check")
  /\ pc' = CASE resetReq -> "idle"
             [] ~resetReq /\ Running.op = "WRITE" /\ w.wrote /\ w.ok -> "sync"
             [] OTHER -> "finish"
  /\ UNCHANGED <<dma, todo, w>>

SyncIgnored ==
  /\ WorkerAt("sync")
  /\ pc' = "finish"
  /\ \E s \in BOOLEAN : w' = [w EXCEPT !.synced = s]
  /\ UNCHANGED <<dma, todo>>

(* storage_sync decides whether the data really reached the medium. *)
Sync ==
  /\ WorkerAt("sync")
  /\ pc' = "finish"
  /\ \E s \in BOOLEAN : w' = [w EXCEPT !.synced = s, !.ok = s]
  /\ UNCHANGED <<dma, todo>>

(* The final address is written back and mirrored, then the status is raised. *)
Finish ==
  /\ WorkerAt("finish")
  /\ Complete(WriteBack(w.loc), w.ok)
  /\ w' = [w EXCEPT !.loc = Programmed(0, 0)]

Worker ==
  \/ WorkerStore \/ WorkerTake \/ Route \/ Burst \/ BurstDone \/ Snapshot
  \/ SectorBegin \/ FetchSector \/ Transfer \/ StoreSector \/ CheckReset \/ Sync \/ Finish

-----------------------------------------------------------------------------
Init ==
  /\ cache = [stat |-> BusFree, data |-> Zero, sel |-> FALSE, addr |-> Programmed(0, 0)]
  /\ queue = <<>>
  /\ drops = FALSE
  /\ dma = [bus |-> {}, nonDmaReq |-> FALSE, statusPending |-> FALSE, dataOut |-> 0,
            dmaEnabled |-> FALSE, select |-> FALSE, command |-> <<"fill", 0>>, target |-> 0]
  /\ status = Zero
  /\ addr = Programmed(0, 0)
  /\ resetReq = FALSE
  /\ irqPending = FALSE
  /\ irqLine = FALSE
  /\ pc = "idle"
  /\ todo = <<>>
  /\ w = [index |-> 0, cdb |-> NoCommand, block |-> 0, try |-> 1, ok |-> TRUE,
          wrote |-> FALSE, synced |-> FALSE, loc |-> Programmed(0, 0),
          byte |-> [prog |-> 0, off |-> 0]]
  /\ hp = "start"
  /\ latch = <<>>
  /\ step = 1
  /\ issued = <<>>
  /\ resets = 0

Next == HostProgress \/ HostTimeout \/ Worker

Spec == Init /\ [][Next]_vars

(* The worker loop never blocks for good: every wait in it has a timeout.  The
   host keeps polling until it gives up. *)
FairSpec == Spec /\ WF_vars(Worker) /\ WF_vars(HostProgress)

-----------------------------------------------------------------------------
HostPoints ==
  Polls \cup {"start", "addr", "target", "select", "deselect", "byte", "parambyte",
              "readstat", "readmsg", "reset", "unreset", "settle"}
WorkerPoints ==
  {"idle", "route", "snapshot", "loop", "fetch", "transfer", "store", "check", "sync",
   "finish", "burst", "bursting"}

DmaType ==
  [bus : SUBSET Signals, nonDmaReq : BOOLEAN, statusPending : BOOLEAN,
   dataOut : 0 .. ParamLen, dmaEnabled : BOOLEAN, select : BOOLEAN,
   command : Byte, target : Targets \cup {0}]

LocalsType ==
  [index : 0 .. CdbLen - 1, cdb : 0 .. MaxCommands, block : Nat, try : 1 .. DmaRetries,
   ok : BOOLEAN, wrote : BOOLEAN, synced : BOOLEAN, loc : Address, byte : AddrByte]

(* What a bus read has latched is a phase while the host polls, a byte while it
   reads DATA. *)
LatchOK ==
  \/ latch = <<>>
  \/ hp \in Polls /\ latch \in {<<b>> : b \in SUBSET StatusBits}
  \/ hp \in {"readstat", "readmsg"} /\ \E x \in StatusByte : latch = <<x>>

SharedType ==
  /\ cache \in [stat : SUBSET StatusBits, data : StatusByte, sel : BOOLEAN, addr : Address]
  /\ queue \in Seq(QueueEntry) /\ Len(queue) < QueueSize
  /\ drops \in BOOLEAN
  /\ status \in StatusByte
  /\ addr \in Address
  /\ resetReq \in BOOLEAN /\ irqPending \in BOOLEAN /\ irqLine \in BOOLEAN

WorkerType ==
  /\ dma \in DmaType
  /\ pc \in WorkerPoints
  /\ todo \in Seq(StoreSet)
  /\ w \in LocalsType

HostType ==
  /\ hp \in HostPoints
  /\ LatchOK
  /\ step \in Nat \ {0} /\ (hp = "addr" => step \in 1 .. 3)
  /\ issued \in Seq(Command) /\ Len(issued) <= MaxCommands
  /\ hp # "start" => issued # <<>>
  /\ resets \in 0 .. MaxResets /\ (hp = "reset" => resets < MaxResets)

(* Type invariant: in particular the command index and the parameter counter of
   the worker stay inside their buffers (sasi_command_buffer, buffer.data). *)
TypeOK == SharedType /\ WorkerType /\ HostType

StatusLatched == hp = "readstat" /\ latch # <<>>

(* The status byte the host reads is the one of the command it has just sent,
   whatever the worker had queued up or was executing (sasi_enter_status_phase
   stores the byte before the phase; the ISR serves dma->status). *)
StatusIsForThisCommand == StatusLatched => latch[1].id = Current

(* GOOD for READ means that every block reached the host's memory, GOOD for
   WRITE that every block was stored and the medium synced (handle_read_sectors,
   handle_write_sectors). *)
GoodMeansDone ==
  (StatusLatched /\ latch[1].id = Current /\ latch[1].good) =>
    CASE Mine.op = "READ" -> w.block = Mine.blocks
      [] Mine.op = "WRITE" -> w.block = Mine.blocks /\ w.synced
      [] OTHER -> TRUE

(* A transfer goes where the host's command asked: to the address it programmed
   for that command, advanced once per completed block, never to a mixture of
   two addresses nor to one left over from another command. *)
TransferAddress ==
  /\ pc \in {"transfer", "store"} => w.loc = Programmed(w.cdb, w.block)
  /\ pc = "bursting" => w.loc = Programmed(w.cdb, 0)

(* The address a host programs after a reset is the one its next command uses,
   whatever the aborted command still had to do ("DO NOT zero dma_address.full --
   ISR updates address bytes inline", dma_device_reset; the snapshot comment of
   handle_read_sectors). *)
AddressSurvivesReset ==
  pc \in {"transfer", "store"} /\ ~resetReq /\ w.cdb = Current
    => w.loc = Programmed(w.cdb, w.block)

(* The ISR predicts phases in the cache ahead of bus_ctrl and the worker mirrors
   its own; ISR and worker both write both copies of the DMA address.  Once nothing
   is pending, what the host reads is what is in force. *)
CoherentWhenQuiet == Quiet => cache.stat = dma.bus \cap StatusBits /\ cache.addr = addr

(* A command executes on the target named before its own selection. *)
TargetIsSelected ==
  pc # "idle" /\ w.cdb # NoCommand => dma.target = issued[w.cdb].target

(* An interrupt that is latched is also on the line: the host is never left
   waiting for an edge that was swallowed (dma_update_interrupts acts on changes
   of the latch only). *)
IrqNotLost == Quiet /\ irqPending => irqLine

ResetQueued == \E i \in 1 .. Len(queue) : queue[i][1] = "control" /\ "RESET" \in queue[i][2]
ResetUnderWay == \E i \in 1 .. Len(todo) : todo[i] = <<"unreset", 0>>

(* An abort request is always on its way to be answered: READ and WRITE cannot
   be silenced by a reset_requested that no queued RESET will clear, unless the
   queue refused the RESET. *)
ResetFlagBacked == resetReq => ResetQueued \/ ResetUnderWay \/ drops

(* "DO NOT zero the cache here or in the caller ... create a window where the
   host sees bus_free status despite an active IRQ" (dma_device_reset): a bus
   that is in some phase never reads as free. *)
NoFreeBusIllusion == Quiet /\ dma.bus # {} => cache.stat # BusFree

(* Once the RESET is queued, the sector whose turn has begun, its fetch from storage
   included, is the last one: the handler begins no other ("Abort immediately if host
   sent a RESET while we were busy", handle_read_sectors), and when it gets to its end
   it neither syncs nor answers ("If host reset during the loop, skip status").  A
   RESET queued after that last test comes too late: this handler does answer. *)
AbortsOnReset ==
  [][ResetQueued => /\ pc = "loop" => pc' = "check"
                    /\ pc = "check" => pc' = "idle"]_pc

Acknowledged(b) == b \ {"REQ"}

(* The phases the host sees follow the SASI order: a status only becomes a
   message, a message only bus free, bus free only a selection; a request of the
   command or parameter phase is withdrawn only by the acknowledge of the byte;
   only a message or a reset frees the bus. *)
PhaseStep(b, c) ==
  /\ b = StatusPhase => c \in {b, MessagePhase}
  /\ b = MessagePhase => c \in {b, BusFree}
  /\ b = BusFree => c \in {b, Selection}
  /\ b \in {CommandPhase, ParamPhase} => c \in {b, Acknowledged(b)}
  /\ c = MessagePhase => b \in {c, StatusPhase}
  /\ c = BusFree => b \in {c, MessagePhase}

PhaseOrder ==
  [][hp \notin {"reset", "unreset", "settle"} => PhaseStep(cache.stat, cache'.stat)]_cache

(* A command the host starts comes to its end: a message read, whatever fails on
   the way, or a reset of the board. *)
HostFinishes == (hp # "start") ~> (hp = "start")
=============================================================================
