----------------------------- MODULE SasiInStep -----------------------------
(***************************************************************************)
(* What the host, its bus cycles and the worker know of each other: the    *)
(* inductive invariant of the SASI bus model.                              *)
(*                                                                         *)
(* The host numbers what it sends for a command: the two reads that end    *)
(* the command before it, the control write that begins it, the selection  *)
(* byte, the two edges of SELECT, the bytes of the command block, the      *)
(* parameter bytes.  With e of them sent, the queue holds the last ones,   *)
(* the worker is where it must be after the others, and the cached phase   *)
(* is the one the ISR has predicted or, from the first command byte on,    *)
(* the worker's own.                                                       *)
(***************************************************************************)
EXTENDS SasiBus

(* Does the current command ask for parameter bytes; how many entries there are up
   to the end of its block, and in all; the i-th of them. *)
Asks == Mine.op = "PARAMS" /\ ~Mine.dma
Block == 6 + CdbLen
Final == IF Asks THEN Block + ParamLen ELSE Block

Entry(i) ==
  CASE i <= 2 -> <<"read", 0>>
    [] i = 3 -> <<"control", BaseControl>>
    [] i = 4 -> <<"data", <<"target", Mine.target>>>>
    [] i = 5 -> <<"control", BaseControl \cup {"SEL"}>>
    [] i = 6 -> <<"control", BaseControl>>
    [] i = 7 -> <<"data", <<"cdb", Current>>>>
    [] OTHER -> <<"data", <<"fill", 0>>>>

(* How many of them the host has sent. *)
Sent ==
  CASE hp = "readstat" -> 0
    [] hp \in {"msg", "readmsg"} -> 1
    [] hp = "start" -> 2
    [] hp \in {"addr", "idle", "target"} -> 3
    [] hp = "select" -> 4
    [] hp \in {"bsy", "deselect"} -> 5
    [] hp \in {"cmd", "byte"} -> 5 + step
    [] hp \in {"param", "parambyte"} -> 5 + CdbLen + step
    [] OTHER -> Final

(* The bus once the worker has taken i of them, up to the last edge of SELECT. *)
BusAt(i) ==
  CASE i = 0 -> StatusPhase
    [] i = 1 -> MessagePhase
    [] i \in {2, 3, 4} -> BusFree
    [] i = 5 -> {"SEL", "BSY"}
    [] OTHER -> CommandPhase

(* Plans of stores: of which kinds they are, which phases they store, and what the
   cache reads in the end if it reads c now. *)
Only(s, K) == \A i \in 1 .. Len(s) : s[i][1] \in K
Silent(s) == Only(s, {"irq", "line"})
Among(s, X) == \A i \in 1 .. Len(s) : s[i][1] = "stat" => s[i][2] \in X
LeadsTo(c, s, b) ==
  /\ (\A i \in 1 .. Len(s) : s[i][1] # "stat") => c = b
  /\ \A i \in 1 .. Len(s) :
       s[i][1] = "stat" /\ (\A j \in 1 .. Len(s) : i < j => s[j][1] # "stat") => s[i][2] = b

(* The verdict on the current command. *)
Executed ==
  CASE Mine.op = "READ" -> w.block = Mine.blocks
    [] Mine.op = "WRITE" -> w.block = Mine.blocks /\ w.synced
    [] OTHER -> TRUE
RightVerdict(x) == x.id = Current /\ (x.good => Executed)

(* The worker before it takes the first command byte, ... *)
Preparing(i) ==
  /\ pc = "idle"
  /\ Silent(todo)
  /\ dma.bus = BusAt(i) /\ dma.dataOut = 0
  /\ (dma.nonDmaReq <=> i \in {0, 1, 6})
  /\ (dma.statusPending <=> i = 0)
  /\ (dma.select <=> i = 5)
  /\ w.index = 0
  /\ i >= 3 => dma.dmaEnabled = Mine.dma
  /\ i = 4 => dma.command = <<"target", Mine.target>>
  /\ i >= 5 => dma.target = Mine.target

Taking == {"BSY", "CTL"}
PlainBus == {Taking, {"BSY"}, {"BSY", "INP"}}

(* ... between command bytes, ... *)
Receiving(i) ==
  /\ pc = "idle"
  /\ Only(todo, {"stat", "irq", "line"}) /\ Among(todo, {Taking, CommandPhase})
  /\ cache.stat \in {Taking, CommandPhase}
  /\ dma.bus = CommandPhase /\ dma.nonDmaReq /\ dma.dataOut = 0
  /\ w.index = i - 6

(* ... in a command handler, ... *)
Executing ==
  /\ pc # "idle"
  /\ queue = <<>>
  /\ Only(todo, {"stat"}) /\ Among(todo, PlainBus)
  /\ cache.stat \in PlainBus \cup {CommandPhase}
  /\ cache.stat = CommandPhase => Among(todo, {Taking})
  /\ dma.bus \ {"ACK"} \in PlainBus /\ dma.dataOut = 0
  /\ w.index = 0
  /\ pc \in {"burst", "bursting"} => ~Asks

(* ... between parameter bytes, ... *)
Asking(i) ==
  /\ pc = "idle"
  /\ Asks
  /\ Only(todo, {"stat", "irq", "line"}) /\ Among(todo, {{"BSY"}, ParamPhase})
  /\ cache.stat \in PlainBus \cup {ParamPhase}
  /\ dma.bus = ParamPhase /\ dma.nonDmaReq /\ dma.dataOut = Final - i
  /\ w.index = 0

(* ... and with a verdict: the byte is stored before the phase that announces it,
   and that phase comes after the acknowledge of the last parameter byte. *)
AnswerKinds == {"stat", "irq", "line", "status", "data", "addr", "load", "sync"}
Announces(c, s) ==
  /\ \A i, j \in 1 .. Len(s) : i < j /\ s[i] = <<"stat", StatusPhase>> => s[j][1] \in {"irq", "line"}
  /\ c = StatusPhase => Silent(s)
  /\ c = ParamPhase => \A j \in 1 .. Len(s) :
       s[j] = <<"stat", StatusPhase>> => \E i \in 1 .. Len(s) : i < j /\ s[i][1] = "stat"

Answering ==
  /\ pc = "idle"
  /\ queue = <<>>
  /\ Only(todo, AnswerKinds) /\ Among(todo, {{"BSY"}, StatusPhase})
  /\ cache.stat \in PlainBus \cup {ParamPhase, StatusPhase}
  /\ Announces(cache.stat, todo)
  /\ dma.bus = StatusPhase /\ dma.nonDmaReq /\ dma.statusPending /\ dma.dataOut = 0
  /\ w.index = 0
  /\ (\A i \in 1 .. Len(todo) : todo[i][1] # "status") => RightVerdict(status)
  /\ \A i \in 1 .. Len(todo) : todo[i][1] = "status" => RightVerdict(todo[i][2])

(* The worker after it has taken i of the numbered entries. *)
Taken(i) ==
  \/ i <= 6 /\ Preparing(i)
  \/ /\ 6 < i
     /\ ~dma.select /\ dma.dmaEnabled = Mine.dma /\ dma.target = Mine.target
     /\ w.cdb = Current
     /\ \/ i < Block /\ Receiving(i)
        \/ i = Block /\ Executing
        \/ Block <= i /\ i < Final /\ Asking(i)
        \/ i = Final /\ Answering

(* The command block is executed as far as the host has to wait for it. *)
Routed(e) == pc = "idle" /\ Block <= e - Len(queue)

(* The phase the cache is about to read: predicted by the ISR up to the command
   phase, the worker's own from the first command byte on. *)
Forecast(e) == IF e - Len(queue) <= 6 THEN BusAt(e) \cap StatusBits ELSE dma.bus \cap StatusBits

(* The host has sent e entries of the current round: the queue holds the last of
   them, the worker has taken the others, the cache reads as predicted. *)
Round(e) ==
  /\ Len(queue) <= e
  /\ e > 2 => issued # <<>> /\ e <= Final
  /\ \A i \in 1 .. Len(queue) : queue[i] = Entry(e - Len(queue) + i)
  /\ Taken(e - Len(queue))
  /\ LeadsTo(cache.stat, todo, Forecast(e))
  /\ 2 < e /\ e - Len(queue) < Block /\ hp # "addr" => addr = Programmed(Current, 0)
  /\ Block < e => Routed(e)

(* What the host has seen is so. *)
Observed ==
  /\ hp = "param" /\ (latch = <<ParamPhase>> \/ cache.stat = ParamPhase) => Routed(Sent)
  /\ hp = "parambyte" => Routed(Sent)
  /\ hp = "stat" /\ Asks => Routed(Sent)
  /\ hp = "stat" /\ latch = <<StatusPhase>> => cache.stat = StatusPhase
  /\ hp = "readstat" => RightVerdict(status) /\ (latch # <<>> => RightVerdict(latch[1]))
  /\ hp \in {"cmd", "byte"} => step <= CdbLen
  /\ hp \in {"param", "parambyte"} => step <= ParamLen /\ Asks
  /\ hp = "addr" => \A i \in 1 .. 3 : i < step => addr[LaneAt[i]] = [prog |-> Current, off |-> 0]

(* A handler works for the command the host waits for, at the address programmed
   for it, and does not lose count of what it has done. *)
Handling ==
  /\ issued # <<>> /\ w.cdb = Current /\ dma.target = Mine.target
  /\ Only(todo, {"stat"})
  /\ pc \in {"route", "burst", "snapshot"} => addr = Programmed(Current, 0)
  /\ pc = "bursting" => w.loc = Programmed(Current, 0)
  /\ pc \in {"burst", "bursting"} => Mine.op \notin {"NONE", "READ", "WRITE"}
  /\ pc \notin {"route", "burst", "bursting"} => Mine.op \in {"READ", "WRITE"}
  /\ pc = "snapshot" => w.block = 0 /\ w.ok
  /\ pc \in {"loop", "fetch", "transfer", "store"} =>
       w.ok /\ w.block <= Mine.blocks /\ w.loc = Programmed(Current, w.block)
  /\ pc \in {"fetch", "transfer", "store"} => w.block < Mine.blocks
  /\ pc = "fetch" => Mine.op = "READ"
  /\ pc = "store" => Mine.op = "WRITE"
  /\ pc \in {"loop", "transfer", "store", "check"} /\ Mine.op = "WRITE" /\ w.block > 0 => w.wrote
  /\ pc = "check" /\ w.ok => resetReq \/ w.block = Mine.blocks
  /\ pc = "sync" => Mine.op = "WRITE" /\ w.block = Mine.blocks
  /\ pc \notin {"route", "finish"} => ~w.synced
  /\ pc = "finish" /\ w.ok => Executed

(* The cached address a is the one in force, but for the bytes still to be mirrored. *)
Mirroring(a, s) ==
  /\ \A l \in Lane : a[l] = addr[l] \/ \E i \in 1 .. Len(s) : s[i] = <<"sync", l>>
  /\ \A i \in 1 .. Len(s) : s[i][1] = "sync" =>
       IF i = 1 THEN w.byte = addr[s[i][2]] ELSE s[i - 1] = <<"load", s[i][2]>>
  /\ \A i \in 1 .. Len(s) : s[i][1] = "addr" =>
       \A l \in Lane : \E j \in 1 .. Len(s) : i < j /\ s[j] = <<"sync", l>>

(* After the reset write: its entry is behind at most one read; once it is taken,
   all is as before the first command. *)
ResetWrite == <<"control", {"RESET"}>>
Released == IF hp = "settle" THEN <<<<"control", {}>>>> ELSE <<>>
Cleared ==
  /\ queue \in {<<>>, Released}
  /\ pc = "idle"
  /\ Only(todo, {"stat", "irq", "line", "status", "data", "unreset"})
  /\ dma.bus = {} /\ ~dma.nonDmaReq /\ ~dma.statusPending /\ dma.dataOut = 0
  /\ ~dma.select /\ w.index = 0
  /\ LeadsTo(cache.stat, todo, BusFree)
Clearing ==
  \/ queue \in {<<ResetWrite>> \o Released, <<<<"read", 0>>, ResetWrite>> \o Released}
  \/ Cleared

(* Host and worker are in step.  Outside of a reset: each queued operation is the one
   the worker waits for next, the host has seen only what is so, and the verdict, the
   address and the target of a handler are those of the command the host waits for;
   a reset leaves nothing of the command it cuts off; the queue refuses nothing
   (the prediction of the ISR in register_irq_handlers.c, defer_worker_main, sasi.c). *)
InStep ==
  /\ hp \notin {"reset", "unreset", "settle"} => Round(Sent) /\ Observed
  /\ hp = "reset" => \E e \in 0 .. Block + ParamLen : Round(e) /\ (queue = <<>> \/ e = 1)
  /\ hp \in {"unreset", "settle"} => Clearing
  /\ hp # "reset" => (cache.sel <=> hp \in {"bsy", "deselect"})
  /\ pc # "idle" => Handling
  /\ Mirroring(cache.addr, todo)
  /\ ~drops

(* The inductive invariant: types, host and worker in step. *)
IInv == TypeOK /\ InStep

-----------------------------------------------------------------------------
(* A command as CommandPort has it.  It runs from the moment the worker has taken its
   block to the moment the bus goes to the status phase; a command cut off by a reset
   is nobody's any more, whatever its handler still does. *)
state ==
  CASE hp \in {"reset", "unreset", "settle"} -> "cut"
    [] hp \in {"start", "msg", "readmsg"} -> "idle"
    [] hp = "readstat" /\ latch = <<>> -> "answered"
    [] hp = "readstat" /\ latch # <<>> -> "heard"
    [] OTHER -> IF Sent - Len(queue) < Block THEN "asked"
                ELSE IF dma.bus = StatusPhase THEN "answered" ELSE "running"

Sector == {"loop", "fetch", "transfer", "store", "check", "sync", "finish"}
done ==
  CASE pc \in Sector /\ state = "running" -> w.block
    [] pc = "idle" /\ state = "running" -> ParamLen - dma.dataOut
    [] OTHER -> 0

moving ==
  IF pc \in {"transfer", "store", "bursting"} /\ state = "running"
    THEN <<[target |-> dma.target, address |-> w.loc]>> ELSE <<>>

synced == pc = "finish" /\ w.synced /\ state = "running"

(* The status byte: still to be stored, or in its cell, or read by the host. *)
Unstored == {todo[i][2] : i \in {j \in 1 .. Len(todo) : todo[j][1] = "status"}}
verdict ==
  CASE state = "answered" -> <<IF Unstored = {} THEN status ELSE CHOOSE x \in Unstored : TRUE>>
    [] state = "heard" -> latch
    [] OTHER -> <<>>

Port == INSTANCE CommandPort WITH At <- Programmed

(* Host, ISR, worker and handlers together serve commands as a CommandPort does: each
   is executed at most once, on its own target and at its own address, and the host
   hears the verdict on it, GOOD only if all of it is done (the driver of dma_vfy2.c
   against sasi.c, reg_queue_processor.c and register_irq_handlers.c). *)
ServesCommands == Port!Spec
=============================================================================
