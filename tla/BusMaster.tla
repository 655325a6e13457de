------------------------------ MODULE BusMaster ------------------------------
(***************************************************************************)
(* A block transfer between a sector buffer and the memory of the Victor   *)
(* (dma.c): the worker of core 1 takes the bus from the 8088 with HOLD and *)
(* HLDA for one batch of bytes at a time, moves the pins from the register *)
(* state machine (PIO0) to the bus-master state machine (PIO1) and back,   *)
(* and feeds that state machine two words per byte through a FIFO.         *)
(* READY may stay low for longer than the worker waits: the transfer is    *)
(* then aborted, and the command handler of sasi.c tries it again.         *)
(***************************************************************************)
EXTENDS Naturals, Sequences

CONSTANTS
  Length,        \* bytes of a transfer, 512 for a sector
  BatchSize,     \* DMA_BATCH_SIZE, 128
  Depth,         \* words a PIO FIFO holds, 4
  HangOn,        \* the operations during which READY may stay low
  MaxTransfers,  \* bound: transfers, retries included
  MaxHangs       \* bound: times READY stays low

ASSUME LengthsAssumption ==
  Length \in Nat \ {0} /\ BatchSize \in Nat \ {0} /\ Depth \in Nat \ {0}

Ops == {"read", "write"}
ASSUME HangOnAssumption == HangOn \subseteq Ops
ASSUME BoundsAssumption == MaxTransfers \in Nat /\ MaxHangs \in Nat

VARIABLES
  hold,      \* whether the Pico sinks HOLD/
  hlda,      \* whether the 8088 has given up the bus
  strobes,   \* who drives RD/ WR/ DT/R ALE: "pio1", "sio", or "none" of the Pico
  addrOut,   \* whether the Pico drives the address and data lines
  listening, \* whether the register state machine runs, on its own pins
  sm,        \* the bus-master state machine of dma_master.pio
  tx,        \* its TX FIFO
  rx,        \* its RX FIFO
  stuck,     \* READY stays low
  hangs,     \* times it did
  mem,       \* the memory of the Victor
  pc,        \* where the worker is
  op,        \* what it transfers
  index,     \* the next byte
  buf,       \* sector_data
  result,    \* what the last transfer returned
  count      \* transfers begun

busVars == <<hold, hlda>>
padVars == <<strobes, addrOut, listening>>
smVars == <<sm, tx, rx>>
envVars == <<stuck, hangs>>
opVars == <<op, index, buf, result, count>>
vars == <<busVars, padVars, smVars, envVars, mem, pc, opVars>>

Cell == 0 .. Length - 1
Nowhere == Length                 \* address 0x00000, what setup preloads

(* A byte: the one transfer "by" put, or (by = 0) the one found, at cell "at". *)
Byte == [by : 0 .. MaxTransfers, at : Cell]
Floating == [by |-> 0, at |-> Nowhere]   \* read from lines nobody drives

(* A byte in memory or in a buffer; the one at Nowhere is also what floating lines
   read as. *)
AnyByte == Byte \cup {Floating}

(* The two words of a byte: address and direction, then data or pindirs. *)
Word == [t : {1}, at : Cell, write : BOOLEAN] \cup [t : {2}, byte : AnyByte]
FirstOfBatch(i) == [t |-> 1, at |-> i % BatchSize, write |-> op = "write"]
First(i) == [t |-> 1, at |-> i, write |-> op = "write"]
Second(i) == [t |-> 2, byte |-> IF op = "write" THEN buf[i] ELSE [by |-> 0, at |-> i]]

BatchEndUnchecked(i) == i % BatchSize = 0
(* The batch is full, or the transfer ends ("Never access/write beyond requested
   length"). *)
BatchEnd(i) == i = Length \/ i % BatchSize = 0

-----------------------------------------------------------------------------
(* The bus-master state machine, program dma_master. *)

SmStep ==
  /\ sm.on
  /\ UNCHANGED <<busVars, padVars, envVars, pc, opVars>>

SmPullFirst ==
  /\ SmStep
  /\ sm.pc = "T0" /\ tx # <<>>
  /\ sm' = [sm EXCEPT !.pc = "second", !.write = Head(tx).write, !.lines = Head(tx).at]
  /\ tx' = Tail(tx)
  /\ UNCHANGED <<rx, mem>>

(* The second word, then T1 and T2: ALE latches the address, a strobe goes low. *)
SmPullSecond ==
  /\ SmStep
  /\ sm.pc = "second" /\ tx # <<>>
  /\ sm' = [sm EXCEPT !.pc = "ready", !.byte = Head(tx).byte, !.low = TRUE]
  /\ tx' = Tail(tx)
  /\ UNCHANGED <<rx, mem>>

(* The strobe of the cycle is low on the bus: the state machine holds it low and
   the pins are its own. *)
StrobeLow == sm.low /\ strobes = "pio1"

(* READY has come: T3 samples the lines or completes the write. *)
SmComplete ==
  /\ SmStep
  /\ sm.pc = "ready" /\ ~stuck
  /\ sm' = [sm EXCEPT !.pc = "T0", !.low = FALSE]
  /\ \/ /\ sm.write
        /\ mem' = IF StrobeLow THEN [mem EXCEPT ![sm.lines] = sm.byte] ELSE mem
        /\ UNCHANGED rx
     \/ /\ ~sm.write /\ Len(rx) < Depth
        /\ rx' = Append(rx, IF StrobeLow THEN mem[sm.lines] ELSE Floating)
        /\ UNCHANGED mem
  /\ UNCHANGED tx

StateMachine == SmPullFirst \/ SmPullSecond \/ SmComplete

-----------------------------------------------------------------------------
(* The 8088 and the memory. *)

CpuGrant ==
  /\ hold /\ ~hlda
  /\ hlda' = TRUE
  /\ UNCHANGED <<hold, padVars, smVars, envVars, mem, pc, opVars>>

CpuResume ==
  /\ ~hold /\ hlda
  /\ hlda' = FALSE
  /\ UNCHANGED <<hold, padVars, smVars, envVars, mem, pc, opVars>>

Hang ==
  /\ sm.on /\ sm.pc = "ready" /\ sm.low
  /\ ~stuck /\ hangs < MaxHangs
  /\ (IF sm.write THEN "write" ELSE "read") \in HangOn
  /\ stuck' = TRUE
  /\ hangs' = hangs + 1
  /\ UNCHANGED <<busVars, padVars, smVars, mem, pc, opVars>>

(* READY comes back, though not within the microsecond between a time-out of the
   worker and its stop of the state machine: then the state machine could be stopped
   with one word of a byte taken, and the next transfer would begin with the other.
   That is the fault BusMasterReadHang.cfg shows, by a rarer way. *)
Heal ==
  /\ stuck
  /\ pc \notin {"park", "stop"}
  /\ stuck' = FALSE
  /\ UNCHANGED <<busVars, padVars, smVars, hangs, mem, pc, opVars>>

-----------------------------------------------------------------------------
(* The worker: start_dma_control. *)

At(p, q) == pc = p /\ pc' = q

Begin(o) ==
  /\ At("idle", "obtain")
  /\ count < MaxTransfers
  /\ count' = count + 1
  /\ op' = o
  /\ index' = 0
  /\ buf' = IF o = "write" THEN [i \in Cell |-> [by |-> count + 1, at |-> i]]
                           ELSE [i \in Cell |-> Floating]
  /\ result' = "none"
  /\ UNCHANGED <<busVars, padVars, smVars, envVars, mem>>

Return(r) ==
  /\ pc' = "idle"
  /\ result' = r

(* A CLK5 edge, then HOLD; without the edge nothing happens. *)
Request ==
  /\ pc = "obtain"
  /\ \/ /\ pc' = "grant" /\ hold' = TRUE
        /\ UNCHANGED result
     \/ /\ Return("failed")
        /\ UNCHANGED hold
  /\ UNCHANGED <<hlda, padVars, smVars, envVars, mem, op, index, buf, count>>

Granted ==
  /\ At("grant", "quiesce")
  /\ hlda
  /\ UNCHANGED <<busVars, padVars, smVars, envVars, mem, opVars>>

(* wait_for_hlda_assert has looked for the last time; a grant may still come before
   HOLD is withdrawn. *)
GrantTimeout ==
  /\ At("grant", "withdraw")
  /\ ~hlda
  /\ UNCHANGED <<busVars, padVars, smVars, envVars, mem, opVars>>

Withdraw ==
  /\ pc = "withdraw"
  /\ hold' = FALSE
  /\ Return("failed")
  /\ UNCHANGED <<hlda, padVars, smVars, envVars, mem, op, index, buf, count>>

Quiesce ==
  /\ At("quiesce", "strobes")
  /\ listening' = FALSE
  /\ UNCHANGED <<busVars, strobes, addrOut, smVars, envVars, mem, opVars>>

(* setup_pins_dma_control: the strobes first, at their inactive level. *)
TakeStrobes ==
  /\ At("strobes", "address")
  /\ strobes' = "pio1"
  /\ sm' = [sm EXCEPT !.low = FALSE]
  /\ UNCHANGED <<busVars, addrOut, listening, tx, rx, envVars, mem, opVars>>

TakeAddress ==
  /\ At("address", "enable")
  /\ addrOut' = TRUE
  /\ sm' = [sm EXCEPT !.lines = Nowhere]
  /\ UNCHANGED <<busVars, strobes, listening, tx, rx, envVars, mem, opVars>>

Enable ==
  /\ At("enable", "first")
  /\ sm' = [sm EXCEPT !.on = TRUE]
  /\ tx' = <<>>
  /\ rx' = <<>>
  /\ UNCHANGED <<busVars, padVars, envVars, mem, opVars>>

-----------------------------------------------------------------------------
(* The worker: the loop over the bytes of a batch. *)

Put(p, word, q) ==
  /\ pc = p
  /\ \/ /\ Len(tx) < Depth
        /\ tx' = Append(tx, word)
        /\ pc' = q
        /\ UNCHANGED result
     \/ /\ Len(tx) = Depth /\ stuck
        /\ pc' = "park"
        /\ result' = "failed"
        /\ UNCHANGED tx
  /\ UNCHANGED <<busVars, padVars, sm, rx, envVars, mem, op, buf, count>>

PutFirst ==
  /\ Put("first", First(index), "second")
  /\ UNCHANGED index

NextByte(i) == IF BatchEnd(i) THEN "drain" ELSE "first"

PutSecond ==
  /\ Put("second", Second(index), IF op = "read" THEN "get" ELSE NextByte(index + 1))
  /\ index' = IF op = "write" /\ Len(tx) < Depth THEN index + 1 ELSE index

Get ==
  /\ pc = "get"
  /\ \/ /\ rx # <<>>
        /\ buf' = [buf EXCEPT ![index] = Head(rx)]
        /\ rx' = Tail(rx)
        /\ index' = index + 1
        /\ pc' = NextByte(index + 1)
        /\ UNCHANGED result
     \/ /\ rx = <<>> /\ stuck
        /\ pc' = "park"
        /\ result' = "failed"
        /\ UNCHANGED <<buf, rx, index>>
  /\ UNCHANGED <<busVars, padVars, sm, tx, envVars, mem, op, count>>

(* The FIFO the worker polls has no word left: TX for a write, RX for a read. *)
Drained == IF op = "write" THEN tx = <<>> ELSE rx = <<>>

Drain ==
  /\ pc = "drain"
  /\ \/ /\ Drained
        /\ pc' = "settle"
        /\ UNCHANGED result
     \/ /\ ~Drained /\ (op = "read" \/ stuck)
        /\ pc' = "park"
        /\ result' = "failed"
  /\ UNCHANGED <<busVars, padVars, smVars, envVars, mem, op, index, buf, count>>

(* sleep_us(3): enough for the bus cycle under way unless READY is stuck. *)
SettleBus ==
  /\ At("settle", "park")
  /\ (sm.pc = "T0" /\ (op = "read" => tx = <<>>)) \/ stuck
  /\ UNCHANGED <<busVars, padVars, smVars, envVars, mem, opVars>>

-----------------------------------------------------------------------------
(* The worker: restore_register_bus_after_dma, for a release and for an abort. *)

(* The strobes are driven inactive from SIO: a write under way is cut off. *)
Park ==
  /\ At("park", "stop")
  /\ strobes' = "sio"
  /\ mem' \in {mem} \cup IF StrobeLow /\ sm.write
                           THEN {[mem EXCEPT ![sm.lines] = sm.byte]} ELSE {}
  /\ UNCHANGED <<busVars, addrOut, listening, smVars, envVars, opVars>>

Stop ==
  /\ At("stop", "free")
  /\ sm' = [sm EXCEPT !.on = FALSE]
  /\ tx' = <<>>
  /\ rx' = <<>>
  /\ UNCHANGED <<busVars, padVars, envVars, mem, opVars>>

FreeAddress ==
  /\ At("free", "finish")
  /\ addrOut' = FALSE
  /\ UNCHANGED <<busVars, strobes, listening, smVars, envVars, mem, opVars>>

FreeStrobes ==
  /\ At("finish", "listen")
  /\ strobes' = "none"
  /\ UNCHANGED <<busVars, addrOut, listening, smVars, envVars, mem, opVars>>

ListenLater ==
  /\ At("listen", "unhold")
  /\ UNCHANGED <<busVars, padVars, smVars, envVars, mem, opVars>>

(* reset_register_pio_sm *)
Listen ==
  /\ At("listen", "unhold")
  /\ listening' = TRUE
  /\ UNCHANGED <<busVars, strobes, addrOut, smVars, envVars, mem, opVars>>

Unhold ==
  /\ At("unhold", "await")
  /\ hold' = FALSE
  /\ UNCHANGED <<hlda, padVars, smVars, envVars, mem, opVars>>

(* HLDA has dropped, or the wait for it has timed out: go on with the next batch,
   or return. *)
Await ==
  /\ pc = "await"
  /\ \/ /\ result = "none" /\ index < Length
        /\ pc' = "obtain"
        /\ UNCHANGED result
     \/ /\ result = "none" /\ index = Length
        /\ Return("done")
     \/ /\ result = "failed"
        /\ Return("failed")
  /\ UNCHANGED <<busVars, padVars, smVars, envVars, mem, op, index, buf, count>>

Worker ==
  \/ Request \/ Granted \/ GrantTimeout \/ Withdraw \/ Quiesce \/ TakeStrobes
  \/ TakeAddress \/ Enable \/ PutFirst \/ PutSecond \/ Get \/ Drain \/ SettleBus \/ Park \/ Stop
  \/ FreeAddress \/ FreeStrobes \/ Listen \/ Unhold \/ Await

-----------------------------------------------------------------------------
Init ==
  /\ hold = FALSE /\ hlda = FALSE
  /\ strobes = "none" /\ addrOut = FALSE /\ listening = TRUE
  /\ sm = [on |-> FALSE, pc |-> "T0", write |-> FALSE, lines |-> Nowhere,
           byte |-> [by |-> 0, at |-> 0], low |-> FALSE]
  /\ tx = <<>> /\ rx = <<>>
  /\ stuck = FALSE /\ hangs = 0
  /\ mem = [a \in Cell \cup {Nowhere} |-> [by |-> 0, at |-> a]]
  /\ pc = "idle"
  /\ op = "read" /\ index = 0 /\ buf = [i \in Cell |-> Floating]
  /\ result = "none" /\ count = 0

Next ==
  \/ \E o \in Ops : Begin(o)
  \/ Worker \/ StateMachine \/ CpuGrant \/ CpuResume \/ Hang \/ Heal

Spec == Init /\ [][Next]_vars

-----------------------------------------------------------------------------
Points ==
  {"idle", "obtain", "grant", "withdraw", "quiesce", "strobes", "address", "enable", "first",
   "second", "get", "drain", "settle", "park", "stop", "free", "finish", "listen",
   "unhold", "await"}

SmState ==
  [on : BOOLEAN, pc : {"T0", "second", "ready"}, write : BOOLEAN,
   lines : Cell \cup {Nowhere}, byte : AnyByte, low : BOOLEAN]

(* Type invariant: no FIFO overflows and no byte outside the buffer is touched. *)
TypeOK ==
  /\ hold \in BOOLEAN /\ hlda \in BOOLEAN
  /\ strobes \in {"none", "pio1", "sio"} /\ addrOut \in BOOLEAN /\ listening \in BOOLEAN
  /\ sm \in SmState
  /\ tx \in Seq(Word) /\ Len(tx) <= Depth
  /\ rx \in Seq(AnyByte) /\ Len(rx) <= Depth
  /\ stuck \in BOOLEAN /\ hangs \in 0 .. MaxHangs
  /\ mem \in [Cell \cup {Nowhere} -> AnyByte]
  /\ pc \in Points
  /\ op \in Ops
  /\ index \in 0 .. Length
  /\ pc \in {"first", "second", "get"} => index < Length
  /\ buf \in [Cell -> AnyByte]
  /\ result \in {"none", "done", "failed"}
  /\ count \in 0 .. MaxTransfers

(* While the 8088 has the bus the Pico drives none of its lines, and the register
   state machine listens: no access of the host goes unanswered, and nobody fights
   its first resumed cycle (restore_register_bus_after_dma, its comments).  While the
   Pico has it, the strobes never float under an address: "a window where the address
   bus is driven (to 0x00000) while RD/, WR/, ALE float -- a spurious write to the
   interrupt vector table" (setup_pins_dma_control). *)
OneDriver ==
  /\ ~hlda => strobes = "none" /\ ~addrOut /\ listening
  /\ addrOut => strobes # "none"

(* A read that returns true has delivered every byte from its own address
   (dma_read_from_victor_ram), after whatever went wrong before it. *)
ReadIsFaithful == (result = "done" /\ op = "read") => \A i \in Cell : buf[i] = mem[i]

(* The bytes that a write with a true result may yet have lost: the last one of a
   batch has left the FIFO when the worker stops waiting for it, and the bus cycle
   that stores it is cut off if READY has not come within 3 us. *)
LastOfBatch == {i \in Cell : BatchEnd(i + 1)}

Copy == INSTANCE BlockCopy WITH
  Memory <- Cell \cup {Nowhere},
  Doubtful <- LastOfBatch,
  Data <- AnyByte,
  Fresh <- LAMBDA n : [i \in Cell |-> [by |-> n, at |-> i]],
  Blank <- [i \in Cell |-> Floating],
  busy <- pc # "idle",
  result <- IF pc = "idle" THEN result ELSE "none"

(* A transfer, with its bus cycles, batches, time-outs and aborts, is a copy or a
   failure: true means every byte is in its place, and whatever went wrong before
   or during it, memory changes only during a write and only at the cell of each byte
   (dma_read_from_victor_ram, dma_write_to_victor_ram). *)
CopiesOrFails == Copy!Spec

(* The 8088 always gets its bus back, whatever fails on the way. *)
BusComesBack == hlda ~> ~hlda
=============================================================================
