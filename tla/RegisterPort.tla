---------------------------- MODULE RegisterPort ----------------------------
(***************************************************************************)
(* The registers as the 8088 reaches them.  A bus cycle on the register    *)
(* page is caught by the state machine of board_registers.pio, which holds *)
(* the 8088 in wait states (XACK) until the register ISR has put a byte    *)
(* into its TX FIFO; it then drives that byte, or takes the one the 8088   *)
(* writes, and reports the end of the cycle with a second word.            *)
(* Core 1 sets the ISR up beside a host that may already be polling, and   *)
(* restarts the state machine then and after every DMA transfer            *)
(* (reset_register_pio_sm).                                                *)
(***************************************************************************)
EXTENDS Naturals, Sequences, FiniteSets

CONSTANTS
  Regs,     \* offsets of the register page
  Valid,    \* those that is_valid_reg_offset accepts
  Values,   \* bytes the 8088 writes
  Ones,     \* 0xFF: an unset cell, and the answer for an invalid offset
  Zero,     \* 0x00: a cell core1_main has seeded
  None,     \* no byte
  Depth     \* words a PIO FIFO holds, 4

VARIABLES
  cycle,    \* the bus cycle of the 8088
  pio,      \* the state machine board_registers and its pins
  rxf,      \* words for the ISR
  txf,      \* bytes for the state machine
  cells,    \* cached_regs.values
  pending,  \* fifo_pending_prefetch
  irq,      \* PIO0_IRQ_0 is enabled on core 1
  init,     \* where core 1 is in its set-up or in reset_register_pio_sm
  known     \* history: the bytes the 8088 may expect a register to hold

portVars == <<cycle, pio, rxf, txf, cells, pending, irq, init, known>>

Bytes == Values \cup {Ones, Zero}
NoCycle == [kind |-> "none", reg |-> None, byte |-> None, clean |-> FALSE]

(* The state machine follows a cycle from T1 until it has reported its end. *)
Following == pio.pc # "T0"

-----------------------------------------------------------------------------
(* The 8088.  Its cycles begin with ALE, which the state machine sees only when
   it waits for it at T0; the last word of a cycle is pushed before the next ALE
   (80 ns after RD/ has risen). *)

StartCycle(k, r, b) ==
  /\ cycle = NoCycle
  /\ pio.on => ~Following
  /\ cycle' = [kind |-> k, reg |-> r, byte |-> b, clean |-> init = "done"]
  /\ pio' = IF pio.on THEN [pio EXCEPT !.pc = "T1", !.reg = r] ELSE pio
  /\ UNCHANGED <<rxf, txf, cells, pending, irq, init, known>>

(* READY is high and the cycle ends: served, or, when a reset has let go of it or
   nobody saw it, with whatever is on the lines. *)
EndCycle ==
  /\ cycle # NoCycle
  /\ ~pio.xack
  /\ pio.on => pio.pc \in {"T0", "T3_READ"}
  /\ cycle' = NoCycle
  /\ known' = IF cycle.kind = "write" /\ cycle.reg \in Valid
                THEN [known EXCEPT ![cycle.reg] =
                        {cycle.byte} \cup IF cycle.clean THEN {} ELSE @]
                ELSE known
  /\ UNCHANGED <<pio, rxf, txf, cells, pending, irq, init>>

Host ==
  \E r \in Regs :
    \/ StartCycle("read", r, None)
    \/ \E b \in Values : StartCycle("write", r, b)

-----------------------------------------------------------------------------
(* The state machine. *)

Push(w) == Len(rxf) < Depth /\ rxf' = Append(rxf, w)

PushPrefetch ==
  /\ pio.on /\ pio.pc = "T1"
  /\ Push([t |-> "prefetch", reg |-> pio.reg, byte |-> None])
  /\ pio' = [pio EXCEPT !.pc = "T2", !.xack = TRUE]
  /\ UNCHANGED <<cycle, txf, cells, pending, irq, init, known>>

(* pull block, then jmp pin: RD/ is low in a read cycle only. *)
PullAnswer ==
  /\ pio.on /\ pio.pc = "T2"
  /\ txf # <<>>
  /\ txf' = Tail(txf)
  /\ pio' = IF cycle.kind = "read"
              THEN [pio EXCEPT !.pc = "T3_READ", !.out = Head(txf), !.xack = FALSE]
              ELSE [pio EXCEPT !.pc = "T3_WRITE", !.xack = FALSE]
  /\ UNCHANGED <<cycle, rxf, cells, pending, irq, init, known>>

PushCommit ==
  /\ pio.on /\ pio.pc = "T3_READ"
  /\ cycle = NoCycle
  /\ Push([t |-> "commit", reg |-> pio.reg, byte |-> None])
  /\ pio' = [pio EXCEPT !.pc = "T0", !.reg = None, !.out = None]
  /\ UNCHANGED <<cycle, txf, cells, pending, irq, init, known>>

PushWrite ==
  /\ pio.on /\ pio.pc = "T3_WRITE"
  /\ Push([t |-> "write", reg |-> pio.reg, byte |-> cycle.byte])
  /\ pio' = [pio EXCEPT !.pc = "T0", !.reg = None]
  /\ UNCHANGED <<cycle, txf, cells, pending, irq, init, known>>

PortMachine == PushPrefetch \/ PullAnswer \/ PushCommit \/ PushWrite

-----------------------------------------------------------------------------
(* register_read_irq_isr, one word.  The cells stand for registers that read back
   what was written; what the SASI registers do besides is SasiBus, the cells of
   the management channel are MgmtChan. *)

Answer(r) == IF r \in Valid THEN cells[r] ELSE Ones

(* pio_sm_put_isr_safe: a full FIFO drops the byte. *)
PutIsrSafe(b) == txf' = IF Len(txf) < Depth THEN Append(txf, b) ELSE txf

Down(n) == IF n = 0 THEN 0 ELSE n - 1

IsrDue == irq /\ rxf # <<>>

Isr ==
  /\ IsrDue
  /\ rxf' = Tail(rxf)
  /\ LET w == Head(rxf) IN
       \/ /\ w.t = "prefetch"
          /\ pending' = pending + 1
          /\ PutIsrSafe(Answer(w.reg))
          /\ UNCHANGED cells
       \/ /\ w.t = "commit"
          /\ pending' = Down(pending)
          /\ UNCHANGED <<txf, cells>>
       \/ /\ w.t = "write"
          /\ pending' = Down(pending)
          /\ cells' = IF w.reg \in Valid THEN [cells EXCEPT ![w.reg] = w.byte] ELSE cells
          /\ UNCHANGED txf
  /\ UNCHANGED <<cycle, pio, irq, init, known>>

-----------------------------------------------------------------------------
(* Core 1 outside the ISR, which preempts it at once. *)

Core1(p, q) == ~IsrDue /\ init = p /\ init' = q

(* setup_irq_handlers *)
SetupClears ==
  /\ Core1("setup", "enable")
  /\ rxf' = <<>> /\ txf' = <<>>
  /\ UNCHANGED <<cycle, pio, cells, pending, irq, known>>

SetupEnables ==
  /\ Core1("enable", "seed")
  /\ irq' = TRUE
  /\ UNCHANGED <<cycle, pio, rxf, txf, cells, pending, known>>

SeedCells ==
  /\ Core1("seed", "mask")
  /\ cells' = [r \in Regs |-> Zero]
  /\ UNCHANGED <<cycle, pio, rxf, txf, pending, irq, known>>

(* warm_caches *)
MaskIrq ==
  /\ Core1("mask", "off")
  /\ irq' = FALSE
  /\ UNCHANGED <<cycle, pio, rxf, txf, cells, pending, known>>

UnmaskIrq ==
  /\ Core1("unmask", "done")
  /\ irq' = TRUE
  /\ UNCHANGED <<cycle, pio, rxf, txf, cells, pending, known>>

(* reset_register_pio_sm *)
ResetStops ==
  /\ Core1("off", "clear")
  /\ pio' = [pio EXCEPT !.on = FALSE]
  /\ UNCHANGED <<cycle, rxf, txf, cells, pending, irq, known>>

ResetClearsRxOnly ==
  /\ Core1("clear", "release")
  /\ rxf' = <<>>
  /\ UNCHANGED <<cycle, pio, txf, cells, pending, irq, known>>

ResetClears ==
  /\ Core1("clear", "release")
  /\ rxf' = <<>> /\ txf' = <<>>
  /\ UNCHANGED <<cycle, pio, cells, pending, irq, known>>

ResetSkipsRelease ==
  /\ Core1("release", "jump")
  /\ UNCHANGED <<cycle, pio, rxf, txf, cells, pending, irq, known>>

(* A NOP without side-set lets go of XACK and EXTIO. *)
ResetReleases ==
  /\ Core1("release", "jump")
  /\ pio' = [pio EXCEPT !.xack = FALSE]
  /\ UNCHANGED <<cycle, rxf, txf, cells, pending, irq, known>>

ResetJumps ==
  /\ Core1("jump", "on")
  /\ pio' = [pio EXCEPT !.pc = "T0", !.reg = None]
  /\ UNCHANGED <<cycle, rxf, txf, cells, pending, irq, known>>

(* T0 turns the data lines to inputs. *)
ResetStarts ==
  /\ Core1("on", "pending")
  /\ pio' = [pio EXCEPT !.on = TRUE, !.out = None]
  /\ UNCHANGED <<cycle, rxf, txf, cells, pending, irq, known>>

ResetKeepsPending ==
  /\ Core1("pending", IF irq THEN "done" ELSE "unmask")
  /\ UNCHANGED <<cycle, pio, rxf, txf, cells, pending, irq, known>>

(* The last store; warm_caches has the interrupt masked, a transfer has not. *)
ResetForgets ==
  /\ Core1("pending", IF irq THEN "done" ELSE "unmask")
  /\ pending' = 0
  /\ UNCHANGED <<cycle, pio, rxf, txf, cells, irq, known>>

SetUp == SetupClears \/ SetupEnables \/ SeedCells \/ MaskIrq \/ UnmaskIrq
RestartPort == ResetStops \/ ResetClears \/ ResetReleases \/ ResetJumps \/ ResetStarts

QuiesceLeavesOn ==
  /\ Core1("done", "off")
  /\ rxf' = <<>> /\ txf' = <<>>
  /\ UNCHANGED <<cycle, pio, cells, pending, irq, known>>

(* start_dma_control, once the 8088 has given up the bus: XACK let go, the state
   machine stopped, its FIFOs cleared. *)
QuiescePort ==
  /\ Core1("done", "off")
  /\ pio' = [pio EXCEPT !.on = FALSE, !.xack = FALSE]
  /\ rxf' = <<>> /\ txf' = <<>>
  /\ UNCHANGED <<cycle, cells, pending, irq, known>>

PortInit ==
  /\ cycle = NoCycle
  /\ pio = [on |-> TRUE, pc |-> "T0", reg |-> None, out |-> None, xack |-> FALSE]
  /\ rxf = <<>> /\ txf = <<>>
  /\ cells = [r \in Regs |-> Ones]
  /\ pending = 0
  /\ irq = FALSE
  /\ init = "setup"
  /\ known = [r \in Valid |-> {Zero}]

-----------------------------------------------------------------------------
PortWord == [t : {"prefetch", "commit"}, reg : Regs, byte : {None}]
            \cup [t : {"write"}, reg : Regs, byte : Values]

PortTypeOK ==
  /\ cycle \in {NoCycle} \cup [kind : {"read"}, reg : Regs, byte : {None}, clean : BOOLEAN]
                         \cup [kind : {"write"}, reg : Regs, byte : Values, clean : BOOLEAN]
  /\ pio \in [on : BOOLEAN, pc : {"T0", "T1", "T2", "T3_READ", "T3_WRITE"},
              reg : Regs \cup {None}, out : Bytes \cup {None}, xack : BOOLEAN]
  /\ rxf \in Seq(PortWord) /\ Len(rxf) <= Depth
  /\ txf \in Seq(Bytes) /\ Len(txf) <= Depth
  /\ cells \in [Regs -> Bytes]
  /\ pending \in 0 .. Depth
  /\ irq \in BOOLEAN
  /\ init \in {"setup", "enable", "seed", "mask", "off", "clear", "release", "jump", "on",
               "pending", "unmask", "done"}
  /\ known \in [Valid -> SUBSET Bytes]

(* While the state machine drives a byte for a read that began after the set-up, it
   is the byte the 8088 wrote there last: the write is handled before the answer is
   taken from the cell, and no answer of an earlier or an abandoned cycle is left in
   the FIFO (board_registers.pio T2, reset_register_pio_sm). *)
ServesLastWrite ==
  (cycle.clean /\ cycle.kind = "read" /\ pio.pc = "T3_READ") =>
    pio.out \in IF cycle.reg \in Valid THEN known[cycle.reg] ELSE {Ones}

Words(ts) == Cardinality({j \in 1 .. Len(rxf) : rxf[j].t \in ts})

(* fifo_pending_prefetch and the words on their way tell exactly whether a cycle is
   open: no restart of the state machine leaves a prefetch without its commit, or a
   "Commit without prefetch" (register_read_irq_isr, its warnings). *)
PrefetchBalance ==
  init = "done" =>
    pending + Words({"prefetch"}) =
      Words({"commit", "write"}) + IF pio.pc \in {"T0", "T1"} THEN 0 ELSE 1

(* Every cycle of the 8088 ends, whenever it begins: the wait states are lifted by
   the answer or by the reset. *)
CyclesEnd == cycle # NoCycle ~> cycle = NoCycle
=============================================================================
