------------------------------ MODULE BoardBus ------------------------------
(***************************************************************************)
(* The two users of the Victor's bus together: the register port, which    *)
(* serves the cycles of the 8088, and the bus master, which takes the bus  *)
(* from it for a batch of bytes.  The worker that runs a transfer is on    *)
(* the core of the register ISR, quiets the port once it has the bus, and  *)
(* restarts it before it gives the bus back.                               *)
(***************************************************************************)
EXTENDS BusMaster

CONSTANTS Regs, Valid, Values, Ones, Zero, None

ASSUME RegsAssumption == Valid \subseteq Regs
ASSUME BytesAssumption ==
  Ones \notin Values /\ Zero \notin Values /\ Ones # Zero
  /\ None \notin Values \cup {Ones, Zero}

VARIABLES cycle, pio, rxf, txf, cells, pending, irq, init, known

Port == INSTANCE RegisterPort

portVars == <<cycle, pio, rxf, txf, cells, pending, irq, init, known>>
boardVars == <<vars, portVars>>

(* core1_main sets the port up before it becomes the worker; while it does,
   reset_register_pio_sm runs with the interrupt masked. *)
Booting == init \in {"setup", "enable", "seed", "mask", "unmask"} \/ ~irq

BoardInit == Init /\ Port!PortInit

-----------------------------------------------------------------------------
(* The 8088: its cycles need the bus, and it takes HOLD between two of them, before
   the next and after the port has reported the last. *)

HostCycle ==
  /\ ~hlda /\ ~hold
  /\ Port!Host
  /\ UNCHANGED vars

CycleEnds == Port!EndCycle /\ UNCHANGED vars

GrantBetweenCycles ==
  /\ cycle = Port!NoCycle
  /\ pio.pc = "T0"
  /\ CpuGrant
  /\ UNCHANGED portVars

BusReturns == CpuResume /\ UNCHANGED portVars

PortServes == Port!PortMachine /\ UNCHANGED vars
IsrServes == Port!Isr /\ UNCHANGED vars

-----------------------------------------------------------------------------
(* Core 1: set-up, then one transfer after another, whenever the ISR lets it. *)

Boot ==
  /\ Booting
  /\ Port!SetUp \/ Port!RestartPort \/ Port!ResetForgets
  /\ UNCHANGED vars

QuietPort == Quiesce /\ Port!QuiescePort

RestartPort ==
  /\ pc = "listen" /\ ~Booting
  /\ Port!RestartPort
  /\ UNCHANGED vars

ListenAgain == Listen /\ Port!ResetForgets

OtherStep ==
  \/ Request \/ Granted \/ GrantTimeout \/ Withdraw \/ TakeStrobes \/ TakeAddress \/ Enable
  \/ PutFirst \/ PutSecond \/ Get \/ Drain \/ SettleBus \/ Park \/ Stop
  \/ FreeAddress \/ FreeStrobes \/ Unhold \/ Await

Core1 ==
  \/ Boot
  \/ QuietPort \/ RestartPort \/ ListenAgain
  \/ ~Port!IsrDue /\ OtherStep /\ UNCHANGED portVars

BeginTransfer ==
  /\ init = "done" /\ ~Port!IsrDue
  /\ \E o \in Ops : Begin(o)
  /\ UNCHANGED portVars

MasterServes == StateMachine /\ UNCHANGED portVars
ReadyMoves == (Hang \/ Heal) /\ UNCHANGED portVars

BoardNext ==
  \/ HostCycle \/ CycleEnds \/ GrantBetweenCycles \/ PortServes \/ IsrServes
  \/ Core1 \/ BeginTransfer \/ MasterServes \/ BusReturns \/ ReadyMoves

BoardSpec == BoardInit /\ [][BoardNext]_boardVars

(* No wait of core 1 is without a time-out, and the ISR holds it up for a few words
   only; both state machines are clocked; the 8088 answers HOLD and ends its
   cycle when READY is high.  READY itself need never come. *)
BoardFairSpec ==
  /\ BoardSpec
  /\ WF_boardVars(Core1) /\ WF_boardVars(MasterServes)
  /\ WF_boardVars(GrantBetweenCycles \/ BusReturns)
  /\ WF_boardVars(PortServes \/ IsrServes \/ CycleEnds)

-----------------------------------------------------------------------------
(* Type invariant of both halves. *)
BoardTypeOK == TypeOK /\ Port!PortTypeOK

ServesLastWrite == Port!ServesLastWrite
PrefetchBalance == Port!PrefetchBalance

(* Nobody waits for ever: the 8088 gets its bus back after every transfer, complete or
   aborted, and every cycle it has begun ends, restarts of the port included. *)
NobodyWaits == BusComesBack /\ Port!CyclesEnd

(* While the Pico drives the strobes its own register port is off the bus: the state
   machine cannot take the Pico's ALE for the host's, nor hold READY low with a
   frozen XACK ("frozen pindirs would hold XACK low -> READY low -> DMA hangs",
   start_dma_control), and no word or answer is pending that the restart would
   throw away. *)
PortQuietUnderDma ==
  strobes # "none" => /\ ~pio.on /\ ~pio.xack /\ pio.out = None
                      /\ rxf = <<>> /\ txf = <<>> /\ pending = 0
=============================================================================
