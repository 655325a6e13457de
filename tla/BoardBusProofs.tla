--------------------------- MODULE BoardBusProofs ---------------------------
(***************************************************************************)
(* Proofs about the bus master and the register port on one bus, for every *)
(* set of registers, FIFO depth and transfer: the board implements the bus *)
(* master alone, the port is quiet while the Pico has the bus, no cycle is *)
(* counted twice or lost, and a read is answered with the byte written     *)
(* last.                                                                   *)
(***************************************************************************)
EXTENDS BoardBus, BusMasterProofs, FiniteSetTheorems, SequenceTheorems

(* The worker has the bus and has stopped the port. *)
Quieted == Owned \ {"quiesce", "unhold"}

(* Where core 1 is: nothing is transferred before the port is set up, and the port is
   stopped from Quiesce to Listen. *)
Core1Inv ==
  /\ Booting => pc = "idle" /\ ~hlda
  /\ ~Booting /\ pc \notin Quieted => init = "done"
  /\ ~Booting /\ pc \in Quieted => init \in {"off", "clear", "release", "jump", "on", "pending"}
  /\ ~Booting /\ pc \in Quieted \ {"listen"} => init = "off"
  /\ irq <=> init \in {"seed", "mask", "done"} \/ (~Booting /\ init # "done")

(* The state machine follows the cycle it has seen, and drives a byte only in T3. *)
FollowsCycle ==
  /\ pio.on /\ pio.pc \in {"T1", "T2", "T3_WRITE"} => cycle # Port!NoCycle /\ cycle.reg = pio.reg
  /\ pio.on /\ pio.pc = "T3_WRITE" => cycle.kind = "write"
  /\ pio.on /\ pio.pc = "T3_READ" /\ cycle # Port!NoCycle => cycle.kind = "read" /\ cycle.reg = pio.reg
  /\ pio.on /\ pio.pc = "T3_READ" => pio.reg \in Regs
  /\ pio.pc # "T3_READ" /\ init # "on" => pio.out = None
  /\ hlda => cycle = Port!NoCycle /\ pio.pc = "T0"

(* While the port is being reset it is stopped and its FIFOs are empty. *)
Resetting ==
  /\ init \in {"clear", "release", "jump", "on"} => ~pio.on
  /\ init = "off" /\ ~Booting => ~pio.on
  /\ init \in {"release", "jump", "on"} \/ (~Booting /\ init \notin {"done", "pending"}) =>
       rxf = <<>> /\ txf = <<>>
  /\ init = "on" => pio.pc = "T0"
  /\ ~Booting /\ init # "done" => pending = 0 /\ ~pio.xack /\ pio.out = None
  /\ init \in {"setup", "enable", "seed", "mask", "pending", "unmask", "done"} => pio.on

Prefetch == [t |-> "prefetch", reg |-> pio.reg, byte |-> None]
Ends == [t : {"commit"}, reg : Regs, byte : {None}] \cup [t : {"write"}, reg : Regs, byte : Values]

(* The words and bytes in the FIFOs are those of the open cycle, after the end of the
   last one. *)
Fresh == rxf = <<>> /\ txf = <<>> /\ pending = 0 /\ pio.pc \in {"T0", "T1"}
Asked == rxf = <<Prefetch>> /\ txf = <<>> /\ pending = 0 /\ pio.pc = "T2"
Answered == \E b \in Port!Bytes : rxf = <<>> /\ txf = <<b>> /\ pending = 1 /\ pio.pc = "T2"
Taken == rxf = <<>> /\ txf = <<>> /\ pending = 1 /\ pio.pc \in {"T3_READ", "T3_WRITE"}
Reported == \E e \in Ends : rxf = <<e>> /\ txf = <<>> /\ pending = 1 /\ pio.pc \in {"T0", "T1"}
AskedNext == \E e \in Ends : rxf = <<e, Prefetch>> /\ txf = <<>> /\ pending = 1 /\ pio.pc = "T2"

Balanced == Fresh \/ Asked \/ Answered \/ Taken \/ Reported \/ AskedNext

(* A prefetch word that core 1 cleared at its start: the 8088 waits for the reset. *)
Lost == rxf = <<>> /\ txf = <<>> /\ pending = 0 /\ pio.pc = "T2"

InPort ==
  /\ init = "done" => Balanced
  /\ init = "setup" => pending = 0 /\ txf = <<>> /\ (Fresh \/ Asked)
  /\ init \in {"enable", "seed", "mask"} => Balanced \/ Lost
  /\ init = "off" /\ Booting => Balanced \/ Lost
  /\ init \in {"pending", "unmask"} =>
       /\ txf = <<>> /\ \/ rxf = <<>> /\ pio.pc \in {"T0", "T1"}
                        \/ rxf = <<Prefetch>> /\ pio.pc = "T2"
  /\ init = "unmask" => pending = 0

(* What the 8088 is writing now and may read from then on. *)
Now(r) == IF cycle.kind = "write" /\ cycle.reg = r THEN {cycle.byte} ELSE {}

(* A write to r that the ISR has still to store. *)
Due(r) == {j \in 1 .. Len(rxf) : rxf[j].t = "write" /\ rxf[j].reg = r}

(* What a cell holds, or will once the ISR has caught up. *)
CellsKnown ==
  /\ init \in {"setup", "enable", "seed"} => \A r \in Valid : Zero \in known[r]
  /\ \A r \in Valid : \A j \in Due(r) : rxf[j].byte \in known[r] \cup Now(r)
  /\ init \notin {"setup", "enable", "seed"} =>
       \A r \in Valid : Due(r) = {} \/ Booting => cells[r] \in known[r] \cup Now(r)

(* A cycle that began after the set-up is seen and handled. *)
CleanCycle ==
  cycle.clean =>
    /\ init = "done"
    /\ cycle.kind = "read" => pio.pc \in {"T1", "T2", "T3_READ"}
    /\ cycle.kind = "write" => pio.pc \in {"T0", "T1", "T2", "T3_WRITE"}
    /\ cycle.kind = "write" /\ pio.pc = "T0" /\ cycle.reg \in Valid =>
         /\ \A j \in Due(cycle.reg) : rxf[j].byte = cycle.byte
         /\ Due(cycle.reg) = {} => cells[cycle.reg] = cycle.byte

(* An answer on its way is the cell as it is: the ISR stores nothing in between. *)
AnswerIsCell ==
  init = "done" => /\ txf # <<>> => txf = <<Port!Answer(pio.reg)>>
                   /\ pio.pc = "T3_READ" => pio.out = Port!Answer(pio.reg)

-----------------------------------------------------------------------------
(* The board implements the bus master. *)

LEMMA BoardStepIsBusStep == [BoardNext]_boardVars => [Next]_vars
<1>1. HostCycle \/ CycleEnds \/ PortServes \/ IsrServes \/ Boot \/ RestartPort => UNCHANGED vars
  BY DEF HostCycle, CycleEnds, PortServes, IsrServes, Boot, RestartPort
<1>2. GrantBetweenCycles \/ BusReturns \/ BeginTransfer \/ MasterServes \/ ReadyMoves => Next
  BY DEF GrantBetweenCycles, BusReturns, BeginTransfer, MasterServes, ReadyMoves, Next
<1>3. QuietPort \/ ListenAgain \/ OtherStep => Next
  BY DEF QuietPort, ListenAgain, OtherStep, Next, Worker
<1>4. UNCHANGED boardVars => UNCHANGED vars
  BY DEF boardVars
<1>5. QED
  BY <1>1, <1>2, <1>3, <1>4 DEF BoardNext, Core1

(* What the bus master promises, it promises beside a register port and a host that
   uses it (dma.c with register_irq_handlers.c). *)
THEOREM BoardIsBusMaster == BoardSpec => Spec
<1>1. BoardInit => Init
  BY DEF BoardInit
<1>2. QED
  BY <1>1, BoardStepIsBusStep, PTL DEF BoardSpec, Spec

(* On the whole board, too, one driver at a time. *)
THEOREM BoardOneDriver == BoardSpec => []OneDriver
BY BoardIsBusMaster, OneDriverAlways, PTL

(* On the whole board, too, a transfer is a copy or a failure. *)
THEOREM BoardCopiesOrFails ==
  ASSUME HangOn \subseteq {"write"}
  PROVE  BoardSpec => CopiesOrFails
BY BoardIsBusMaster, CopiesOrFailsAlways, PTL

-----------------------------------------------------------------------------
(* The steps of the board by what they do to the port. *)

(* The bus master and the 8088's grant, beside a port that does not change. *)
BusStep ==
  \/ GrantBetweenCycles \/ BusReturns \/ BeginTransfer \/ MasterServes \/ ReadyMoves
  \/ ~Port!IsrDue /\ OtherStep /\ UNCHANGED portVars
  \/ UNCHANGED boardVars

LEMMA BoardSteps ==
  ASSUME [BoardNext]_boardVars
  PROVE  \/ HostCycle \/ CycleEnds \/ PortServes \/ IsrServes \/ Boot \/ RestartPort
         \/ QuietPort \/ ListenAgain \/ BusStep
BY DEF BoardNext, Core1, BusStep

LEMMA BusStepFrame ==
  ASSUME BusStep, PadsFollow
  PROVE  /\ UNCHANGED <<cycle, pio, rxf, txf, cells, pending, irq, init, known>>
         /\ pc' \in Quieted <=> pc \in Quieted
         /\ pc' \in Quieted \ {"listen"} => pc \in Quieted \ {"listen"}
         /\ pc = "idle" => pc' = "idle" \/ init = "done"
         /\ hlda' => hlda \/ (hold /\ cycle = Port!NoCycle /\ pio.pc = "T0")
<1> USE DEF Quieted, Owned, Loop
<1>1. CASE GrantBetweenCycles \/ BusReturns
  BY <1>1 DEF GrantBetweenCycles, BusReturns, CpuGrant, CpuResume, portVars
<1>2. CASE BeginTransfer
  BY <1>2 DEF BeginTransfer, Begin, At, busVars, portVars
<1>3. CASE MasterServes
  BY <1>3 DEF MasterServes, StateMachine, SmPullFirst, SmPullSecond, SmComplete, SmStep, busVars, portVars
<1>4. CASE ReadyMoves \/ UNCHANGED boardVars
  BY <1>4 DEF ReadyMoves, Hang, Heal, busVars, portVars, boardVars, vars
<1>5. CASE OtherStep /\ UNCHANGED portVars
  <2>1. CASE Request \/ Granted \/ GrantTimeout \/ Withdraw \/ TakeStrobes \/ TakeAddress \/ Enable
    BY <1>5, <2>1 DEF Request, Granted, GrantTimeout, Withdraw, TakeStrobes, TakeAddress, Enable, At, Return, busVars, portVars
  <2>2. CASE PutFirst \/ PutSecond \/ Get
    BY <1>5, <2>2 DEF PutFirst, PutSecond, Get, Put, NextByte, busVars, portVars
  <2>3. CASE Drain \/ SettleBus \/ Park \/ Stop
    BY <1>5, <2>3 DEF Drain, SettleBus, Park, Stop, At, busVars, portVars
  <2>4. CASE FreeAddress \/ FreeStrobes \/ Unhold \/ Await
    BY <1>5, <2>4 DEF FreeAddress, FreeStrobes, Unhold, Await, At, Return, busVars, portVars
  <2>5. QED
    BY <1>5, <2>1, <2>2, <2>3, <2>4 DEF OtherStep
<1>6. QED
  BY <1>1, <1>2, <1>3, <1>4, <1>5 DEF BusStep

(* The other steps leave the worker where it is, or stop and restart the port. *)
LEMMA PortStepFrame ==
  /\ HostCycle \/ CycleEnds \/ PortServes \/ IsrServes \/ Boot \/ RestartPort =>
       pc' = pc /\ hlda' = hlda
  /\ HostCycle => ~hlda /\ Port!Host
  /\ CycleEnds => Port!EndCycle
  /\ PortServes => Port!PortMachine
  /\ IsrServes => Port!Isr
  /\ Boot => Booting /\ (Port!SetUp \/ Port!RestartPort \/ Port!ResetForgets)
  /\ RestartPort => pc = "listen" /\ ~Booting /\ Port!RestartPort
  /\ QuietPort => pc = "quiesce" /\ pc' = "strobes" /\ hlda' = hlda /\ Port!QuiescePort
  /\ ListenAgain => pc = "listen" /\ pc' = "unhold" /\ hlda' = hlda /\ Port!ResetForgets
BY DEF HostCycle, CycleEnds, PortServes, IsrServes, Boot, RestartPort, QuietPort, ListenAgain,
   Quiesce, Listen, At, vars, busVars

(* The fields of the state machine and of the cycle. *)
LEMMA PortFields ==
  ASSUME Port!PortTypeOK
  PROVE  /\ pio.on \in BOOLEAN /\ pio.pc \in {"T0", "T1", "T2", "T3_READ", "T3_WRITE"}
         /\ pio.reg \in Regs \cup {None} /\ pio.out \in Port!Bytes \cup {None} /\ pio.xack \in BOOLEAN
         /\ cycle.kind \in {"none", "read", "write"} /\ cycle.clean \in BOOLEAN
         /\ cycle = Port!NoCycle <=> cycle.kind = "none"
         /\ cycle # Port!NoCycle => cycle.reg \in Regs
         /\ cycle.kind = "read" => cycle.byte = None
         /\ cycle.kind = "write" => cycle.byte \in Values
         /\ ~Port!NoCycle.clean /\ Port!NoCycle.kind = "none"
<1>1. /\ pio.on \in BOOLEAN /\ pio.pc \in {"T0", "T1", "T2", "T3_READ", "T3_WRITE"}
      /\ pio.reg \in Regs \cup {None} /\ pio.out \in Port!Bytes \cup {None} /\ pio.xack \in BOOLEAN
  BY DEF Port!PortTypeOK
<1>2. ~Port!NoCycle.clean /\ Port!NoCycle.kind = "none"
  BY DEF Port!NoCycle
<1>3. CASE cycle = Port!NoCycle
  <2>1. cycle.kind = "none" /\ cycle.clean \in BOOLEAN
    BY <1>3 DEF Port!NoCycle
  <2>2. QED
    BY <1>1, <1>2, <1>3, <2>1
<1>4. CASE cycle \in [kind : {"read"}, reg : Regs, byte : {None}, clean : BOOLEAN]
  BY <1>1, <1>2, <1>4
<1>5. CASE cycle \in [kind : {"write"}, reg : Regs, byte : Values, clean : BOOLEAN]
  BY <1>1, <1>2, <1>5
<1>6. QED
  BY <1>3, <1>4, <1>5 DEF Port!PortTypeOK

(* What each step of the state machine and of its restart leaves in it. *)
LEMMA PioAfter ==
  ASSUME Port!PortTypeOK
  PROVE  /\ Port!PushPrefetch => /\ (pio'.on <=> pio.on) /\ pio'.pc = "T2" /\ pio'.reg = pio.reg
                                 /\ pio'.out = pio.out /\ pio'.xack
         /\ Port!PullAnswer => /\ (pio'.on <=> pio.on) /\ pio'.reg = pio.reg /\ ~pio'.xack
                               /\ cycle.kind = "read" => pio'.pc = "T3_READ" /\ pio'.out = Head(txf)
                               /\ cycle.kind # "read" => pio'.pc = "T3_WRITE" /\ pio'.out = pio.out
         /\ Port!PushCommit => /\ (pio'.on <=> pio.on) /\ pio'.pc = "T0" /\ pio'.out = None
                               /\ (pio'.xack <=> pio.xack)
         /\ Port!PushWrite => /\ (pio'.on <=> pio.on) /\ pio'.pc = "T0" /\ pio'.out = pio.out
                              /\ (pio'.xack <=> pio.xack)
         /\ Port!ResetStops => /\ ~pio'.on /\ pio'.pc = pio.pc /\ pio'.reg = pio.reg
                               /\ pio'.out = pio.out /\ (pio'.xack <=> pio.xack)
         /\ Port!ResetReleases => /\ (pio'.on <=> pio.on) /\ pio'.pc = pio.pc /\ pio'.reg = pio.reg
                                  /\ pio'.out = pio.out /\ ~pio'.xack
         /\ Port!ResetJumps => /\ (pio'.on <=> pio.on) /\ pio'.pc = "T0" /\ pio'.out = pio.out
                               /\ (pio'.xack <=> pio.xack)
         /\ Port!ResetStarts => /\ pio'.on /\ pio'.pc = pio.pc /\ pio'.reg = pio.reg
                                /\ pio'.out = None /\ (pio'.xack <=> pio.xack)
         /\ Port!QuiescePort => /\ ~pio'.on /\ pio'.pc = pio.pc /\ pio'.reg = pio.reg
                                /\ pio'.out = pio.out /\ ~pio'.xack
<1> USE DEF Port!PortTypeOK
<1>1. /\ Port!PushPrefetch => /\ (pio'.on <=> pio.on) /\ pio'.pc = "T2" /\ pio'.reg = pio.reg
                                 /\ pio'.out = pio.out /\ pio'.xack
      /\ Port!PushCommit => /\ (pio'.on <=> pio.on) /\ pio'.pc = "T0" /\ pio'.out = None
                            /\ (pio'.xack <=> pio.xack)
      /\ Port!PushWrite => /\ (pio'.on <=> pio.on) /\ pio'.pc = "T0" /\ pio'.out = pio.out
                           /\ (pio'.xack <=> pio.xack)
  BY DEF Port!PushPrefetch, Port!PushCommit, Port!PushWrite
<1>2. Port!PullAnswer => /\ (pio'.on <=> pio.on) /\ pio'.reg = pio.reg /\ ~pio'.xack
                         /\ cycle.kind = "read" => pio'.pc = "T3_READ" /\ pio'.out = Head(txf)
                         /\ cycle.kind # "read" => pio'.pc = "T3_WRITE" /\ pio'.out = pio.out
  BY DEF Port!PullAnswer
<1>3. /\ Port!ResetStops => /\ ~pio'.on /\ pio'.pc = pio.pc /\ pio'.reg = pio.reg
                            /\ pio'.out = pio.out /\ (pio'.xack <=> pio.xack)
      /\ Port!ResetReleases => /\ (pio'.on <=> pio.on) /\ pio'.pc = pio.pc /\ pio'.reg = pio.reg
                               /\ pio'.out = pio.out /\ ~pio'.xack
      /\ Port!ResetJumps => /\ (pio'.on <=> pio.on) /\ pio'.pc = "T0" /\ pio'.out = pio.out
                            /\ (pio'.xack <=> pio.xack)
  BY DEF Port!ResetStops, Port!ResetReleases, Port!ResetJumps
<1>4. /\ Port!ResetStarts => /\ pio'.on /\ pio'.pc = pio.pc /\ pio'.reg = pio.reg
                             /\ pio'.out = None /\ (pio'.xack <=> pio.xack)
      /\ Port!QuiescePort => /\ ~pio'.on /\ pio'.pc = pio.pc /\ pio'.reg = pio.reg
                             /\ pio'.out = pio.out /\ ~pio'.xack
  BY DEF Port!ResetStarts, Port!QuiescePort
<1>5. QED
  BY <1>1, <1>2, <1>3, <1>4

-----------------------------------------------------------------------------
(* Core 1: the phases of the set-up and of a transfer. *)

LEMMA Core1Step ==
  ASSUME PadsFollow, Core1Inv, [BoardNext]_boardVars
  PROVE  Core1Inv'
<1> USE DEF Core1Inv, Booting
<1>1. CASE HostCycle \/ CycleEnds \/ PortServes \/ IsrServes
  <2>1. UNCHANGED <<pc, hlda, init, irq>>
    BY <1>1, PortStepFrame DEF Port!Host, Port!StartCycle, Port!EndCycle, Port!PortMachine,
       Port!PushPrefetch, Port!PullAnswer, Port!PushCommit, Port!PushWrite, Port!Isr
  <2>2. QED
    BY <2>1
<1>2. CASE Boot
  <2>1. pc' = pc /\ hlda' = hlda /\ pc = "idle" /\ ~hlda /\ pc \notin Quieted
    BY <1>2, PortStepFrame DEF Quieted, Owned, Loop
  <2>2. \/ Port!SetUp \/ Port!RestartPort \/ Port!ResetForgets
    BY <1>2, PortStepFrame
  <2>3. CASE Port!SetUp
    BY <1>2, <2>1, <2>3 DEF Boot, Port!SetUp, Port!SetupClears, Port!SetupEnables, Port!SeedCells,
       Port!MaskIrq, Port!UnmaskIrq, Port!Core1
  <2>4. CASE Port!RestartPort \/ Port!ResetForgets
    BY <1>2, <2>1, <2>4 DEF Boot, Port!RestartPort, Port!ResetStops, Port!ResetClears,
       Port!ResetReleases, Port!ResetJumps, Port!ResetStarts, Port!ResetForgets, Port!Core1
  <2>5. QED
    BY <2>2, <2>3, <2>4
<1>3. CASE RestartPort
  BY <1>3, PortStepFrame DEF Quieted, Owned, Loop, Port!RestartPort, Port!ResetStops,
     Port!ResetClears, Port!ResetReleases, Port!ResetJumps, Port!ResetStarts, Port!Core1
<1>4. CASE QuietPort
  BY <1>4, PortStepFrame DEF Quieted, Owned, Loop, Port!QuiescePort, Port!Core1
<1>5. CASE ListenAgain
  BY <1>5, PortStepFrame DEF Quieted, Owned, Loop, Port!ResetForgets, Port!Core1
<1>6. CASE BusStep
  BY <1>6, BusStepFrame DEF PadsFollow, Quieted, Owned, Loop
<1>7. QED
  BY <1>1, <1>2, <1>3, <1>4, <1>5, <1>6, BoardSteps

LEMMA CycleAfter ==
  ASSUME Port!PortTypeOK, Port!Host
  PROVE  /\ cycle = Port!NoCycle /\ cycle' # Port!NoCycle /\ cycle'.reg \in Regs
         /\ cycle'.kind \in {"read", "write"} /\ cycle'.kind = "write" => cycle'.byte \in Values
         /\ cycle'.clean <=> init = "done"
         /\ UNCHANGED <<rxf, txf, cells, pending, irq, init, known>>
         /\ pio.on => /\ pio.pc = "T0" /\ pio'.on /\ pio'.pc = "T1" /\ pio'.reg = cycle'.reg
                      /\ pio'.out = pio.out /\ (pio'.xack <=> pio.xack)
         /\ ~pio.on => pio' = pio
<1>1. PICK k \in {"read", "write"}, r \in Regs, b \in Values \cup {None} :
        Port!StartCycle(k, r, b) /\ (k = "write" => b \in Values)
  BY DEF Port!Host
<1>2. cycle' = [kind |-> k, reg |-> r, byte |-> b, clean |-> init = "done"]
  BY <1>1 DEF Port!StartCycle
<1>3. cycle' # Port!NoCycle /\ cycle'.kind = k /\ cycle'.reg = r /\ cycle'.byte = b
      /\ (cycle'.clean <=> init = "done")
  BY <1>2 DEF Port!NoCycle
<1>4. pio.on => pio' = [pio EXCEPT !.pc = "T1", !.reg = r]
  BY <1>1 DEF Port!StartCycle
<1>5. pio.on => /\ pio.pc = "T0" /\ pio'.on /\ pio'.pc = "T1" /\ pio'.reg = r
                /\ pio'.out = pio.out /\ (pio'.xack <=> pio.xack)
  BY <1>1, <1>4 DEF Port!StartCycle, Port!Following, Port!PortTypeOK
<1>6. QED
  BY <1>1, <1>3, <1>5 DEF Port!StartCycle

(* A step of the state machine. *)
LEMMA MachineFrame ==
  ASSUME Port!PortMachine
  PROVE  /\ pio.on /\ UNCHANGED <<cycle, cells, pending, irq, init, known>>
         /\ Port!PushPrefetch => pio.pc = "T1" /\ txf' = txf
         /\ Port!PullAnswer => pio.pc = "T2" /\ txf # <<>> /\ rxf' = rxf /\ txf' = Tail(txf)
         /\ Port!PushCommit => pio.pc = "T3_READ" /\ cycle = Port!NoCycle /\ txf' = txf
         /\ Port!PushWrite => pio.pc = "T3_WRITE" /\ txf' = txf
         /\ Port!PushPrefetch \/ Port!PullAnswer \/ Port!PushCommit \/ Port!PushWrite
BY DEF Port!PortMachine, Port!PushPrefetch, Port!PullAnswer, Port!PushCommit, Port!PushWrite

(* A step of the set-up or of a restart. *)
Prepares == Port!SetUp \/ Port!RestartPort \/ Port!ResetForgets \/ Port!QuiescePort

LEMMA PreparesFrame ==
  ASSUME Prepares
  PROVE  /\ ~Port!IsrDue /\ UNCHANGED <<cycle, known>>
         /\ \/ Port!SetupClears \/ Port!SetupEnables \/ Port!SeedCells \/ Port!MaskIrq
            \/ Port!UnmaskIrq \/ Port!ResetStops \/ Port!ResetClears \/ Port!ResetReleases
            \/ Port!ResetJumps \/ Port!ResetStarts \/ Port!ResetForgets \/ Port!QuiescePort
         /\ Port!SetupClears => /\ init = "setup" /\ init' = "enable" /\ rxf' = <<>> /\ txf' = <<>>
                                /\ UNCHANGED <<pio, cells, pending, irq>>
         /\ Port!SetupEnables => /\ init = "enable" /\ init' = "seed" /\ irq'
                                 /\ UNCHANGED <<pio, rxf, txf, cells, pending>>
         /\ Port!SeedCells => /\ init = "seed" /\ init' = "mask" /\ cells' = [r \in Regs |-> Zero]
                              /\ UNCHANGED <<pio, rxf, txf, pending, irq>>
         /\ Port!MaskIrq => /\ init = "mask" /\ init' = "off" /\ ~irq'
                            /\ UNCHANGED <<pio, rxf, txf, cells, pending>>
         /\ Port!UnmaskIrq => /\ init = "unmask" /\ init' = "done" /\ irq'
                              /\ UNCHANGED <<pio, rxf, txf, cells, pending>>
         /\ Port!ResetStops => /\ init = "off" /\ init' = "clear"
                               /\ UNCHANGED <<rxf, txf, cells, pending, irq>>
         /\ Port!ResetClears => /\ init = "clear" /\ init' = "release" /\ rxf' = <<>> /\ txf' = <<>>
                                /\ UNCHANGED <<pio, cells, pending, irq>>
         /\ Port!ResetReleases => /\ init = "release" /\ init' = "jump"
                                  /\ UNCHANGED <<rxf, txf, cells, pending, irq>>
         /\ Port!ResetJumps => /\ init = "jump" /\ init' = "on"
                               /\ UNCHANGED <<rxf, txf, cells, pending, irq>>
         /\ Port!ResetStarts => /\ init = "on" /\ init' = "pending"
                                /\ UNCHANGED <<rxf, txf, cells, pending, irq>>
         /\ Port!ResetForgets => /\ init = "pending" /\ init' \in {"done", "unmask"}
                                 /\ (init' = "done" <=> irq) /\ pending' = 0
                                 /\ UNCHANGED <<pio, rxf, txf, cells, irq>>
         /\ Port!QuiescePort => /\ init = "done" /\ init' = "off" /\ rxf' = <<>> /\ txf' = <<>>
                                /\ UNCHANGED <<cells, pending, irq>>
<1>1. CASE Port!SetUp
  BY <1>1 DEF Port!SetUp, Port!SetupClears, Port!SetupEnables, Port!SeedCells, Port!MaskIrq,
     Port!UnmaskIrq, Port!Core1, Port!RestartPort, Port!ResetStops, Port!ResetClears,
     Port!ResetReleases, Port!ResetJumps, Port!ResetStarts, Port!ResetForgets, Port!QuiescePort
<1>2. CASE Port!RestartPort
  BY <1>2 DEF Port!SetUp, Port!SetupClears, Port!SetupEnables, Port!SeedCells, Port!MaskIrq,
     Port!UnmaskIrq, Port!Core1, Port!RestartPort, Port!ResetStops, Port!ResetClears,
     Port!ResetReleases, Port!ResetJumps, Port!ResetStarts, Port!ResetForgets, Port!QuiescePort
<1>3. CASE Port!ResetForgets \/ Port!QuiescePort
  BY <1>3 DEF Port!SetUp, Port!SetupClears, Port!SetupEnables, Port!SeedCells, Port!MaskIrq,
     Port!UnmaskIrq, Port!Core1, Port!RestartPort, Port!ResetStops, Port!ResetClears,
     Port!ResetReleases, Port!ResetJumps, Port!ResetStarts, Port!ResetForgets, Port!QuiescePort
<1>4. QED
  BY <1>1, <1>2, <1>3 DEF Prepares

(* Every step of the board, as the port sees it. *)
LEMMA PortSteps ==
  ASSUME [BoardNext]_boardVars, PadsFollow
  PROVE  \/ Port!Host /\ ~hlda /\ pc' = pc /\ hlda' = hlda
         \/ Port!EndCycle /\ pc' = pc /\ hlda' = hlda
         \/ Port!PortMachine /\ pc' = pc /\ hlda' = hlda
         \/ Port!Isr /\ pc' = pc /\ hlda' = hlda
         \/ Prepares /\ hlda' = hlda
         \/ BusStep
BY BoardSteps, PortStepFrame DEF Prepares

-----------------------------------------------------------------------------
(* The port: what the state machine follows and when it is stopped. *)

LEMMA FollowsStep ==
  ASSUME Port!PortTypeOK, PadsFollow, Core1Inv, FollowsCycle, Resetting, [BoardNext]_boardVars
  PROVE  FollowsCycle'
<1> USE DEF FollowsCycle
<1>1. CASE Port!Host /\ ~hlda /\ hlda' = hlda
  <2>1. init = "on" => ~pio.on
    BY DEF Resetting
  <2>2. QED
    BY <1>1, <2>1, CycleAfter
<1>2. CASE Port!EndCycle /\ hlda' = hlda
  <2>1. cycle' = Port!NoCycle /\ UNCHANGED <<pio, init>> /\ (pio.on => pio.pc \in {"T0", "T3_READ"})
    BY <1>2 DEF Port!EndCycle
  <2>2. QED
    BY <1>2, <2>1
<1>3. CASE Port!PortMachine /\ hlda' = hlda
  BY <1>3, MachineFrame, PioAfter, PortFields
<1>4. CASE Port!Isr /\ hlda' = hlda
  BY <1>4 DEF Port!Isr
<1>5. CASE Prepares /\ hlda' = hlda
  <2>1. Port!ResetStarts => pio.pc = "T0"
    BY <1>5, PreparesFrame DEF Resetting
  <2>2. QED
    BY <1>5, <2>1, PreparesFrame, PioAfter
<1>6. CASE BusStep
  BY <1>6, BusStepFrame
<1>7. QED
  BY <1>1, <1>2, <1>3, <1>4, <1>5, <1>6, PortSteps

(* When core 1 stops the port for a transfer, nothing is under way. *)
LEMMA QuietAtStop ==
  ASSUME Port!PortTypeOK, PadsFollow, Core1Inv, FollowsCycle, InPort, QuietPort
  PROVE  pio.pc = "T0" /\ pending = 0 /\ pio.out = None
<1>1. hlda /\ pc = "quiesce" /\ Port!QuiescePort
  BY PortStepFrame DEF PadsFollow, Owned
<1>2. pio.pc = "T0" /\ init = "done" /\ ~Port!IsrDue
  BY <1>1, PreparesFrame DEF FollowsCycle, Prepares
<1>3. irq /\ rxf = <<>>
  BY <1>2 DEF Core1Inv, Port!IsrDue
<1>4. pending = 0
  BY <1>2, <1>3 DEF InPort, Balanced, Fresh, Asked, Answered, Taken, Reported, AskedNext
<1>5. QED
  BY <1>2, <1>4 DEF FollowsCycle

LEMMA ResettingStep ==
  ASSUME Port!PortTypeOK, PadsFollow, Core1Inv, FollowsCycle, Resetting, InPort,
         [BoardNext]_boardVars
  PROVE  Resetting'
<1>0. pc \in Quieted => hlda
  BY DEF PadsFollow, Quieted
<1> USE DEF Resetting, Booting
<1>1. CASE Port!Host /\ pc' = pc /\ hlda' = hlda
  <2>1. init = "on" => ~pio.on
    OBVIOUS
  <2>2. QED
    BY <1>1, <2>1, CycleAfter, PortFields
<1>2. CASE Port!EndCycle
  BY <1>2 DEF Port!EndCycle
<1>3. CASE Port!PortMachine
  <2>1. ~Booting /\ init # "done" => hlda
    BY <1>0 DEF Core1Inv
  <2>2. ~(~Booting /\ init # "done")
    BY <1>3, <2>1, MachineFrame DEF FollowsCycle
  <2>3. init \notin {"release", "jump", "on"}
    BY <1>3, MachineFrame
  <2>4. QED
    BY <1>3, <2>2, <2>3, MachineFrame, PioAfter
<1>4. CASE Port!Isr
  <2>1. rxf # <<>> /\ irq /\ UNCHANGED <<pio, init, irq>>
    BY <1>4 DEF Port!Isr, Port!IsrDue
  <2>2. ~Booting /\ init = "pending" => rxf = <<>>
    BY <1>0 DEF Core1Inv, FollowsCycle, InPort
  <2>3. ~(~Booting /\ init # "done") /\ init \notin {"release", "jump", "on"}
    BY <2>1, <2>2 DEF Core1Inv
  <2>4. QED
    BY <2>1, <2>3
<1>5. CASE Boot
  <2>1. Prepares /\ ~Port!QuiescePort /\ Booting
    BY <1>5, PortStepFrame, PreparesFrame DEF Prepares, Core1Inv
  <2>2. QED
    BY <2>1, PreparesFrame, PioAfter DEF Core1Inv
<1>6. CASE RestartPort
  <2>1. Prepares /\ ~Booting /\ init' # "done" /\ ~Port!QuiescePort
    BY <1>6, PortStepFrame DEF Prepares, Port!RestartPort, Port!QuiescePort, Port!Core1, Port!ResetStops,
       Port!ResetClears, Port!ResetReleases, Port!ResetJumps, Port!ResetStarts
  <2>2. QED
    BY <1>6, <2>1, PreparesFrame, PioAfter
<1>7. CASE QuietPort
  <2>1. pio.pc = "T0" /\ pending = 0 /\ pio.out = None
    BY <1>7, QuietAtStop
  <2>2. QED
    BY <1>7, <2>1, PreparesFrame, PortStepFrame, PioAfter DEF Prepares
<1>8. CASE ListenAgain
  BY <1>8, PreparesFrame, PortStepFrame DEF Prepares, Core1Inv
<1>9. CASE BusStep
  BY <1>9, BusStepFrame
<1>10. CASE HostCycle \/ CycleEnds \/ PortServes \/ IsrServes
  BY <1>1, <1>2, <1>3, <1>4, <1>10, PortStepFrame
<1>11. QED
  BY <1>5, <1>6, <1>7, <1>8, <1>9, <1>10, BoardSteps

-----------------------------------------------------------------------------
(* The port: the words and bytes in its FIFOs. *)

(* FIFOs of at most two words. *)
LEMMA ShortFifo ==
  ASSUME NEW a, NEW b
  PROVE  /\ Append(<<>>, a) = <<a>> /\ Append(<<a>>, b) = <<a, b>>
         /\ Head(<<a>>) = a /\ Tail(<<a>>) = <<>> /\ <<a>> # <<>>
         /\ Head(<<a, b>>) = a /\ Tail(<<a, b>>) = <<b>> /\ <<a, b>> # <<>>
         /\ Len(<<>>) = 0 /\ Len(<<a>>) = 1 /\ Len(<<a, b>>) = 2
         /\ <<a>>[1] = a /\ <<a, b>>[1] = a /\ <<a, b>>[2] = b
<1>1. Append(<<a>>, b) = <<a, b>>
  <2> DEFINE S == {a, b}
  <2>1. <<a>> \in Seq(S) /\ <<a, b>> \in Seq(S) /\ b \in S
    OBVIOUS
  <2>2. Append(<<a>>, b) \in Seq(S) /\ Len(Append(<<a>>, b)) = 2
    BY <2>1
  <2>3. Append(<<a>>, b)[1] = a /\ Append(<<a>>, b)[2] = b
    BY <2>1
  <2>4. Len(<<a, b>>) = 2 /\ <<a, b>>[1] = a /\ <<a, b>>[2] = b
    OBVIOUS
  <2> HIDE DEF S
  <2>5. \A i \in 1 .. 2 : Append(<<a>>, b)[i] = <<a, b>>[i]
    BY <2>3, <2>4
  <2>6. QED
    BY <2>1, <2>2, <2>4, <2>5, SeqEqual
<1>2. QED
  BY <1>1

(* An answer is a byte. *)
LEMMA AnswerTyped ==
  ASSUME Port!PortTypeOK, NEW r \in Regs
  PROVE  Port!Answer(r) \in Port!Bytes
BY RegsAssumption DEF Port!PortTypeOK, Port!Answer, Port!Bytes

LEMMA BalancedMachine ==
  ASSUME Port!PortTypeOK, FollowsCycle, Balanced, Port!PortMachine
  PROVE  Balanced'
<1> USE DEF Fresh, Asked, Answered, Taken, Reported, AskedNext
<1>1. CASE Port!PushPrefetch
  <2>1. /\ pio.pc = "T1" /\ pio'.pc = "T2" /\ pio'.reg = pio.reg
        /\ UNCHANGED <<txf, pending>> /\ rxf' = Append(rxf, Prefetch) /\ Prefetch' = Prefetch
    BY <1>1, MachineFrame, PioAfter DEF Port!PushPrefetch, Port!Push, Prefetch
  <2>2. CASE Fresh
    BY <2>1, <2>2, ShortFifo DEF Balanced
  <2>3. CASE Reported
    <3>1. PICK e \in Ends : rxf = <<e>> /\ txf = <<>> /\ pending = 1
      BY <2>3
    <3>2. rxf' = <<e, Prefetch'>>
      <4>1. Append(<<e>>, Prefetch) = <<e, Prefetch>>
        BY ShortFifo
      <4>2. QED
        BY <2>1, <3>1, <4>1
    <3>3. QED
      BY <2>1, <3>1, <3>2 DEF Balanced, Ends
  <2>4. QED
    BY <2>1, <2>2, <2>3 DEF Balanced
<1>2. CASE Port!PullAnswer
  <2>1. pio.pc = "T2" /\ txf # <<>> /\ txf' = Tail(txf) /\ UNCHANGED <<rxf, pending>>
        /\ pio'.pc \in {"T3_READ", "T3_WRITE"}
    BY <1>2, MachineFrame, PioAfter
  <2>2. PICK b \in Port!Bytes : rxf = <<>> /\ txf = <<b>> /\ pending = 1
    BY <2>1 DEF Balanced
  <2>3. txf' = <<>>
    BY <2>1, <2>2, ShortFifo
  <2>4. QED
    BY <2>1, <2>2, <2>3 DEF Balanced
<1>3. CASE Port!PushCommit \/ Port!PushWrite
  <2>1. /\ pio.pc \in {"T3_READ", "T3_WRITE"} /\ pio'.pc = "T0" /\ UNCHANGED <<txf, pending>>
        /\ rxf = <<>> /\ txf = <<>> /\ pending = 1
    BY <1>3, MachineFrame, PioAfter DEF Balanced
  <2>2. PICK e \in Ends : rxf' = Append(rxf, e)
    <3>1. Port!PushCommit => /\ [t |-> "commit", reg |-> pio.reg, byte |-> None] \in Ends
                             /\ rxf' = Append(rxf, [t |-> "commit", reg |-> pio.reg, byte |-> None])
      BY MachineFrame DEF Port!PushCommit, Port!Push, FollowsCycle, Ends
    <3>2. Port!PushWrite => pio.reg \in Regs /\ cycle.byte \in Values
      BY <1>3, MachineFrame, PortFields DEF FollowsCycle
    <3>3. Port!PushWrite => /\ [t |-> "write", reg |-> pio.reg, byte |-> cycle.byte] \in Ends
                            /\ rxf' = Append(rxf, [t |-> "write", reg |-> pio.reg, byte |-> cycle.byte])
      BY <3>2 DEF Port!PushWrite, Port!Push, Ends
    <3>4. QED
      BY <1>3, <3>1, <3>3
  <2>3. rxf' = <<e>>
    BY <2>1, <2>2, ShortFifo
  <2>4. QED
    BY <2>1, <2>2, <2>3 DEF Balanced, Ends
<1>4. QED
  BY <1>1, <1>2, <1>3, MachineFrame

(* What the ISR does with a word. *)
LEMMA IsrAfter ==
  ASSUME Port!Isr
  PROVE  /\ irq /\ rxf # <<>> /\ rxf' = Tail(rxf) /\ UNCHANGED <<cycle, pio, irq, init, known>>
         /\ Head(rxf).t = "prefetch" =>
              /\ pending' = pending + 1 /\ cells' = cells
              /\ txf' = IF Len(txf) < Depth THEN Append(txf, Port!Answer(Head(rxf).reg)) ELSE txf
         /\ Head(rxf).t = "commit" => pending' = Port!Down(pending) /\ UNCHANGED <<txf, cells>>
         /\ Head(rxf).t = "write" =>
              /\ pending' = Port!Down(pending) /\ txf' = txf
              /\ cells' = IF Head(rxf).reg \in Valid
                            THEN [cells EXCEPT ![Head(rxf).reg] = Head(rxf).byte] ELSE cells
BY DEF Port!Isr, Port!IsrDue, Port!PutIsrSafe

LEMMA EndsTyped ==
  \A e \in Ends : /\ e.t \in {"commit", "write"} /\ e.reg \in Regs
                  /\ e.t = "write" => e.byte \in Values
BY DEF Ends

(* A port with a word for the ISR is in one of these. *)
LEMMA IsrShapes ==
  ASSUME Port!PortTypeOK, FollowsCycle, pio.on, Balanced, Port!Isr
  PROVE  \/ /\ Asked /\ Head(rxf) = Prefetch /\ Prefetch.t = "prefetch" /\ pio.reg \in Regs
            /\ txf' = <<Port!Answer(pio.reg)>> /\ Answered' /\ cells' = cells
         \/ \E e \in Ends : Reported /\ rxf = <<e>> /\ Head(rxf) = e /\ Fresh'
         \/ \E e \in Ends : AskedNext /\ rxf = <<e, Prefetch>> /\ Head(rxf) = e /\ Asked'
<1> USE DEF Fresh, Asked, Answered, Reported, AskedNext
<1>0. rxf # <<>> /\ rxf' = Tail(rxf) /\ pio' = pio /\ Prefetch' = Prefetch
  BY IsrAfter DEF Prefetch
<1>1. CASE Asked
  <2>1. Head(rxf) = Prefetch /\ Prefetch.t = "prefetch" /\ Prefetch.reg = pio.reg /\ rxf' = <<>>
    BY <1>0, <1>1, ShortFifo DEF Prefetch
  <2>2. Len(txf) < Depth
    BY <1>1, Lengths, ShortFifo
  <2>3. pending' = 1 /\ cells' = cells /\ txf' = <<Port!Answer(pio.reg)>>
    BY <1>1, <2>1, <2>2, IsrAfter, ShortFifo
  <2>4. pio.reg \in Regs /\ Port!Answer(pio.reg) \in Port!Bytes
    BY <1>1, PortFields, AnswerTyped DEF FollowsCycle
  <2>5. QED
    BY <1>0, <1>1, <2>1, <2>3, <2>4
<1>2. CASE Reported
  <2>1. PICK e \in Ends : rxf = <<e>> /\ txf = <<>> /\ pending = 1 /\ pio.pc \in {"T0", "T1"}
    BY <1>2
  <2>2. Head(rxf) = e /\ rxf' = <<>>
    BY <1>0, <2>1, ShortFifo
  <2>3. pending' = 0 /\ txf' = txf
    BY <2>1, <2>2, IsrAfter, EndsTyped DEF Port!Down
  <2>4. QED
    BY <1>0, <1>2, <2>1, <2>2, <2>3
<1>3. CASE AskedNext
  <2>1. PICK e \in Ends : rxf = <<e, Prefetch>> /\ txf = <<>> /\ pending = 1 /\ pio.pc = "T2"
    BY <1>3
  <2>2. Head(rxf) = e /\ rxf' = <<Prefetch'>>
    BY <1>0, <2>1, ShortFifo
  <2>3. pending' = 0 /\ txf' = txf
    BY <2>1, <2>2, IsrAfter, EndsTyped DEF Port!Down
  <2>4. QED
    BY <1>0, <1>3, <2>1, <2>2, <2>3
<1>4. QED
  BY <1>0, <1>1, <1>2, <1>3 DEF Balanced, Taken

LEMMA BalancedHost ==
  ASSUME Port!PortTypeOK, pio.on, Balanced, Port!Host
  PROVE  Balanced'
<1>1. /\ UNCHANGED <<rxf, txf, pending>> /\ pio.pc = "T0" /\ pio'.pc = "T1"
  BY CycleAfter
<1>2. CASE Fresh
  BY <1>1, <1>2 DEF Balanced, Fresh
<1>3. CASE Reported
  <2>1. Reported'
    BY <1>1, <1>3 DEF Reported, Ends
  <2>2. QED
    BY <2>1 DEF Balanced
<1>4. QED
  BY <1>1, <1>2, <1>3 DEF Balanced, Asked, Answered, Taken, AskedNext

(* Nothing in the port changes. *)
LEMMA SameShape ==
  ASSUME UNCHANGED <<pio, rxf, txf, pending>>
  PROVE  /\ (Balanced' <=> Balanced) /\ (Lost' <=> Lost) /\ (Fresh' <=> Fresh) /\ (Asked' <=> Asked)
         /\ Prefetch' = Prefetch
BY DEF Balanced, Lost, Fresh, Asked, Answered, Taken, Reported, AskedNext, Prefetch, Ends

LEMMA InPortStep ==
  ASSUME Port!PortTypeOK, PadsFollow, Core1Inv, FollowsCycle, Resetting, InPort,
         [BoardNext]_boardVars
  PROVE  InPort'
<1>1. CASE Port!Host /\ pc' = pc /\ hlda' = hlda
  <2>1. UNCHANGED <<init, irq, rxf, txf, pending>>
    BY <1>1, CycleAfter
  <2>2. CASE pio.on
    <3>1. pio.pc = "T0" /\ pio'.pc = "T1"
      BY <1>1, <2>2, CycleAfter
    <3>2. Fresh => Fresh'
      BY <2>1, <3>1 DEF Fresh
    <3>3. Balanced => Balanced'
      BY <1>1, <2>2, BalancedHost
    <3>4. ~Lost /\ ~Asked
      BY <3>1 DEF Lost, Asked
    <3>5. QED
      BY <2>1, <3>1, <3>2, <3>3, <3>4 DEF InPort, Booting
  <2>3. CASE ~pio.on
    <3>1. pio' = pio
      BY <1>1, <2>3, CycleAfter
    <3>2. QED
      BY <2>1, <3>1, SameShape DEF InPort, Booting
  <2>4. QED
    BY <2>2, <2>3
<1>2. CASE Port!EndCycle
  <2>1. UNCHANGED <<pio, rxf, txf, pending, init, irq>>
    BY <1>2 DEF Port!EndCycle
  <2>2. QED
    BY <2>1, SameShape DEF InPort, Booting
<1>3. CASE Port!PortMachine
  <2>1. pio.on /\ UNCHANGED <<init, irq, pending>>
    BY <1>3, MachineFrame
  <2>2. Balanced => Balanced'
    BY <1>3, BalancedMachine
  <2>3. ~Lost
    BY <1>3, MachineFrame DEF Lost
  <2>4. ASSUME rxf = <<>>, txf = <<>>, pio.pc \in {"T0", "T1"}
        PROVE  rxf' = <<Prefetch'>> /\ txf' = <<>> /\ pio'.pc = "T2"
    <3>1. Port!PushPrefetch
      BY <1>3, <2>4, MachineFrame
    <3>2. rxf' = Append(rxf, Prefetch) /\ pio'.pc = "T2" /\ pio'.reg = pio.reg /\ txf' = txf
      BY <1>3, <3>1, PioAfter, MachineFrame DEF Port!PushPrefetch, Port!Push, Prefetch
    <3>3. Prefetch' = Prefetch
      BY <3>2 DEF Prefetch
    <3>4. QED
      BY <2>4, <3>2, <3>3, ShortFifo
  <2>5. ~(txf = <<>> /\ pio.pc = "T2")
    BY <1>3, MachineFrame
  <2>6. init = "setup" => Asked'
    BY <2>1, <2>4, <2>5 DEF InPort, Fresh, Asked
  <2>7. QED
    BY <2>1, <2>2, <2>3, <2>4, <2>5, <2>6 DEF InPort, Booting, Asked
<1>4. CASE Port!Isr
  <2>1. irq /\ rxf # <<>> /\ UNCHANGED <<init, irq>>
    BY <1>4, IsrAfter
  <2>2. ~(~Booting /\ init # "done")
    BY <2>1 DEF Core1Inv, Resetting, FollowsCycle, InPort, PadsFollow, Quieted
  <2>3. init \in {"seed", "mask", "done"} /\ pio.on
    BY <2>1, <2>2 DEF Core1Inv, Resetting
  <2>4. Balanced
    BY <2>1, <2>3 DEF InPort, Lost
  <2>5. Balanced'
    BY <1>4, <2>3, <2>4, IsrShapes DEF Balanced, Asked
  <2>6. QED
    BY <2>1, <2>3, <2>5 DEF InPort
<1>5. CASE Boot \/ RestartPort \/ ListenAgain
  <2>1. Prepares
    BY <1>5, PortStepFrame DEF Prepares
  <2>2. CASE Port!SetupClears
    <3>1. UNCHANGED <<pio, pending>> /\ rxf' = <<>> /\ txf' = <<>> /\ init = "setup" /\ init' = "enable"
      BY <2>1, <2>2, PreparesFrame
    <3>2. Fresh' \/ Lost'
      BY <3>1 DEF InPort, Fresh, Asked, Lost
    <3>3. QED
      BY <3>1, <3>2 DEF InPort, Balanced
  <2>3. CASE Port!SetupEnables \/ Port!SeedCells \/ Port!MaskIrq
    <3>1. /\ UNCHANGED <<pio, rxf, txf, pending>> /\ init \in {"enable", "seed", "mask"}
          /\ init' \in {"seed", "mask", "off"}
      BY <2>1, <2>3, PreparesFrame
    <3>2. QED
      BY <3>1, SameShape DEF InPort
  <2>4. CASE Port!ResetStops \/ Port!ResetClears \/ Port!ResetReleases \/ Port!ResetJumps
    BY <2>1, <2>4, PreparesFrame DEF InPort
  <2>5. CASE Port!ResetStarts
    <3>1. /\ rxf' = <<>> /\ txf' = <<>> /\ init' = "pending" /\ pio'.pc = "T0"
      BY <2>1, <2>5, PreparesFrame, PioAfter DEF Resetting
    <3>2. QED
      BY <3>1 DEF InPort
  <2>6. CASE Port!ResetForgets \/ Port!UnmaskIrq
    <3>1. /\ UNCHANGED <<pio, rxf, txf>> /\ init \in {"pending", "unmask"} /\ pending' = 0
          /\ init' \in {"done", "unmask"} /\ Prefetch' = Prefetch
      BY <2>1, <2>6, PreparesFrame DEF InPort, Prefetch
    <3>2. Fresh' \/ Asked'
      BY <3>1 DEF InPort, Fresh, Asked
    <3>3. QED
      BY <3>1, <3>2 DEF InPort, Balanced
  <2>7. ~Port!QuiescePort
    BY <1>5, PortStepFrame, PreparesFrame, <2>1 DEF Core1Inv, Booting, Quieted, Owned
  <2>8. QED
    BY <2>1, <2>2, <2>3, <2>4, <2>5, <2>6, <2>7, PreparesFrame
<1>6. CASE QuietPort
  <2>1. init' = "off" /\ irq' = irq /\ init = "done"
    BY <1>6, PortStepFrame, PreparesFrame DEF Prepares
  <2>2. QED
    BY <2>1 DEF InPort, Booting, Core1Inv
<1>7. CASE BusStep
  <2>1. UNCHANGED <<pio, rxf, txf, pending, init, irq>>
    BY <1>7, BusStepFrame
  <2>2. QED
    BY <2>1, SameShape DEF InPort, Booting
<1>8. CASE HostCycle \/ CycleEnds \/ PortServes \/ IsrServes
  BY <1>1, <1>2, <1>3, <1>4, <1>8, PortStepFrame
<1>9. QED
  BY <1>5, <1>6, <1>7, <1>8, BoardSteps

-----------------------------------------------------------------------------
(* The port: what the cells hold. *)

LEMMA AnswerStep ==
  ASSUME Port!PortTypeOK, PadsFollow, Core1Inv, FollowsCycle, Resetting, InPort, InPort',
         AnswerIsCell, [BoardNext]_boardVars
  PROVE  AnswerIsCell'
<1> SUFFICES ASSUME init' = "done"
             PROVE  /\ txf' # <<>> => txf' = <<Port!Answer(pio.reg)'>>
                    /\ pio'.pc = "T3_READ" => pio'.out = Port!Answer(pio.reg)'
  BY DEF AnswerIsCell
<1>0. init = "done" => pio.on /\ Balanced
  BY DEF InPort, Resetting
<1> USE DEF Fresh, Asked, Answered, Taken, Reported, AskedNext
<1>1. CASE Port!Host
  <2>1. init = "done" /\ txf' = txf
    BY <1>1, CycleAfter
  <2>2. pio.pc = "T0" /\ pio'.pc = "T1"
    BY <1>0, <1>1, <2>1, CycleAfter
  <2>3. txf = <<>>
    BY <1>0, <2>1, <2>2 DEF Balanced
  <2>4. QED
    BY <2>1, <2>2, <2>3
<1>2. CASE Port!EndCycle \/ BusStep
  <2>1. UNCHANGED <<pio, txf, cells, init>>
    BY <1>2, BusStepFrame DEF Port!EndCycle
  <2>2. QED
    BY <2>1 DEF AnswerIsCell, Port!Answer
<1>3. CASE Port!PortMachine
  <2>1. init = "done" /\ cells' = cells
    BY <1>3, MachineFrame
  <2>2. CASE Port!PullAnswer
    <3>1. PICK b \in Port!Bytes : txf = <<b>>
      BY <1>0, <1>3, <2>1, <2>2, MachineFrame DEF Balanced
    <3>2. b = Port!Answer(pio.reg)
      BY <2>1, <3>1, ShortFifo DEF AnswerIsCell
    <3>3. txf' = <<>> /\ Head(txf) = b
      BY <1>3, <2>2, <3>1, MachineFrame, ShortFifo
    <3>4. pio'.pc = "T3_READ" => pio'.out = b
      BY <2>2, <3>3, PioAfter
    <3>5. pio'.reg = pio.reg
      BY <2>2, PioAfter
    <3>6. QED
      BY <2>1, <3>2, <3>3, <3>4, <3>5 DEF Port!Answer
  <2>3. CASE Port!PushPrefetch \/ Port!PushCommit \/ Port!PushWrite
    <3>1. txf' = txf /\ pio.pc \in {"T1", "T3_READ", "T3_WRITE"} /\ pio'.pc \in {"T0", "T2"}
      BY <1>3, <2>3, MachineFrame, PioAfter
    <3>2. txf = <<>>
      BY <1>0, <2>1, <3>1 DEF Balanced
    <3>3. QED
      BY <3>1, <3>2
  <2>4. QED
    BY <1>3, <2>2, <2>3, MachineFrame
<1>4. CASE Port!Isr
  <2>1. init = "done" /\ pio' = pio
    BY <1>4, IsrAfter
  <2>2. \/ Asked /\ txf' = <<Port!Answer(pio.reg)>> /\ cells' = cells
        \/ Fresh' \/ Asked'
    BY <1>0, <1>4, <2>1, IsrShapes
  <2>3. QED
    BY <2>1, <2>2 DEF Port!Answer
<1>5. CASE Prepares
  <2>1. init \in {"pending", "unmask"} /\ UNCHANGED <<pio, txf>>
    BY <1>5, PreparesFrame
  <2>2. QED
    BY <2>1 DEF InPort
<1>6. QED
  BY <1>1, <1>2, <1>3, <1>4, <1>5, PortSteps

(* The writes the ISR still has to store, after a word more. *)
LEMMA DueAppend ==
  ASSUME Port!PortTypeOK, NEW w \in Port!PortWord, rxf' = Append(rxf, w), NEW r
  PROVE  /\ Due(r)' = Due(r) \cup IF w.t = "write" /\ w.reg = r THEN {Len(rxf) + 1} ELSE {}
         /\ \A j \in Due(r) : rxf'[j] = rxf[j]
         /\ rxf'[Len(rxf) + 1] = w /\ Len(rxf) + 1 \notin Due(r)
<1>1. /\ Len(rxf) \in Nat /\ Len(rxf') = Len(rxf) + 1 /\ rxf'[Len(rxf) + 1] = w
      /\ \A j \in 1 .. Len(rxf) : rxf'[j] = rxf[j]
  BY FifoElements DEF Port!PortTypeOK
<1>2. QED
  BY <1>1 DEF Due

(* ... in a FIFO of at most two words. *)
LEMMA DueShort ==
  ASSUME NEW r, NEW e
  PROVE  /\ rxf = <<>> => Due(r) = {}
         /\ rxf = <<Prefetch>> => Due(r) = {}
         /\ rxf = <<e>> \/ rxf = <<e, Prefetch>> =>
              /\ Due(r) = IF e.t = "write" /\ e.reg = r THEN {1} ELSE {}
              /\ rxf[1] = e
<1>1. rxf = <<>> => Due(r) = {}
  BY ShortFifo DEF Due
<1>2. Prefetch.t = "prefetch"
  BY DEF Prefetch
<1>3. ASSUME rxf = <<Prefetch>> PROVE Due(r) = {}
  BY <1>2, <1>3, ShortFifo DEF Due
<1>4. ASSUME rxf = <<e>>
      PROVE  Due(r) = (IF e.t = "write" /\ e.reg = r THEN {1} ELSE {}) /\ rxf[1] = e
  BY <1>4, ShortFifo DEF Due
<1>5. ASSUME rxf = <<e, Prefetch>>
      PROVE  Due(r) = (IF e.t = "write" /\ e.reg = r THEN {1} ELSE {}) /\ rxf[1] = e
  <2>1. Len(rxf) = 2 /\ rxf[1] = e /\ rxf[2].t = "prefetch"
    BY <1>2, <1>5, ShortFifo
  <2>2. QED
    BY <2>1 DEF Due
<1>6. QED
  BY <1>1, <1>3, <1>4, <1>5

(* Only the ISR and core1_main's seeding touch the cells, and only the end of a cycle
   what the 8088 knows. *)
LEMMA DueSame ==
  ASSUME UNCHANGED rxf, NEW r
  PROVE  Due(r)' = Due(r)
BY DEF Due

LEMMA CleanStep ==
  ASSUME Port!PortTypeOK, PadsFollow, Core1Inv, FollowsCycle, Resetting, InPort, CleanCycle,
         [BoardNext]_boardVars
  PROVE  CleanCycle'
<1>0. init = "done" => pio.on /\ Balanced
  BY DEF InPort, Resetting
<1> USE DEF CleanCycle
<1>1. CASE Port!Host
  BY <1>0, <1>1, CycleAfter
<1>2. CASE Port!EndCycle
  <2>1. ~cycle'.clean
    BY <1>2, PortFields DEF Port!EndCycle
  <2>2. QED
    BY <2>1
<1>3. CASE Port!PortMachine
  <2>1. UNCHANGED <<cycle, init, cells>>
    BY <1>3, MachineFrame
  <2>2. SUFFICES ASSUME cycle.clean
                 PROVE  CleanCycle'
    BY <2>1
  <2>3. CASE Port!PushPrefetch \/ Port!PullAnswer
    BY <1>3, <2>1, <2>3, MachineFrame, PioAfter, PortFields
  <2>4. CASE Port!PushCommit
    BY <1>3, <2>2, <2>4, MachineFrame, PortFields
  <2>5. CASE Port!PushWrite
    <3>1. pio.pc = "T3_WRITE" /\ pio'.pc = "T0" /\ cycle.kind = "write" /\ cycle.reg = pio.reg
      BY <1>3, <2>5, MachineFrame, PioAfter DEF FollowsCycle
    <3>2. rxf = <<>>
      BY <1>0, <2>2, <3>1 DEF Balanced, Fresh, Asked, Answered, Taken, Reported, AskedNext
    <3>3. DEFINE w == [t |-> "write", reg |-> pio.reg, byte |-> cycle.byte]
    <3>4. rxf' = <<w>>
      BY <2>5, <3>2, ShortFifo DEF Port!PushWrite, Port!Push
    <3>5. rxf'[1] = w /\ Len(rxf') = 1
      BY <3>4, ShortFifo
    <3>6. \A j \in Due(cycle.reg)' : rxf'[j].byte = cycle.byte
      BY <2>1, <3>5 DEF Due
    <3>7. Due(cycle.reg)' # {}
      BY <2>1, <3>1, <3>5 DEF Due
    <3>8. QED
      BY <2>1, <2>2, <3>1, <3>6, <3>7
  <2>6. QED
    BY <1>3, <2>3, <2>4, <2>5, MachineFrame
<1>4. CASE Port!Isr
  <2>1. UNCHANGED <<cycle, pio, init>>
    BY <1>4, IsrAfter
  <2>2. SUFFICES ASSUME cycle.clean, cycle.kind = "write", pio.pc = "T0", cycle.reg \in Valid
                 PROVE  /\ \A j \in Due(cycle.reg)' : rxf'[j].byte = cycle.byte
                        /\ Due(cycle.reg)' = {} => cells'[cycle.reg] = cycle.byte
    BY <2>1
  <2>3. PICK e \in Ends : Reported /\ rxf = <<e>> /\ Head(rxf) = e /\ Fresh'
    BY <1>0, <1>4, <2>2, IsrShapes DEF Asked, AskedNext
  <2>4. Due(cycle.reg)' = {}
    <3>1. rxf' = <<>>
      BY <2>3 DEF Fresh
    <3>2. QED
      BY <3>1, ShortFifo DEF Due
  <2>5. /\ Due(cycle.reg) = IF e.t = "write" /\ e.reg = cycle.reg THEN {1} ELSE {}
        /\ rxf[1] = e
    BY <2>3, DueShort
  <2>6. cells'[cycle.reg] = cycle.byte
    BY <1>4, <2>2, <2>3, <2>5, IsrAfter, EndsTyped, RegsAssumption DEF Port!PortTypeOK
  <2>7. QED
    BY <2>4, <2>6
<1>5. CASE Boot \/ RestartPort \/ ListenAgain
  <2>1. Prepares /\ cycle' = cycle
    BY <1>5, PortStepFrame, PreparesFrame DEF Prepares
  <2>2. ~Port!QuiescePort
    BY <1>5, PortStepFrame, PreparesFrame, <2>1 DEF Core1Inv, Booting, Quieted, Owned
  <2>3. init # "done"
    BY <2>1, <2>2, PreparesFrame
  <2>4. QED
    BY <2>1, <2>3
<1>6. CASE QuietPort
  <2>1. hlda /\ cycle' = cycle
    BY <1>6, PortStepFrame, PreparesFrame DEF PadsFollow, Owned, Prepares
  <2>2. QED
    BY <2>1, PortFields DEF FollowsCycle
<1>7. CASE BusStep
  <2>1. UNCHANGED <<cycle, pio, init, rxf, cells>>
    BY <1>7, BusStepFrame
  <2>2. QED
    BY <2>1 DEF Due
<1>8. CASE HostCycle \/ CycleEnds \/ PortServes \/ IsrServes
  BY <1>1, <1>2, <1>3, <1>4, <1>8, PortStepFrame
<1>9. QED
  BY <1>5, <1>6, <1>7, <1>8, BoardSteps

LEMMA CellsKnownStep ==
  ASSUME Port!PortTypeOK, PadsFollow, Core1Inv, FollowsCycle, Resetting, InPort, CleanCycle,
         CellsKnown, [BoardNext]_boardVars
  PROVE  CellsKnown'
<1>0. init = "done" => pio.on /\ Balanced /\ ~Booting
  BY DEF InPort, Resetting, Core1Inv, Booting
<1>1. CASE Port!Host
  <2>1. UNCHANGED <<init, irq, rxf, cells, known>>
    BY <1>1, CycleAfter
  <2>2. \A r \in Valid : Now(r) = {}
    BY <1>1, CycleAfter, PortFields DEF Now
  <2>3. QED
    BY <2>1, <2>2, DueSame DEF CellsKnown, Booting
<1>2. CASE Port!EndCycle
  <2>1. UNCHANGED <<init, irq, rxf, cells, pio>> /\ ~pio.xack /\ (pio.on => pio.pc \in {"T0", "T3_READ"})
    BY <1>2 DEF Port!EndCycle
  <2>2. \A r \in Valid : Now(r)' = {}
    BY <1>2, PortFields DEF Port!EndCycle, Now
  <2>3. \A r \in Valid : cycle.kind # "write" \/ cycle.reg # r => Now(r) = {} /\ known'[r] = known[r]
    BY <1>2 DEF Port!EndCycle, Now, Port!PortTypeOK
  <2>4. ASSUME NEW r \in Valid, cycle.kind = "write", cycle.reg = r
        PROVE  /\ Now(r) = {cycle.byte}
               /\ known'[r] = {cycle.byte} \cup (IF cycle.clean THEN {} ELSE known[r])
    BY <1>2, <2>4 DEF Port!EndCycle, Now, Port!PortTypeOK
  <2>5. ASSUME NEW r \in Valid, cycle.kind = "write", cycle.reg = r, cycle.clean
        PROVE  /\ init = "done" /\ ~Booting /\ \A j \in Due(r) : rxf[j].byte = cycle.byte
               /\ Due(r) = {} => cells[r] = cycle.byte
    BY <1>0, <2>1, <2>5 DEF CleanCycle
  <2>6. \A r \in Valid : Due(r)' = Due(r)
    BY <2>1, DueSame
  <2>7. Booting' = Booting
    BY <2>1 DEF Booting
  <2>8. ASSUME NEW r \in Valid, ~(cycle.kind = "write" /\ cycle.reg = r /\ cycle.clean)
        PROVE  known'[r] = known[r] \cup Now(r)
    BY <2>3, <2>4, <2>8
  <2>9. ASSUME NEW r \in Valid
        PROVE  /\ init \in {"setup", "enable", "seed"} => Zero \in known'[r]
               /\ \A j \in Due(r) : rxf[j].byte \in known'[r]
               /\ init \notin {"setup", "enable", "seed"} =>
                    (Due(r) = {} \/ Booting => cells[r] \in known'[r])
    <3>1. CASE cycle.kind = "write" /\ cycle.reg = r /\ cycle.clean
      BY <2>4, <2>5, <3>1
    <3>2. CASE ~(cycle.kind = "write" /\ cycle.reg = r /\ cycle.clean)
      BY <2>8, <3>2 DEF CellsKnown
    <3>3. QED
      BY <3>1, <3>2
  <2>10. QED
    BY <2>1, <2>2, <2>6, <2>7, <2>9 DEF CellsKnown
<1>3. CASE Port!PortMachine
  <2>1. UNCHANGED <<cycle, init, irq, cells, known>>
    BY <1>3, MachineFrame
  <2>2. \A r \in Valid : Now(r)' = Now(r)
    BY <2>1 DEF Now
  <2>3. CASE rxf' = rxf
    BY <2>1, <2>2, <2>3, DueSame DEF CellsKnown, Booting
  <2>4. CASE \E w \in Port!PortWord : /\ rxf' = Append(rxf, w)
                                      /\ w.t = "write" => w.byte = cycle.byte /\ w.reg = cycle.reg
                                                          /\ cycle.kind = "write"
    <3>1. PICK w \in Port!PortWord : /\ rxf' = Append(rxf, w)
                                     /\ w.t = "write" => w.byte = cycle.byte /\ w.reg = cycle.reg
                                                         /\ cycle.kind = "write"
      BY <2>4
    <3>2. ASSUME NEW r \in Valid
          PROVE  /\ Due(r) \subseteq Due(r)'
                 /\ \A j \in Due(r)' : (j \in Due(r) /\ rxf'[j] = rxf[j]) \/ rxf'[j].byte \in Now(r)
      <4>1. /\ Due(r)' = Due(r) \cup IF w.t = "write" /\ w.reg = r THEN {Len(rxf) + 1} ELSE {}
            /\ \A j \in Due(r) : rxf'[j] = rxf[j]
            /\ rxf'[Len(rxf) + 1] = w
        BY <3>1, DueAppend
      <4>2. w.t = "write" /\ w.reg = r => w.byte \in Now(r)
        BY <3>1 DEF Now
      <4>3. QED
        BY <4>1, <4>2
    <3>3. QED
      BY <2>1, <2>2, <3>2 DEF CellsKnown, Booting
  <2>5. QED
    <3>1. Port!PushPrefetch => Prefetch \in Port!PortWord /\ rxf' = Append(rxf, Prefetch) /\ Prefetch.t # "write"
      BY <1>3, MachineFrame, PortFields DEF Port!PushPrefetch, Port!Push, Prefetch, Port!PortWord, FollowsCycle
    <3>2. DEFINE c == [t |-> "commit", reg |-> pio.reg, byte |-> None]
                 w == [t |-> "write", reg |-> pio.reg, byte |-> cycle.byte]
    <3>3. Port!PushCommit => c \in Port!PortWord /\ rxf' = Append(rxf, c) /\ c.t # "write"
      BY <1>3, MachineFrame DEF Port!PushCommit, Port!Push, Port!PortWord, FollowsCycle
    <3>4. Port!PushWrite => /\ w \in Port!PortWord /\ rxf' = Append(rxf, w)
                            /\ w.byte = cycle.byte /\ w.reg = cycle.reg /\ cycle.kind = "write"
      BY <1>3, MachineFrame, PortFields DEF Port!PushWrite, Port!Push, Port!PortWord, FollowsCycle
    <3>5. QED
      BY <1>3, <2>3, <2>4, <3>1, <3>3, <3>4, MachineFrame
<1>4. CASE Port!Isr
  <2>1. UNCHANGED <<cycle, init, irq, known>> /\ irq /\ rxf # <<>>
    BY <1>4, IsrAfter
  <2>2. \A r \in Valid : Now(r)' = Now(r)
    BY <2>1 DEF Now
  <2>3. Booting' = Booting
    BY <2>1 DEF Booting
  <2>4. ~(~Booting /\ init # "done")
    BY <2>1 DEF Core1Inv, Resetting, FollowsCycle, InPort, PadsFollow, Quieted
  <2>5. init \in {"seed", "mask", "done"} /\ pio.on /\ Balanced
    BY <2>1, <2>4 DEF Core1Inv, Resetting, InPort, Lost
  <2>6. CASE Asked /\ cells' = cells /\ Answered'
    <3>1. \A r \in Valid : Due(r) = {} /\ Due(r)' = {}
      <4>1. rxf = <<Prefetch>> /\ rxf' = <<>>
        BY <2>6 DEF Asked, Answered
      <4>2. Len(rxf') = 0
        BY <4>1, ShortFifo
      <4>3. QED
        BY <4>1, <4>2, DueShort DEF Due
    <3>2. QED
      BY <2>1, <2>2, <2>3, <2>6, <3>1 DEF CellsKnown
  <2>7. CASE \E e \in Ends : /\ rxf = <<e>> \/ rxf = <<e, Prefetch>>
                             /\ Head(rxf) = e /\ (Fresh' \/ Asked')
    <3>1. PICK e \in Ends : /\ rxf = <<e>> \/ rxf = <<e, Prefetch>>
                            /\ Head(rxf) = e /\ (Fresh' \/ Asked')
      BY <2>7
    <3>2. \A r \in Valid : Due(r)' = {}
      <4>1. rxf' = <<>> \/ rxf' = <<Prefetch'>>
        BY <3>1 DEF Fresh, Asked
      <4>2. Len(rxf') = 0 \/ (Len(rxf') = 1 /\ rxf'[1].t = "prefetch")
        BY <4>1, ShortFifo DEF Prefetch
      <4>3. QED
        BY <4>2 DEF Due
    <3>3. ASSUME NEW r \in Valid, init \notin {"setup", "enable", "seed"}
          PROVE  cells'[r] \in known[r] \cup Now(r)
      <4>1. Due(r) = (IF e.t = "write" /\ e.reg = r THEN {1} ELSE {}) /\ rxf[1] = e
        BY <3>1, DueShort
      <4>2. cells'[r] = IF e.t = "write" /\ e.reg = r THEN e.byte ELSE cells[r]
        BY <1>4, <3>1, IsrAfter, EndsTyped, RegsAssumption DEF Port!PortTypeOK
      <4>3. QED
        BY <3>3, <4>1, <4>2 DEF CellsKnown
    <3>4. QED
      BY <2>1, <2>2, <2>3, <3>2, <3>3 DEF CellsKnown
  <2>8. QED
    BY <1>4, <2>5, <2>6, <2>7, IsrShapes
<1>5. CASE Prepares
  <2>1. UNCHANGED <<cycle, known>> /\ ~Port!IsrDue
    BY <1>5, PreparesFrame
  <2>2. \A r \in Valid : Now(r)' = Now(r)
    BY <2>1 DEF Now
  <2>3. ASSUME rxf' = <<>>, NEW r \in Valid PROVE Due(r)' = {}
    <3>1. Len(rxf') = 0
      BY <2>3, ShortFifo
    <3>2. QED
      BY <3>1 DEF Due
  <2>4. CASE Port!SetupClears
    BY <1>5, <2>1, <2>2, <2>3, <2>4, PreparesFrame DEF CellsKnown
  <2>5. CASE Port!SetupEnables
    BY <1>5, <2>1, <2>2, <2>5, PreparesFrame, DueSame DEF CellsKnown
  <2>6. CASE Port!SeedCells
    BY <1>5, <2>1, <2>2, <2>6, PreparesFrame, DueSame, RegsAssumption DEF CellsKnown
  <2>7. CASE Port!MaskIrq \/ Port!UnmaskIrq
    BY <1>5, <2>1, <2>2, <2>7, PreparesFrame, DueSame DEF CellsKnown, Booting
  <2>8. CASE Port!ResetStops \/ Port!ResetReleases \/ Port!ResetJumps \/ Port!ResetStarts
    BY <1>5, <2>1, <2>2, <2>8, PreparesFrame, DueSame DEF CellsKnown, Booting
  <2>9. CASE Port!ResetForgets
    BY <1>5, <2>1, <2>2, <2>9, PreparesFrame, DueSame DEF CellsKnown, Booting
  <2>10. CASE Port!ResetClears \/ Port!QuiescePort
    <3>1. /\ rxf' = <<>> /\ init \in {"clear", "done"} /\ init' \in {"release", "off"}
          /\ UNCHANGED <<cells, irq>>
      BY <1>5, <2>10, PreparesFrame
    <3>2. Booting \/ rxf = <<>>
      BY <1>5, <2>1, <2>10, PreparesFrame DEF Resetting, Core1Inv, Booting, Port!IsrDue
    <3>3. \A r \in Valid : Booting \/ Due(r) = {}
      BY <3>2, ShortFifo DEF Due
    <3>4. QED
      BY <2>1, <2>2, <2>3, <3>1, <3>3 DEF CellsKnown, Booting
  <2>11. QED
    BY <1>5, <2>4, <2>5, <2>6, <2>7, <2>8, <2>9, <2>10, PreparesFrame
<1>6. CASE BusStep
  <2>1. UNCHANGED <<cycle, init, irq, rxf, cells, known>>
    BY <1>6, BusStepFrame
  <2>2. \A r \in Valid : Now(r)' = Now(r) /\ Due(r)' = Due(r)
    BY <2>1, DueSame DEF Now
  <2>3. QED
    BY <2>1, <2>2 DEF CellsKnown, Booting
<1>7. QED
  BY <1>1, <1>2, <1>3, <1>4, <1>5, <1>6, PortSteps

-----------------------------------------------------------------------------
(* The port: types, and the invariant as a whole. *)

LEMMA EmptyFifo ==
  ASSUME NEW S
  PROVE  <<>> \in Seq(S) /\ Len(<<>>) <= Depth
<1>1. <<>> \in Seq(S) /\ Len(<<>>) = 0
  OBVIOUS
<1>2. QED
  BY <1>1, Lengths

LEMMA PortTypeStep ==
  ASSUME Port!PortTypeOK, PadsFollow, Core1Inv, FollowsCycle, Resetting, InPort, InPort',
         [BoardNext]_boardVars
  PROVE  Port!PortTypeOK'
<1> USE DEF Port!PortTypeOK
<1>1. CASE Port!Host
  <2>1. PICK k \in {"read", "write"}, r \in Regs, b \in Values \cup {None} :
          Port!StartCycle(k, r, b) /\ (k = "write" => b \in Values) /\ (k = "read" => b = None)
    BY <1>1 DEF Port!Host
  <2>2. cycle' \in [kind : {"read"}, reg : Regs, byte : {None}, clean : BOOLEAN]
                   \cup [kind : {"write"}, reg : Regs, byte : Values, clean : BOOLEAN]
    BY <2>1 DEF Port!StartCycle
  <2>3. QED
    BY <2>1, <2>2 DEF Port!StartCycle
<1>2. CASE Port!EndCycle
  <2>1. known' \in [Valid -> SUBSET Port!Bytes]
    <3>1. cycle.kind = "write" => cycle.byte \in Port!Bytes
      BY PortFields DEF Port!Bytes
    <3>2. QED
      BY <1>2, <3>1 DEF Port!EndCycle
  <2>2. QED
    BY <1>2, <2>1 DEF Port!EndCycle
<1>3. CASE Port!PortMachine
  <2>1. ASSUME NEW w \in Port!PortWord, Port!Push(w)
        PROVE  rxf' \in Seq(Port!PortWord) /\ Len(rxf') <= Depth
    BY <2>1, Lengths DEF Port!Push
  <2>2. CASE Port!PushPrefetch
    <3>1. Prefetch \in Port!PortWord
      BY <2>2, MachineFrame, <1>3, PortFields DEF FollowsCycle, Prefetch, Port!PortWord
    <3>2. rxf' \in Seq(Port!PortWord) /\ Len(rxf') <= Depth
      BY <2>1, <2>2, <3>1 DEF Port!PushPrefetch, Prefetch
    <3>3. QED
      BY <2>2, <3>2 DEF Port!PushPrefetch
  <2>3. CASE Port!PullAnswer
    <3>1. /\ Head(txf) \in Port!Bytes /\ Tail(txf) \in Seq(Port!Bytes)
          /\ Len(Tail(txf)) = Len(txf) - 1
      BY <2>3 DEF Port!PullAnswer
    <3>2. Len(Tail(txf)) <= Depth
      BY <3>1, Lengths
    <3>3. QED
      BY <2>3, <3>1, <3>2 DEF Port!PullAnswer
  <2>4. CASE Port!PushCommit
    <3>1. [t |-> "commit", reg |-> pio.reg, byte |-> None] \in Port!PortWord
      BY <2>4, MachineFrame, <1>3 DEF FollowsCycle, Port!PortWord
    <3>2. rxf' \in Seq(Port!PortWord) /\ Len(rxf') <= Depth
      BY <2>1, <2>4, <3>1 DEF Port!PushCommit
    <3>3. QED
      BY <2>4, <3>2 DEF Port!PushCommit
  <2>5. CASE Port!PushWrite
    <3>1. [t |-> "write", reg |-> pio.reg, byte |-> cycle.byte] \in Port!PortWord
      BY <2>5, MachineFrame, <1>3, PortFields DEF FollowsCycle, Port!PortWord
    <3>2. rxf' \in Seq(Port!PortWord) /\ Len(rxf') <= Depth
      BY <2>1, <2>5, <3>1 DEF Port!PushWrite
    <3>3. QED
      BY <2>5, <3>2 DEF Port!PushWrite
  <2>6. QED
    BY <1>3, <2>2, <2>3, <2>4, <2>5, MachineFrame
<1>4. CASE Port!Isr
  <2>1. /\ Head(rxf) \in Port!PortWord /\ rxf' \in Seq(Port!PortWord) /\ Len(rxf') = Len(rxf) - 1
        /\ Len(rxf) \in Nat
    <3>1. rxf # <<>> /\ rxf' = Tail(rxf) /\ rxf \in Seq(Port!PortWord)
      BY <1>4, IsrAfter
    <3>2. QED
      BY <3>1
  <2>2. /\ Head(rxf).reg \in Regs /\ Head(rxf).t \in {"prefetch", "commit", "write"}
        /\ Head(rxf).t = "write" => Head(rxf).byte \in Port!Bytes
    BY <2>1 DEF Port!PortWord, Port!Bytes
  <2>3. txf' \in Seq(Port!Bytes) /\ Len(txf') <= Depth
    <3>1. Port!Answer(Head(rxf).reg) \in Port!Bytes
      BY <2>2, AnswerTyped
    <3>2. PICK b \in Port!Bytes : txf' = txf \/ (Len(txf) < Depth /\ txf' = Append(txf, b))
      BY <1>4, <2>2, <3>1, IsrAfter
    <3>3. Len(txf) \in Nat /\ Append(txf, b) \in Seq(Port!Bytes) /\ Len(Append(txf, b)) = Len(txf) + 1
      OBVIOUS
    <3>4. CASE txf' = txf
      BY <3>4
    <3>5. CASE Len(txf) < Depth /\ txf' = Append(txf, b)
      <4>1. Len(txf) + 1 <= Depth
        BY <3>3, <3>5, Lengths
      <4>2. QED
        BY <3>3, <3>5, <4>1
    <3>6. QED
      BY <3>2, <3>4, <3>5
  <2>4. cells' \in [Regs -> Port!Bytes]
    BY <1>4, <2>2, IsrAfter
  <2>5. pending' \in 0 .. Depth
    <3>1. irq /\ rxf # <<>> /\ UNCHANGED <<init, irq>>
      BY <1>4, IsrAfter
    <3>2. ~(~Booting /\ init # "done")
      BY <3>1 DEF Core1Inv, Resetting, FollowsCycle, InPort, PadsFollow, Quieted
    <3>3. init' \in {"seed", "mask", "done"}
      BY <3>1, <3>2 DEF Core1Inv
    <3>4. Balanced' \/ Lost'
      BY <3>3 DEF InPort
    <3>5. pending' \in {0, 1}
      BY <3>4 DEF Balanced, Lost, Fresh, Asked, Answered, Taken, Reported, AskedNext
    <3>6. QED
      BY <3>5, Lengths
  <2>6. QED
    BY <1>4, <2>1, <2>3, <2>4, <2>5, IsrAfter, Lengths
<1>5. CASE Prepares
  <2>1. UNCHANGED <<cycle, known>>
    BY <1>5, PreparesFrame
  <2>2. /\ pio' \in [on : BOOLEAN, pc : {"T0", "T1", "T2", "T3_READ", "T3_WRITE"},
                     reg : Regs \cup {None}, out : Port!Bytes \cup {None}, xack : BOOLEAN]
    BY <1>5, PreparesFrame DEF Port!ResetStops, Port!ResetReleases, Port!ResetJumps,
       Port!ResetStarts, Port!QuiescePort, Port!ResetClears
  <2>3. rxf' \in Seq(Port!PortWord) /\ Len(rxf') <= Depth
    <3>1. rxf' = rxf \/ rxf' = <<>>
      BY <1>5, PreparesFrame
    <3>2. CASE rxf' = rxf
      BY <3>2
    <3>3. CASE rxf' = <<>>
      BY <3>3, EmptyFifo
    <3>4. QED
      BY <3>1, <3>2, <3>3
  <2>4. txf' \in Seq(Port!Bytes) /\ Len(txf') <= Depth
    <3>1. txf' = txf \/ txf' = <<>>
      BY <1>5, PreparesFrame
    <3>2. CASE txf' = txf
      BY <3>2
    <3>3. CASE txf' = <<>>
      BY <3>3, EmptyFifo
    <3>4. QED
      BY <3>1, <3>2, <3>3
  <2>5. cells' \in [Regs -> Port!Bytes]
    BY <1>5, PreparesFrame DEF Port!Bytes
  <2>6. pending' \in 0 .. Depth
    BY <1>5, PreparesFrame, Lengths
  <2>7. irq' \in BOOLEAN /\ init' \in {"setup", "enable", "seed", "mask", "off", "clear", "release",
                                        "jump", "on", "pending", "unmask", "done"}
    <3>1. irq' \in BOOLEAN
      BY <1>5 DEF Prepares, Port!SetUp, Port!SetupClears, Port!SetupEnables, Port!SeedCells,
         Port!MaskIrq, Port!UnmaskIrq, Port!RestartPort, Port!ResetStops, Port!ResetClears,
         Port!ResetReleases, Port!ResetJumps, Port!ResetStarts, Port!ResetForgets, Port!QuiescePort
    <3>2. QED
      BY <1>5, <3>1, PreparesFrame
  <2>8. QED
    BY <2>1, <2>2, <2>3, <2>4, <2>5, <2>6, <2>7
<1>6. CASE BusStep
  BY <1>6, BusStepFrame
<1>7. QED
  BY <1>1, <1>2, <1>3, <1>4, <1>5, <1>6, PortSteps

PortIInv ==
  /\ Port!PortTypeOK /\ PadsFollow
  /\ Core1Inv /\ FollowsCycle /\ Resetting /\ InPort
  /\ AnswerIsCell /\ CellsKnown /\ CleanCycle

LEMMA PortStep ==
  ASSUME PortIInv, [BoardNext]_boardVars
  PROVE  PortIInv'
<1> USE DEF PortIInv
<1>1. PadsFollow' /\ Core1Inv' /\ FollowsCycle' /\ Resetting' /\ InPort'
  BY BoardStepIsBusStep, PadsStep, Core1Step, FollowsStep, ResettingStep, InPortStep
<1>2. Port!PortTypeOK' /\ AnswerIsCell' /\ CellsKnown' /\ CleanCycle'
  BY <1>1, PortTypeStep, AnswerStep, CellsKnownStep, CleanStep
<1>3. QED
  BY <1>1, <1>2

LEMMA PortStart == BoardInit => PortIInv
<1> SUFFICES ASSUME BoardInit PROVE PortIInv
  OBVIOUS
<1>1. PadsFollow /\ pc = "idle" /\ ~hlda
  BY DEF BoardInit, Init, PadsFollow, Owned, Loop
<1>2. /\ cycle = Port!NoCycle /\ rxf = <<>> /\ txf = <<>> /\ cells = [r \in Regs |-> Ones]
      /\ pending = 0 /\ irq = FALSE /\ init = "setup" /\ known = [r \in Valid |-> {Zero}]
      /\ pio = [on |-> TRUE, pc |-> "T0", reg |-> None, out |-> None, xack |-> FALSE]
  BY DEF BoardInit, Port!PortInit
<1>3. pio.on /\ pio.pc = "T0" /\ pio.out = None
  BY <1>2
<1>4. Port!PortTypeOK
  <2>1. pio \in [on : BOOLEAN, pc : {"T0", "T1", "T2", "T3_READ", "T3_WRITE"},
                reg : Regs \cup {None}, out : Port!Bytes \cup {None}, xack : BOOLEAN]
    BY <1>2
  <2>2. rxf \in Seq(Port!PortWord) /\ Len(rxf) <= Depth /\ txf \in Seq(Port!Bytes) /\ Len(txf) <= Depth
    BY <1>2, EmptyFifo
  <2>3. cells \in [Regs -> Port!Bytes] /\ known \in [Valid -> SUBSET Port!Bytes]
    BY <1>2 DEF Port!Bytes
  <2>4. pending \in 0 .. Depth
    <3>1. pending = 0
      BY <1>2
    <3>2. QED
      BY <3>1, Lengths
  <2>5. irq \in BOOLEAN
    BY <1>2
  <2>6. QED
    BY <1>2, <2>1, <2>2, <2>3, <2>4, <2>5 DEF Port!PortTypeOK
<1>5. Core1Inv /\ FollowsCycle /\ Resetting
  BY <1>1, <1>2, <1>3 DEF Core1Inv, FollowsCycle, Resetting, Booting, Quieted, Owned, Loop
<1>6. InPort
  BY <1>2, <1>3 DEF InPort, Fresh, Booting
<1>7. AnswerIsCell /\ CleanCycle
  BY <1>2, PortFields, <1>4 DEF AnswerIsCell, CleanCycle
<1>8. CellsKnown
  BY <1>2, DueShort DEF CellsKnown
<1>9. QED
  BY <1>1, <1>4, <1>5, <1>6, <1>7, <1>8 DEF PortIInv

LEMMA PortInvariant == BoardSpec => []PortIInv
BY PortStart, PortStep, PTL DEF BoardSpec

-----------------------------------------------------------------------------
(* What the runs check. *)

(* No register access and no DMA transfer meet on the bus, and none of the words of
   the port is lost to a transfer (start_dma_control, reset_register_pio_sm). *)
THEOREM PortQuietUnderDmaAlways == BoardSpec => []PortQuietUnderDma
<1>1. ASSUME PortIInv PROVE PortQuietUnderDma
  <2> SUFFICES ASSUME strobes # "none"
               PROVE  /\ ~pio.on /\ ~pio.xack /\ pio.out = None
                      /\ rxf = <<>> /\ txf = <<>> /\ pending = 0
    BY DEF PortQuietUnderDma
  <2>1. pc \in Quieted \ {"listen"}
    BY <1>1 DEF PortIInv, PadsFollow, Quieted, Owned, Loop
  <2>2. init = "off" /\ ~Booting
    BY <1>1, <2>1 DEF PortIInv, Core1Inv, Quieted, Owned, Loop
  <2>3. QED
    BY <1>1, <2>2 DEF PortIInv, Resetting
<1>2. QED
  BY <1>1, PortInvariant, PTL

(* The words of either kind in a FIFO of at most two. *)
LEMMA WordsShort ==
  /\ rxf = <<>> => Port!Words({"prefetch"}) = 0 /\ Port!Words({"commit", "write"}) = 0
  /\ rxf = <<Prefetch>> => Port!Words({"prefetch"}) = 1 /\ Port!Words({"commit", "write"}) = 0
  /\ \A e \in Ends :
       /\ rxf = <<e>> => Port!Words({"prefetch"}) = 0 /\ Port!Words({"commit", "write"}) = 1
       /\ rxf = <<e, Prefetch>> =>
            Port!Words({"prefetch"}) = 1 /\ Port!Words({"commit", "write"}) = 1
<1> DEFINE In(ts) == {j \in 1 .. Len(rxf) : rxf[j].t \in ts}
<1>0. Cardinality({}) = 0 /\ Cardinality({1}) = 1 /\ Cardinality({2}) = 1 /\ Prefetch.t = "prefetch"
  BY FS_EmptySet, FS_Singleton DEF Prefetch
<1>1. ASSUME rxf = <<>> PROVE In({"prefetch"}) = {} /\ In({"commit", "write"}) = {}
  BY <1>1, ShortFifo
<1>2. ASSUME rxf = <<Prefetch>> PROVE In({"prefetch"}) = {1} /\ In({"commit", "write"}) = {}
  <2>1. Len(rxf) = 1 /\ rxf[1].t = "prefetch"
    BY <1>0, <1>2, ShortFifo
  <2>2. QED
    BY <2>1
<1>3. ASSUME NEW e \in Ends, rxf = <<e>>
      PROVE  In({"prefetch"}) = {} /\ In({"commit", "write"}) = {1}
  <2>1. Len(rxf) = 1 /\ rxf[1].t \in {"commit", "write"}
    BY <1>3, ShortFifo, EndsTyped
  <2>2. QED
    BY <2>1
<1>4. ASSUME NEW e \in Ends, rxf = <<e, Prefetch>>
      PROVE  In({"prefetch"}) = {2} /\ In({"commit", "write"}) = {1}
  <2>1. Len(rxf) = 2 /\ rxf[1].t \in {"commit", "write"} /\ rxf[2].t = "prefetch"
    BY <1>0, <1>4, ShortFifo, EndsTyped
  <2>2. QED
    BY <2>1
<1>5. \A ts : Port!Words(ts) = Cardinality(In(ts))
  BY DEF Port!Words, Port!Cardinality, Cardinality
<1> HIDE DEF In
<1>6. QED
  BY <1>0, <1>1, <1>2, <1>3, <1>4, <1>5

(* fifo_pending_prefetch never drifts, over any number of transfers. *)
THEOREM PrefetchBalanceAlways == BoardSpec => []PrefetchBalance
<1>1. ASSUME PortIInv PROVE PrefetchBalance
  <2> SUFFICES ASSUME init = "done"
               PROVE  pending + Port!Words({"prefetch"}) =
                        Port!Words({"commit", "write"}) + IF pio.pc \in {"T0", "T1"} THEN 0 ELSE 1
    BY DEF PrefetchBalance, Port!PrefetchBalance
  <2>1. Balanced
    BY <1>1 DEF PortIInv, InPort
  <2>2. CASE Fresh \/ Asked \/ Answered \/ Taken
    BY <2>2, WordsShort DEF Fresh, Asked, Answered, Taken
  <2>3. CASE Reported \/ AskedNext
    BY <2>3, WordsShort DEF Reported, AskedNext
  <2>4. QED
    BY <2>1, <2>2, <2>3 DEF Balanced
<1>2. QED
  BY <1>1, PortInvariant, PTL

(* A read is answered with the byte that was written last, whatever transfers and
   restarts of the port came between. *)
THEOREM ServesLastWriteAlways == BoardSpec => []ServesLastWrite
<1>1. ASSUME PortIInv PROVE ServesLastWrite
  <2> SUFFICES ASSUME cycle.clean, cycle.kind = "read", pio.pc = "T3_READ"
               PROVE  pio.out \in IF cycle.reg \in Valid THEN known[cycle.reg] ELSE {Ones}
    BY DEF ServesLastWrite, Port!ServesLastWrite
  <2> USE DEF PortIInv
  <2>1. init = "done" /\ pio.on /\ cycle # Port!NoCycle
    BY <1>1, PortFields DEF CleanCycle, Resetting
  <2>2. pio.out = Port!Answer(cycle.reg)
    BY <1>1, <2>1 DEF AnswerIsCell, FollowsCycle
  <2>3. \A r \in Valid : Due(r) = {} /\ Now(r) = {}
    <3>1. rxf = <<>>
      BY <1>1, <2>1 DEF InPort, Balanced, Fresh, Asked, Answered, Taken, Reported, AskedNext
    <3>2. QED
      BY <3>1, DueShort DEF Now
  <2>4. QED
    BY <1>1, <2>1, <2>2, <2>3 DEF CellsKnown, Port!Answer
<1>2. QED
  BY <1>1, PortInvariant, PTL

(* Types of the whole board. *)
THEOREM BoardTypeCorrect ==
  ASSUME HangOn \subseteq {"write"}
  PROVE  BoardSpec => []BoardTypeOK
<1>1. TypeOK /\ PadsFollow /\ DataInv => TypeOK
  OBVIOUS
<1>2. PortIInv => Port!PortTypeOK
  BY DEF PortIInv
<1>3. QED
  BY <1>1, <1>2, BoardIsBusMaster, TypeCorrect, PortInvariant, PTL DEF BoardTypeOK
=============================================================================
