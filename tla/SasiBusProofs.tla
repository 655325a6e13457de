---------------------------- MODULE SasiBusProofs ----------------------------
(***************************************************************************)
(* Proofs about the SASI bus model for every command length, block count,  *)
(* retry count, queue size and number of commands and resets: typing; that *)
(* an abort request is never left without a RESET that answers it; that no *)
(* edge of the interrupt is swallowed; for a host that lets the board      *)
(* settle, that a queued RESET stops the transfers; and, with a queue that *)
(* has room for a round, that host and worker stay in step, which yields   *)
(* what the host relies on: status, verdict, address, target and phases;   *)
(* and that host, ISR and worker together implement CommandPort.           *)
(***************************************************************************)
EXTENDS SasiInStep, SequenceTheorems, TLAPS

(* Sequences of stores, by length. *)
LEMMA TupleTyped ==
  ASSUME NEW S, NEW a \in S, NEW b \in S, NEW c \in S, NEW d \in S, NEW e \in S,
         NEW f \in S, NEW g \in S
  PROVE  /\ <<>> \in Seq(S)
         /\ <<a>> \in Seq(S)
         /\ <<a, b>> \in Seq(S)
         /\ <<a, b, c, d>> \in Seq(S)
         /\ <<a, b, c, d, e>> \in Seq(S)
         /\ <<a, b, c, d, e, f, g>> \in Seq(S)
OBVIOUS

(* The phases the worker drives are sets of bus signals. *)
LEMMA PhasesAreSignals ==
  ASSUME NEW b \in SUBSET Signals
  PROVE  /\ Busy(b) \in SUBSET Signals
         /\ DataIn(b) \in SUBSET Signals
         /\ DataOut(b) \in SUBSET Signals
         /\ ReqCommand(b) \in SUBSET Signals
         /\ ReqParam(b) \in SUBSET Signals
         /\ ReqStatus(b) \in SUBSET Signals
BY DEF Busy, DataIn, DataOut, ReqCommand, ReqParam, ReqStatus, Signals, StatusBits

(* Mirroring a phase is a store to the status cell. *)
LEMMA StatIsStore ==
  ASSUME NEW b
  PROVE  Stat(b) \in StoreSet
BY DEF Stat, StoreSet

(* So are the interrupt latch and the pin. *)
LEMMA IrqIsStore ==
  ASSUME NEW b \in BOOLEAN
  PROVE  Irq(b) \in StoreSet /\ Line(b) \in StoreSet
BY DEF Irq, Line, StoreSet

(* Changing the interrupt is one store. *)
LEMMA IrqStoresTyped ==
  /\ <<>> \in Seq(StoreSet)
  /\ <<Irq(TRUE)>> \in Seq(StoreSet)
  /\ <<Irq(FALSE)>> \in Seq(StoreSet)
<1>1. Irq(TRUE) \in StoreSet /\ Irq(FALSE) \in StoreSet
  BY IrqIsStore
<1>2. QED
  BY <1>1, TupleTyped, Zenon

(* The status phase is raised by four stores. *)
LEMMA StatusStoresTyped ==
  ASSUME NEW b, NEW x \in StatusByte
  PROVE  StatusStores(b, x) \in Seq(StoreSet)
<1>1. /\ <<"status", x>> \in StoreSet
      /\ <<"data", x>> \in StoreSet
  BY DEF StoreSet
<1>2. Stat(ReqStatus(b)) \in StoreSet
  BY StatIsStore
<1>3. Irq(TRUE) \in StoreSet
  BY IrqIsStore
<1>4. QED
  BY <1>1, <1>2, <1>3, TupleTyped, Zenon DEF StatusStores

(* The address is written back and mirrored by seven steps. *)
LEMMA WriteBackTyped ==
  ASSUME NEW a \in Address
  PROVE  WriteBack(a) \in Seq(StoreSet)
<1>1. <<"addr", a>> \in StoreSet
  BY DEF StoreSet
<1>2. ASSUME NEW l \in {"L", "M", "H"}
      PROVE  <<"load", l>> \in StoreSet /\ <<"sync", l>> \in StoreSet
  BY DEF StoreSet, Lane
<1>3. QED
  BY <1>1, <1>2, TupleTyped, Zenon DEF WriteBack

(* A reset is answered by five stores. *)
LEMMA ResetStoresTyped == ResetStores \in Seq(StoreSet)
<1>1. Zero \in StatusByte
  BY SizesAssumption DEF Zero, StatusByte, NoCommand
<1>2. /\ <<"status", Zero>> \in StoreSet
      /\ <<"data", Zero>> \in StoreSet
      /\ <<"unreset", 0>> \in StoreSet
  BY <1>1 DEF StoreSet
<1>3. Irq(FALSE) \in StoreSet /\ Stat(BusFree) \in StoreSet
  BY IrqIsStore, StatIsStore
<1>4. QED
  BY <1>2, <1>3, TupleTyped, Zenon DEF ResetStores

(* Addresses: what a command programs and how it advances. *)
LEMMA AddressesTyped ==
  /\ \A k \in 0 .. MaxCommands, n \in Nat : Programmed(k, n) \in Address
  /\ \A a \in Address : Advance(a) \in Address
<1>1. ASSUME NEW k \in 0 .. MaxCommands, NEW n \in Nat
      PROVE  Programmed(k, n) \in Address
  BY DEF Programmed, Address, AddrByte
<1>2. ASSUME NEW a \in Address
      PROVE  Advance(a) \in Address
  <2>1. ASSUME NEW l \in Lane
        PROVE  [a[l] EXCEPT !.off = @ + 1] \in AddrByte
    BY DEF Address, AddrByte
  <2>2. QED
    BY <2>1 DEF Advance, Address
<1>3. QED
  BY <1>1, <1>2

(* The power-on state is typed. *)
LEMMA InitTypeOK == Init => TypeOK
<1> SUFFICES ASSUME Init PROVE TypeOK
  OBVIOUS
<1>1. Programmed(0, 0) \in Address
  BY AddressesTyped, SizesAssumption
<1>2. Zero \in StatusByte
  BY SizesAssumption DEF Zero, StatusByte, NoCommand
<1>3. [prog |-> 0, off |-> 0] \in AddrByte
  BY SizesAssumption DEF AddrByte
<1>4. SharedType
  <2>1. cache \in [stat : SUBSET StatusBits, data : StatusByte, sel : BOOLEAN, addr : Address]
    BY <1>1, <1>2 DEF Init, BusFree
  <2>2. queue \in Seq(QueueEntry) /\ Len(queue) < QueueSize
    BY SizesAssumption DEF Init
  <2>3. QED
    BY <1>1, <1>2, <2>1, <2>2 DEF Init, SharedType
<1>5. WorkerType
  <2>1. dma \in DmaType
    BY SizesAssumption DEF Init, DmaType, Byte
  <2>2. w \in LocalsType
    BY <1>1, <1>3, SizesAssumption DEF Init, LocalsType, NoCommand
  <2>3. QED
    BY <2>1, <2>2 DEF Init, WorkerType, WorkerPoints
<1>6. HostType
  BY SizesAssumption DEF Init, HostType, HostPoints, LatchOK
<1>7. QED
  BY <1>4, <1>5, <1>6 DEF TypeOK

-----------------------------------------------------------------------------
(* The queue accepts an entry or counts a refusal: either way it stays bounded. *)
LEMMA EnqueueTyped ==
  ASSUME SharedType, NEW e \in QueueEntry, Enqueue(e)
  PROVE  queue' \in Seq(QueueEntry) /\ Len(queue') < QueueSize /\ drops' \in BOOLEAN
<1> USE DEF SharedType
<1>1. CASE Len(queue) < QueueSize - 1
  <2>1. queue' = Append(queue, e) /\ drops' = drops
    BY <1>1 DEF Enqueue
  <2>2. QED
    BY <1>1, <2>1, SizesAssumption
<1>2. CASE ~(Len(queue) < QueueSize - 1)
  BY <1>2 DEF Enqueue
<1>3. QED
  BY <1>1, <1>2

(* The byte a read of DATA is answered with is a status byte. *)
LEMMA ServeDataTyped ==
  ASSUME SharedType
  PROVE  ServeData \in StatusByte
<1>1. Zero \in StatusByte
  BY SizesAssumption DEF Zero, StatusByte, NoCommand
<1>2. QED
  BY <1>1 DEF ServeData, SharedType

(* Every bus cycle leaves the shared cells typed: the prefetch of DATA, ... *)
LEMMA IsrFetchDataTyped ==
  ASSUME SharedType, IsrFetchData
  PROVE  SharedType' /\ \E x \in StatusByte : latch' = <<x>>
BY ServeDataTyped DEF IsrFetchData, SharedType, sharedVars

(* ... the commit of a DATA read, ... *)
LEMMA IsrCommitDataTyped ==
  ASSUME SharedType, IsrCommitData
  PROVE  SharedType'
<1>1. Zero \in StatusByte
  BY SizesAssumption DEF Zero, StatusByte, NoCommand
<1>2. <<"read", 0>> \in QueueEntry
  BY DEF QueueEntry
<1>3. AfterDataRead \in [stat : SUBSET StatusBits, data : StatusByte, sel : BOOLEAN,
                         addr : Address]
  BY <1>1 DEF SharedType, AfterDataRead, BusFree, StatusBits
<1>4. QED
  BY <1>2, <1>3, EnqueueTyped DEF IsrCommitData, SharedType, sharedVars

(* ... the commit of a STATUS read, ... *)
LEMMA IsrCommitStatusTyped ==
  ASSUME SharedType, IsrCommitStatus
  PROVE  SharedType'
BY DEF IsrCommitStatus, SharedType, cacheVars

(* ... a write of CONTROL, ... *)
LEMMA IsrWriteControlTyped ==
  ASSUME SharedType, NEW c \in SUBSET ControlBits, IsrWriteControl(c)
  PROVE  SharedType'
<1>1. Zero \in StatusByte
  BY SizesAssumption DEF Zero, StatusByte, NoCommand
<1>2. <<"control", c>> \in QueueEntry
  BY DEF QueueEntry
<1>3. ("SEL" \in c) \in BOOLEAN
  OBVIOUS
<1>4. Predicted(c) \in [stat : SUBSET StatusBits, data : StatusByte, sel : BOOLEAN,
                       addr : Address]
  BY <1>1, <1>3 DEF SharedType, Predicted, BusFree, Selection, CommandPhase, StatusBits
<1>5. Flagged(c) \in BOOLEAN
  BY DEF Flagged
<1>6. QED
  BY <1>2, <1>4, <1>5, EnqueueTyped DEF IsrWriteControl, SharedType

(* ... a write of DATA, ... *)
LEMMA IsrWriteDataTyped ==
  ASSUME SharedType, NEW b \in Byte, IsrWriteData(b)
  PROVE  SharedType'
<1>1. <<"data", b>> \in QueueEntry
  BY DEF QueueEntry
<1>2. QED
  BY <1>1, EnqueueTyped DEF IsrWriteData, SharedType, sharedVars

(* ... a write of an address byte. *)
LEMMA IsrWriteAddrTyped ==
  ASSUME SharedType, NEW l \in Lane, NEW b \in AddrByte, IsrWriteAddr(l, b)
  PROVE  SharedType'
<1>1. addr' \in Address
  BY DEF IsrWriteAddr, SharedType, Address
<1>2. cache' \in [stat : SUBSET StatusBits, data : StatusByte, sel : BOOLEAN, addr : Address]
  BY DEF IsrWriteAddr, SharedType, Address
<1>3. QED
  BY <1>1, <1>2 DEF IsrWriteAddr, SharedType

-----------------------------------------------------------------------------
(* Every step of the host's driver, with the bus cycle it performs, is typed. *)
LEMMA HostTyped ==
  ASSUME TypeOK, HostProgress \/ HostTimeout
  PROVE  TypeOK'
<1> USE DEF TypeOK
<1>0. Current \in 0 .. MaxCommands /\ (hp # "start" => Current \in CommandId /\ Mine \in Command)
  BY SizesAssumption DEF HostType, Current, Mine, CommandId
<1>1. ASSUME NEW c \in Command, HostBegin(c)
      PROVE  TypeOK'
  <2>1. ({"LATCH"} \cup (IF c.dma THEN {"ON"} ELSE {})) \in SUBSET ControlBits
    BY DEF ControlBits
  <2>2. SharedType'
    BY <1>1, <2>1, IsrWriteControlTyped DEF HostBegin
  <2>3. issued' \in Seq(Command) /\ Len(issued') <= MaxCommands /\ issued' # <<>>
    BY <1>1, SizesAssumption DEF HostBegin, HostType, Current
  <2>4. HostType'
    BY <1>1, <2>3 DEF HostBegin, HostType, HostPoints, LatchOK, Polls, Expected
  <2>5. WorkerType'
    BY <1>1 DEF HostBegin, workerVars, WorkerType
  <2>6. QED
    BY <2>2, <2>4, <2>5
<1>2. CASE HostAddress
  <2>1. step \in 1 .. 3 /\ Current \in 0 .. MaxCommands
    BY <1>0, <1>2 DEF HostAddress, HostType
  <2>2. LaneAt[step] \in Lane /\ [prog |-> Current, off |-> 0] \in AddrByte
    BY <2>1 DEF LaneAt, Lane, AddrByte
  <2>3. SharedType'
    BY <1>2, <2>2, IsrWriteAddrTyped DEF HostAddress
  <2>4. HostType'
    BY <1>2, <2>1 DEF HostAddress, HostType, HostPoints, LatchOK, Polls, Expected
  <2>5. WorkerType'
    BY <1>2 DEF HostAddress, workerVars, WorkerType
  <2>6. QED
    BY <2>3, <2>4, <2>5
<1>3. CASE HostPoll
  <2>1. LatchOK'
    BY <1>3 DEF HostPoll, SharedType, LatchOK
  <2>2. QED
    BY <1>3, <2>1 DEF HostPoll, HostType, SharedType, WorkerType, cacheVars, sharedVars,
       workerVars
<1>4. CASE HostPolled \/ HostTimeout
  <2>1. SharedType'
    BY <1>4, IsrCommitStatusTyped DEF HostPolled, HostTimeout
  <2>2. /\ hp' \in HostPoints /\ hp' # "addr" /\ hp # "start" /\ latch' = <<>>
        /\ hp' = "reset" => resets < MaxResets
    BY <1>4 DEF HostPolled, HostTimeout, HostPoints, Polls, Expected, AfterPoll
  <2>3. QED
    BY <1>4, <2>1, <2>2 DEF HostPolled, HostTimeout, HostType, LatchOK, WorkerType, workerVars
<1>5. CASE HostTarget
  <2>1. <<"target", Mine.target>> \in Byte
    BY <1>0, <1>5 DEF HostTarget, Command, Byte
  <2>2. SharedType'
    BY <1>5, <2>1, IsrWriteDataTyped DEF HostTarget
  <2>3. QED
    BY <1>5, <2>2 DEF HostTarget, HostType, HostPoints, LatchOK, Polls, Expected, WorkerType,
       workerVars
<1>6. CASE HostSelect \/ HostDeselect
  <2>1. BaseControl \in SUBSET ControlBits /\ BaseControl \cup {"SEL"} \in SUBSET ControlBits
    BY DEF BaseControl, ControlBits
  <2>2. SharedType'
    BY <1>6, <2>1, IsrWriteControlTyped DEF HostSelect, HostDeselect
  <2>3. hp' \in HostPoints /\ hp' # "addr" /\ hp # "start" /\ latch = <<>>
    BY <1>6 DEF HostSelect, HostDeselect, HostPoints, Polls, Expected, HostType, LatchOK
  <2>4. QED
    BY <1>6, <2>2, <2>3 DEF HostSelect, HostDeselect, HostType, LatchOK, WorkerType, workerVars
<1>7. CASE HostCommandByte \/ HostParamByte
  <2>1. hp # "start" /\ latch = <<>>
    BY <1>7 DEF HostCommandByte, HostParamByte, HostType, LatchOK, Polls, Expected
  <2>2. /\ (IF step = 1 THEN <<"cdb", Current>> ELSE <<"fill", 0>>) \in Byte
        /\ <<"fill", 0>> \in Byte
    BY <1>0, <2>1 DEF Byte
  <2>3. SharedType'
    BY <1>7, <2>2, IsrWriteDataTyped DEF HostCommandByte, HostParamByte
  <2>4. /\ hp' \in HostPoints /\ hp' # "addr" /\ hp' # "reset" /\ step' \in Nat \ {0}
        /\ latch' = <<>> /\ issued' = issued /\ resets' = resets
    BY <1>7, <2>1 DEF HostCommandByte, HostParamByte, HostPoints, Polls, Expected, HostType
  <2>5. HostType'
    BY <2>1, <2>4 DEF HostType, LatchOK
  <2>6. WorkerType'
    BY <1>7 DEF HostCommandByte, HostParamByte, WorkerType, workerVars
  <2>7. QED
    BY <2>3, <2>5, <2>6
<1>8. CASE HostReadData
  <2>1. SharedType' /\ \E x \in StatusByte : latch' = <<x>>
    BY <1>8, IsrFetchDataTyped DEF HostReadData
  <2>2. QED
    BY <1>8, <2>1 DEF HostReadData, HostType, LatchOK, WorkerType, workerVars
<1>9. CASE HostAccept
  <2>1. SharedType'
    BY <1>9, IsrCommitDataTyped DEF HostAccept
  <2>2. hp' \in {"start", "msg", "reset"} /\ hp # "start"
    BY <1>9 DEF HostAccept
  <2>3. QED
    BY <1>9, <2>1, <2>2 DEF HostAccept, HostType, HostPoints, Polls, Expected, LatchOK, WorkerType, workerVars
<1>10. CASE HostReset \/ HostUnreset
  <2>1. {"RESET"} \in SUBSET ControlBits /\ {} \in SUBSET ControlBits
    BY DEF ControlBits
  <2>2. SharedType'
    BY <1>10, <2>1, IsrWriteControlTyped DEF HostReset, HostUnreset
  <2>3. resets' \in 0 .. MaxResets
    BY <1>10, SizesAssumption DEF HostReset, HostUnreset, HostType
  <2>4. hp' \in {"unreset", "settle"} /\ hp # "start" /\ latch = <<>>
    BY <1>10 DEF HostReset, HostUnreset, HostType, LatchOK, Polls, Expected
  <2>5. QED
    BY <1>10, <2>2, <2>3, <2>4 DEF HostReset, HostUnreset, HostType, HostPoints, Polls, Expected, LatchOK,
       WorkerType, workerVars
<1>11. CASE HostSettled
  BY <1>11 DEF HostSettled, HostType, HostPoints, Polls, Expected, LatchOK, SharedType,
     WorkerType, workerVars, sharedVars, cacheVars
<1>12. QED
  BY <1>1, <1>2, <1>3, <1>4, <1>5, <1>6, <1>7, <1>8, <1>9, <1>10, <1>11 DEF HostProgress

-----------------------------------------------------------------------------
(* Sequences of stores are closed under what the worker does with them. *)
LEMMA SeqClosed ==
  ASSUME NEW S, NEW x \in Seq(S), NEW y \in Seq(S)
  PROVE  /\ x \o y \in Seq(S)
         /\ x # <<>> => Head(x) \in S /\ Tail(x) \in Seq(S)
OBVIOUS

(* A store of the worker is typed. *)
LEMMA WorkerStoreTyped ==
  ASSUME TypeOK, WorkerStore
  PROVE  TypeOK'
<1> DEFINE x == Head(todo)
<1> USE DEF TypeOK
<1>1. x \in StoreSet /\ Tail(todo) \in Seq(StoreSet) /\ todo # <<>>
  BY SeqClosed DEF WorkerStore, WorkerType
<1>2. /\ x[1] = "stat" => x[2] \in SUBSET StatusBits
      /\ x[1] \in {"irq", "line"} => x[2] \in BOOLEAN
      /\ x[1] \in {"status", "data"} => x[2] \in StatusByte
      /\ x[1] = "addr" => x[2] \in Address
      /\ x[1] \in {"load", "sync"} => x[2] \in Lane
  BY <1>1 DEF StoreSet
<1>3. CacheStore(x) /\ SharedStore(x)
  BY DEF WorkerStore
<1>4. cache' \in [stat : SUBSET StatusBits, data : StatusByte, sel : BOOLEAN, addr : Address]
  BY <1>2, <1>3 DEF CacheStore, SharedType, WorkerType, LocalsType, Address
<1>5. /\ status' \in StatusByte /\ addr' \in Address
      /\ resetReq' \in BOOLEAN /\ irqPending' \in BOOLEAN /\ irqLine' \in BOOLEAN
  BY <1>2, <1>3 DEF SharedStore, SharedType
<1>6. SharedType'
  BY <1>4, <1>5 DEF SharedType, WorkerStore
<1>7. todo' \in Seq(StoreSet)
  <2>1. (IF x[1] = "irq" /\ x[2] # irqPending THEN <<Line(x[2])>> ELSE <<>>) \in Seq(StoreSet)
    BY <1>2, IrqIsStore
  <2>2. QED
    BY <2>1, <1>1, SeqClosed DEF WorkerStore
<1>8. w' \in LocalsType
  <2>1. [prog |-> 0, off |-> 0] \in AddrByte
    BY SizesAssumption DEF AddrByte
  <2>2. x[1] = "load" => addr[x[2]] \in AddrByte
    BY <1>2 DEF SharedType, Address
  <2>3. QED
    BY <2>1, <2>2 DEF WorkerStore, WorkerType, LocalsType
<1>9. QED
  BY <1>6, <1>7, <1>8 DEF WorkerStore, WorkerType, HostType, LatchOK, hostVars

(* What the queue hands the worker is a control value, a byte or a read. *)
LEMMA EntryTyped ==
  ASSUME NEW e \in QueueEntry
  PROVE  /\ e[1] = "control" => e[2] \in SUBSET ControlBits
         /\ e[1] = "data" => e[2] \in Byte
BY DEF QueueEntry

(* The target of a selection byte. *)
LEMMA ExtractTargetTyped ==
  ASSUME NEW b \in Byte
  PROVE  ExtractTarget(b) \in Targets \cup {0}
BY DEF ExtractTarget, Byte

(* Raising the status phase keeps the worker's registers typed. *)
LEMMA AwaitStatusTyped ==
  ASSUME NEW d \in DmaType
  PROVE  AwaitStatus(d) \in DmaType
<1>1. ReqStatus(d.bus) \in SUBSET Signals
  BY PhasesAreSignals DEF DmaType
<1>2. QED
  BY <1>1 DEF AwaitStatus, DmaType

(* CONTROL with RESET is typed, ... *)
LEMMA DeferResetTyped ==
  ASSUME TypeOK, NEW c \in SUBSET ControlBits, DeferReset(c)
  PROVE  WorkerType'
<1> USE DEF TypeOK, WorkerType
<1>1. dma' \in DmaType
  <2>1. <<"fill", 0>> \in Byte /\ 0 \in 0 .. ParamLen /\ ("SEL" \in c) \in BOOLEAN
    BY SizesAssumption DEF Byte
  <2>2. QED
    BY <2>1 DEF DeferReset, DmaType
<1>2. w' \in LocalsType
  <2>1. 0 \in 0 .. CdbLen - 1
    BY SizesAssumption
  <2>2. QED
    BY <2>1 DEF DeferReset, LocalsType
<1>3. QED
  BY <1>1, <1>2, ResetStoresTyped DEF DeferReset

(* ... CONTROL without RESET, ... *)
LEMMA DeferControlTyped ==
  ASSUME TypeOK, NEW c \in SUBSET ControlBits, DeferControl(c)
  PROVE  WorkerType'
<1> USE DEF TypeOK, WorkerType
<1>1. SelectedTarget \in Targets \cup {0}
  BY ExtractTargetTyped DEF SelectedTarget, DmaType
<1> DEFINE latched == [dma EXCEPT !.select = "SEL" \in c,
                                  !.dmaEnabled = IF "LATCH" \in c THEN "ON" \in c ELSE @]
           rise == "SEL" \in c /\ ~dma.select
           fall == "SEL" \notin c /\ dma.select
<1>2. dma' \in DmaType
  <2>1. ("SEL" \in c) \in BOOLEAN /\ ("ON" \in c) \in BOOLEAN
    OBVIOUS
  <2>2. latched \in DmaType
    BY <2>1 DEF DmaType
  <2>3. /\ latched.bus \cup {"SEL", "BSY"} \in SUBSET Signals
        /\ (latched.bus \ {"SEL", "INP"}) \cup {"BSY", "REQ", "CTL"} \in SUBSET Signals
    BY <2>2 DEF DmaType, Signals, StatusBits
  <2> HIDE DEF latched
  <2>4. dma' = CASE rise -> [latched EXCEPT !.bus = @ \cup {"SEL", "BSY"},
                                            !.target = SelectedTarget]
                 [] fall -> [latched EXCEPT !.bus = (@ \ {"SEL", "INP"})
                                                      \cup {"BSY", "REQ", "CTL"},
                                            !.nonDmaReq = TRUE]
                 [] OTHER -> latched
    BY Zenon DEF DeferControl, latched
  <2>5. QED
    BY <1>1, <2>2, <2>3, <2>4 DEF DmaType
<1>3. todo' \in Seq(StoreSet)
  <2>1. <<>> \in Seq(StoreSet) /\ <<Irq(TRUE)>> \in Seq(StoreSet)
    BY IrqStoresTyped
  <2>2. \E f \in BOOLEAN : \E b : todo' = EdgeStores(f, b)
    <3>1. fall \in BOOLEAN
      OBVIOUS
    <3>2. todo' = EdgeStores(fall, dma'.bus)
      BY Zenon DEF DeferControl
    <3>3. QED
      BY <3>1, <3>2
  <2>3. QED
    BY <2>1, <2>2 DEF EdgeStores
<1>4. QED
  BY <1>2, <1>3 DEF DeferControl

(* ... a command byte, ... *)
LEMMA CommandByteTyped ==
  ASSUME TypeOK, NEW d \in DmaType, NEW t \in Seq(StoreSet), NEW b \in Byte,
         CommandByte(d, t, b)
  PROVE  WorkerType'
<1> USE DEF TypeOK, WorkerType
<1>1. w' \in LocalsType
  <2>1. NextIndex \in 0 .. CdbLen - 1
    BY SizesAssumption DEF NextIndex, LocalsType
  <2>2. b[1] = "cdb" => b[2] \in 0 .. MaxCommands
    BY SizesAssumption DEF Byte, CommandId
  <2>3. (IF w.index = 0 THEN (IF b[1] = "cdb" THEN b[2] ELSE NoCommand) ELSE w.cdb)
          \in 0 .. MaxCommands
    BY <2>2, SizesAssumption DEF LocalsType, NoCommand
  <2>4. QED
    BY <2>1, <2>3 DEF CommandByte, LocalsType
<1>2. ReqCommand(d.bus) \in SUBSET Signals
  BY PhasesAreSignals DEF DmaType
<1>3. dma' \in DmaType
  BY <1>2 DEF CommandByte, DmaType
<1>4. t \o <<Stat(ReqCommand(d.bus)), Irq(TRUE)>> \in Seq(StoreSet)
  <2>1. <<Stat(ReqCommand(d.bus)), Irq(TRUE)>> \in Seq(StoreSet)
    BY StatIsStore, IrqIsStore, TupleTyped, Zenon
  <2>2. QED
    BY <2>1, SeqClosed
<1>5. QED
  BY <1>1, <1>3, <1>4 DEF CommandByte, WorkerPoints

(* ... a parameter byte, ... *)
LEMMA ParamByteTyped ==
  ASSUME TypeOK, NEW d \in DmaType, NEW t \in Seq(StoreSet), d.dataOut > 0, ParamByte(d, t)
  PROVE  WorkerType'
<1> USE DEF TypeOK, WorkerType
<1>1. CASE d.dataOut > 1
  <2>1. ReqParam(d.bus) \in SUBSET Signals /\ d.dataOut - 1 \in 0 .. ParamLen
    BY <1>1, PhasesAreSignals, SizesAssumption DEF DmaType
  <2>2. dma' \in DmaType
    BY <1>1, <2>1 DEF ParamByte, DmaType
  <2>3. <<Stat(ReqParam(d.bus)), Irq(TRUE)>> \in Seq(StoreSet)
    BY StatIsStore, IrqIsStore, TupleTyped, Zenon
  <2>4. todo' \in Seq(StoreSet)
    <3>1. todo' = t \o <<Stat(ReqParam(d.bus)), Irq(TRUE)>>
      BY <1>1, Zenon DEF ParamByte
    <3>2. QED
      BY <2>3, <3>1, SeqClosed, Zenon
  <2>5. QED
    BY <2>2, <2>4 DEF ParamByte
<1>2. CASE ~(d.dataOut > 1)
  <2>1. [d EXCEPT !.dataOut = 0] \in DmaType
    BY SizesAssumption DEF DmaType
  <2>2. [id |-> w.cdb, good |-> TRUE] \in StatusByte
    BY DEF StatusByte, LocalsType
  <2>3. dma' \in DmaType
    BY <1>2, <2>1, AwaitStatusTyped DEF ParamByte
  <2>4. todo' \in Seq(StoreSet)
    BY <1>2, <2>2, StatusStoresTyped, SeqClosed DEF ParamByte
  <2>5. QED
    BY <2>3, <2>4 DEF ParamByte
<1>3. QED
  BY <1>1, <1>2

(* ... any write of DATA, ... *)
LEMMA DeferDataTyped ==
  ASSUME TypeOK, NEW b \in Byte, DeferData(b)
  PROVE  WorkerType'
<1> DEFINE named == [dma EXCEPT !.command = b,
                           !.target = IF dma.select THEN ExtractTarget(b) ELSE @,
                           !.bus = IF dma.select THEN @ \ {"SEL"} ELSE @]
           isTaken == dma.nonDmaReq /\ "INP" \notin dma.bus
           d == IF isTaken
                  THEN [named EXCEPT !.nonDmaReq = FALSE, !.bus = (@ \ {"REQ"}) \cup {"ACK"}]
                  ELSE named
           acked == IF isTaken THEN <<Stat(d.bus)>> ELSE <<>>
<1> USE DEF TypeOK, WorkerType
<1>1. named \in DmaType
  BY ExtractTargetTyped DEF DmaType
<1>2. d \in DmaType
  <2>1. (named.bus \ {"REQ"}) \cup {"ACK"} \in SUBSET Signals
    BY <1>1 DEF DmaType, Signals
  <2> HIDE DEF named
  <2>2. [named EXCEPT !.nonDmaReq = FALSE, !.bus = (@ \ {"REQ"}) \cup {"ACK"}] \in DmaType
    BY <1>1, <2>1 DEF DmaType
  <2>3. QED
    BY <1>1, <2>2
<1>3. acked \in Seq(StoreSet)
  BY StatIsStore, TupleTyped, Zenon
<1> HIDE DEF d, acked, named, isTaken
<1>4. \/ CommandByte(d, acked, b)
      \/ d.dataOut > 0 /\ ParamByte(d, acked)
      \/ dma' = d /\ todo' = acked /\ UNCHANGED <<pc, w>>
  BY Zenon DEF DeferData, d, acked, named, isTaken
<1>5. QED
  BY <1>2, <1>3, <1>4, CommandByteTyped, ParamByteTyped

(* ... and a committed read of DATA. *)
LEMMA DeferReadTyped ==
  ASSUME TypeOK, DeferRead
  PROVE  WorkerType'
<1> USE DEF TypeOK, WorkerType
<1>1. dma' \in DmaType
  <2>1. /\ {} \in SUBSET Signals
        /\ dma.bus \cup {"MSG"} \in SUBSET Signals
        /\ (dma.nonDmaReq /\ ~("INP" \in dma.bus)) \in BOOLEAN
    BY DEF DmaType, Signals, StatusBits
  <2>2. /\ [dma EXCEPT !.bus = {}, !.nonDmaReq = FALSE, !.statusPending = FALSE] \in DmaType
        /\ [dma EXCEPT !.bus = @ \cup {"MSG"}, !.nonDmaReq = TRUE, !.statusPending = FALSE]
             \in DmaType
        /\ [dma EXCEPT !.nonDmaReq = @ /\ ~("INP" \in dma.bus)] \in DmaType
    BY <2>1 DEF DmaType
  <2>3. QED
    BY <2>2, Zenon DEF DeferRead
<1>2. todo' \in Seq(StoreSet)
  <2>1. /\ <<>> \in Seq(StoreSet)
        /\ <<Irq(TRUE)>> \in Seq(StoreSet)
        /\ <<Irq(FALSE)>> \in Seq(StoreSet)
    BY IrqStoresTyped
  <2>2. QED
    BY <2>1, Zenon DEF DeferRead
<1>3. QED
  BY <1>1, <1>2 DEF DeferRead

(* Taking a queued operation is typed. *)
LEMMA WorkerTakeTyped ==
  ASSUME TypeOK, WorkerTake
  PROVE  TypeOK'
<1> DEFINE e == Head(queue)
<1> USE DEF TypeOK
<1>1. e \in QueueEntry /\ queue # <<>>
  BY SeqClosed DEF WorkerTake, SharedType
<1>2. SharedType'
  <2>1. queue' = Tail(queue)
    BY DEF WorkerTake
  <2>2. queue' \in Seq(QueueEntry) /\ Len(queue') < QueueSize
    BY <1>1, <2>1, SizesAssumption DEF SharedType
  <2>3. QED
    BY <2>2 DEF WorkerTake, SharedType, sharedVars
<1>3. HostType'
  BY DEF WorkerTake, HostType, LatchOK, hostVars
<1>4. \/ e[1] = "control" /\ DeferReset(e[2])
      \/ e[1] = "control" /\ DeferControl(e[2])
      \/ e[1] = "data" /\ DeferData(e[2])
      \/ DeferRead
  BY DEF WorkerTake
<1>5. WorkerType'
  BY <1>1, <1>4, EntryTyped, DeferResetTyped, DeferControlTyped, DeferDataTyped, DeferReadTyped
<1>6. QED
  BY <1>2, <1>3, <1>5

-----------------------------------------------------------------------------
(* Completing a command is typed, ... *)
LEMMA CompleteTyped ==
  ASSUME TypeOK, NEW t \in Seq(StoreSet), NEW g \in BOOLEAN, Complete(t, g)
  PROVE  dma' \in DmaType /\ todo' \in Seq(StoreSet) /\ pc' \in WorkerPoints
<1> USE DEF TypeOK, WorkerType
<1>1. Verdict(g) \in StatusByte
  BY DEF Verdict, StatusByte, LocalsType
<1>2. StatusStores(dma.bus, Verdict(g)) \in Seq(StoreSet)
  BY <1>1, StatusStoresTyped
<1>3. QED
  BY <1>2, AwaitStatusTyped, SeqClosed DEF Complete, WorkerPoints

(* ... and so is driving a phase. *)
LEMMA PhaseTyped ==
  ASSUME TypeOK, NEW b \in SUBSET Signals, NEW p \in WorkerPoints, Phase(b, p)
  PROVE  dma' \in DmaType /\ todo' \in Seq(StoreSet) /\ pc' \in WorkerPoints
<1> USE DEF TypeOK, WorkerType
<1>1. <<Stat(b)>> \in Seq(StoreSet)
  BY StatIsStore, TupleTyped, Zenon
<1>2. QED
  BY <1>1 DEF Phase, DmaType

(* A step of a command handler touches the worker's own state only. *)
LEMMA HandlerFrame ==
  ASSUME TypeOK, UNCHANGED <<cacheVars, sharedVars, hostVars>>, WorkerType'
  PROVE  TypeOK'
BY DEF TypeOK, SharedType, HostType, LatchOK, cacheVars, sharedVars, hostVars

(* Every step of a command handler is typed. *)
LEMMA HandlerTyped ==
  ASSUME TypeOK,
         \/ Route \/ Burst \/ BurstDone \/ Snapshot \/ SectorBegin \/ FetchSector \/ Transfer
         \/ StoreSector \/ CheckReset \/ Sync \/ Finish
  PROVE  TypeOK'
<1> USE DEF TypeOK, WorkerType
<1> dma.bus \in SUBSET Signals
  BY DEF DmaType
<1>0. /\ {"idle", "route", "snapshot", "loop", "fetch", "transfer", "store", "check", "sync", "finish",
          "burst", "bursting"} = WorkerPoints
      /\ Programmed(0, 0) \in Address
      /\ w.loc \in Address /\ Advance(w.loc) \in Address
      /\ <<>> \in Seq(StoreSet)
  BY AddressesTyped, SizesAssumption, IrqStoresTyped DEF WorkerPoints, LocalsType
<1>1. UNCHANGED <<cacheVars, sharedVars, hostVars>>
  BY DEF Route, Burst, BurstDone, Snapshot, SectorBegin, FetchSector, Transfer, StoreSector, CheckReset,
         Sync, Finish, WorkerAt
<1>2. CASE Route
  <2>1. w' \in LocalsType
    <3>1. 1 \in 1 .. DmaRetries
      BY SizesAssumption
    <3>2. Fresh \in LocalsType
      BY <3>1 DEF Fresh, LocalsType
    <3>3. QED
      BY <1>2, <3>2 DEF Route
  <2>2. /\ DataIn(dma.bus) \cup (dma.bus \cap {"ACK"}) \in SUBSET Signals
        /\ DataOut(dma.bus) \cup (dma.bus \cap {"ACK"}) \in SUBSET Signals
    BY PhasesAreSignals
  <2>3. dma' \in DmaType /\ todo' \in Seq(StoreSet) /\ pc' \in WorkerPoints
    <3>1. \/ Complete(<<>>, TRUE)
          \/ Phase(Busy(dma.bus), "snapshot")
          \/ Phase(DataIn(dma.bus) \cup (dma.bus \cap {"ACK"}), "burst")
          \/ Phase(DataOut(dma.bus) \cup (dma.bus \cap {"ACK"}), "burst")
          \/ Phase(DataOut(dma.bus), "burst")
          \/ /\ pc' = "idle"
             /\ dma' = [dma EXCEPT !.bus = ReqParam(@), !.dataOut = ParamLen, !.nonDmaReq = TRUE]
             /\ todo' = <<Stat(ReqParam(dma.bus)), Irq(TRUE)>>
      BY <1>2 DEF Route
    <3>2. [dma EXCEPT !.bus = ReqParam(@), !.dataOut = ParamLen, !.nonDmaReq = TRUE] \in DmaType
      <4>1. ReqParam(dma.bus) \in SUBSET Signals /\ ParamLen \in 0 .. ParamLen
        BY PhasesAreSignals, SizesAssumption
      <4>2. QED
        BY <4>1 DEF DmaType
    <3>3. <<Stat(ReqParam(dma.bus)), Irq(TRUE)>> \in Seq(StoreSet)
      BY StatIsStore, IrqIsStore, TupleTyped, Zenon
    <3>4. QED
      BY <1>0, <2>2, <3>1, <3>2, <3>3, CompleteTyped, PhaseTyped, PhasesAreSignals
  <2>4. QED
    BY <1>1, <2>1, <2>3, HandlerFrame
<1>3. CASE Burst \/ Snapshot
  <2>1. w' \in LocalsType
    BY <1>3 DEF Burst, Snapshot, LocalsType, SharedType
  <2>2. QED
    BY <1>1, <1>3, <2>1, HandlerFrame DEF Burst, Snapshot, WorkerPoints
<1>4. CASE BurstDone
  <2>1. w' \in LocalsType
    BY <1>0, <1>4 DEF BurstDone, LocalsType
  <2>2. WriteBack(Advance(w.loc)) \in Seq(StoreSet)
    BY <1>0, WriteBackTyped
  <2>3. dma' \in DmaType /\ todo' \in Seq(StoreSet) /\ pc' \in WorkerPoints
    BY <1>0, <1>4, <2>2, CompleteTyped DEF BurstDone
  <2>4. QED
    BY <1>1, <2>1, <2>3, HandlerFrame
<1>5. CASE SectorBegin \/ FetchSector
  <2>1. w' \in LocalsType
    <3>1. 1 \in 1 .. DmaRetries
      BY SizesAssumption
    <3>2. /\ [w EXCEPT !.try = 1] \in LocalsType
          /\ [w EXCEPT !.ok = FALSE] \in LocalsType
      BY <3>1 DEF LocalsType
    <3>3. QED
      BY <1>5, <3>2 DEF SectorBegin, FetchSector, Fail
  <2>2. dma' \in DmaType /\ todo' \in Seq(StoreSet) /\ pc' \in WorkerPoints
    <3>1. \/ pc' \in {"check", "fetch"} /\ UNCHANGED <<dma, todo>>
          \/ Phase(DataIn(dma.bus), "transfer")
          \/ Phase(DataOut(dma.bus), "transfer")
      BY <1>5 DEF SectorBegin, FetchSector, Fail
    <3>2. QED
      BY <1>0, <3>1, PhaseTyped, PhasesAreSignals
  <2>3. QED
    BY <1>1, <2>1, <2>2, HandlerFrame
<1>6. ASSUME SectorEnd
      PROVE  dma' \in DmaType /\ todo' \in Seq(StoreSet) /\ pc' \in WorkerPoints
  BY <1>0, <1>6, PhaseTyped, PhasesAreSignals DEF SectorEnd
<1>7. Advanced \in LocalsType
  <2>1. w.block + 1 \in Nat
    BY DEF LocalsType
  <2>2. QED
    BY <1>0, <2>1 DEF Advanced, LocalsType
<1>8. CASE Transfer
  <2>1. w' \in LocalsType
    <3>1. w.try < DmaRetries => w.try + 1 \in 1 .. DmaRetries
      BY SizesAssumption DEF LocalsType
    <3>2. /\ w.try < DmaRetries => [w EXCEPT !.try = @ + 1] \in LocalsType
          /\ [w EXCEPT !.ok = FALSE] \in LocalsType
      BY <3>1 DEF LocalsType
    <3>3. QED
      BY <1>7, <1>8, <3>2 DEF Transfer, Fail
  <2>2. dma' \in DmaType /\ todo' \in Seq(StoreSet) /\ pc' \in WorkerPoints
    BY <1>0, <1>6, <1>8 DEF Transfer, Fail
  <2>3. QED
    BY <1>1, <2>1, <2>2, HandlerFrame
<1>9. CASE StoreSector
  <2>1. w' \in LocalsType
    BY <1>7, <1>9 DEF StoreSector, Fail, LocalsType
  <2>2. dma' \in DmaType /\ todo' \in Seq(StoreSet) /\ pc' \in WorkerPoints
    BY <1>0, <1>6, <1>9 DEF StoreSector, Fail
  <2>3. QED
    BY <1>1, <2>1, <2>2, HandlerFrame
<1>10. CASE CheckReset \/ Sync
  <2>1. w' \in LocalsType
    BY <1>10 DEF CheckReset, Sync, LocalsType
  <2>2. QED
    BY <1>1, <1>10, <2>1, HandlerFrame DEF CheckReset, Sync, WorkerPoints
<1>11. CASE Finish
  <2>1. w' \in LocalsType
    BY <1>0, <1>11 DEF Finish, LocalsType
  <2>2. WriteBack(w.loc) \in Seq(StoreSet) /\ w.ok \in BOOLEAN
    BY <1>0, WriteBackTyped DEF LocalsType
  <2>3. dma' \in DmaType /\ todo' \in Seq(StoreSet) /\ pc' \in WorkerPoints
    BY <1>11, <2>2, CompleteTyped DEF Finish
  <2>4. QED
    BY <1>1, <2>1, <2>3, HandlerFrame
<1>12. QED
  BY <1>2, <1>3, <1>4, <1>5, <1>8, <1>9, <1>10, <1>11

-----------------------------------------------------------------------------
(* Type correctness for every value of the constants: no sequence of bus cycles,
   queued operations and command steps indexes outside the command and parameter
   buffers or overfills the queue. *)
THEOREM TypeCorrect == Spec => []TypeOK
<1>1. TypeOK /\ [Next]_vars => TypeOK'
  <2> SUFFICES ASSUME TypeOK, [Next]_vars
               PROVE  TypeOK'
    OBVIOUS
  <2>1. CASE HostProgress \/ HostTimeout
    BY <2>1, HostTyped
  <2>2. CASE Worker
    BY <2>2, WorkerStoreTyped, WorkerTakeTyped, HandlerTyped DEF Worker
  <2>3. CASE UNCHANGED vars
    BY <2>3 DEF vars, cacheVars, sharedVars, workerVars, hostVars, TypeOK, SharedType,
       WorkerType, HostType, LatchOK
  <2>4. QED
    BY <2>1, <2>2, <2>3 DEF Next
<1>2. QED
  BY InitTypeOK, <1>1, PTL DEF Spec

-----------------------------------------------------------------------------
(* Whatever the ISR queues, a RESET that waits keeps waiting; a RESET it writes
   waits from then on, unless the queue refuses it. *)
LEMMA EnqueueKeepsReset ==
  ASSUME SharedType, NEW e \in QueueEntry, Enqueue(e)
  PROVE  /\ ResetQueued => ResetQueued'
         /\ drops => drops'
         /\ e[1] = "control" /\ "RESET" \in e[2] => ResetQueued' \/ drops'
<1> USE DEF SharedType
<1>1. CASE Len(queue) < QueueSize - 1
  <2>1. /\ queue' = Append(queue, e) /\ drops' = drops
        /\ Len(queue') = Len(queue) + 1 /\ Len(queue) \in Nat
        /\ \A i \in 1 .. Len(queue) : queue'[i] = queue[i]
        /\ queue'[Len(queue) + 1] = e
    BY <1>1 DEF Enqueue
  <2>2. ResetQueued => ResetQueued'
    BY <2>1 DEF ResetQueued
  <2>3. e[1] = "control" /\ "RESET" \in e[2] => ResetQueued'
    BY <2>1 DEF ResetQueued
  <2>4. QED
    BY <2>1, <2>2, <2>3
<1>2. CASE ~(Len(queue) < QueueSize - 1)
  <2>1. drops' = TRUE /\ queue' = queue
    BY <1>2 DEF Enqueue
  <2>2. QED
    BY <2>1 DEF ResetQueued
<1>3. QED
  BY <1>1, <1>2

(* A CONTROL write raises the request together with the RESET that answers it. *)
LEMMA ControlKeepsBacked ==
  ASSUME SharedType, ResetFlagBacked, UNCHANGED todo,
         NEW c \in SUBSET ControlBits, IsrWriteControl(c)
  PROVE  ResetFlagBacked'
<1>1. <<"control", c>> \in QueueEntry
  BY DEF QueueEntry
<1>2. /\ ResetQueued => ResetQueued'
      /\ drops => drops'
      /\ "RESET" \in c => ResetQueued' \/ drops'
  BY <1>1, EnqueueKeepsReset DEF IsrWriteControl
<1>3. resetReq' => resetReq \/ "RESET" \in c
  BY DEF IsrWriteControl, Flagged
<1>4. ResetUnderWay => ResetUnderWay'
  BY DEF ResetUnderWay
<1>5. QED
  BY <1>2, <1>3, <1>4 DEF ResetFlagBacked

(* No other bus cycle touches the request. *)
LEMMA CycleKeepsBacked ==
  ASSUME SharedType, ResetFlagBacked, UNCHANGED <<todo, resetReq>>,
         \/ UNCHANGED <<queue, drops>>
         \/ \E e \in QueueEntry : Enqueue(e)
  PROVE  ResetFlagBacked'
<1>1. (ResetQueued => ResetQueued') /\ (drops => drops')
  <2>1. CASE UNCHANGED <<queue, drops>>
    BY <2>1 DEF ResetQueued
  <2>2. CASE \E e \in QueueEntry : Enqueue(e)
    BY <2>2, EnqueueKeepsReset
  <2>3. QED
    BY <2>1, <2>2
<1>2. ResetUnderWay => ResetUnderWay'
  BY DEF ResetUnderWay
<1>3. QED
  BY <1>1, <1>2 DEF ResetFlagBacked

(* The worker's stores lower the request exactly when they answer it. *)
LEMMA StoreKeepsBacked ==
  ASSUME TypeOK, ResetFlagBacked, WorkerStore
  PROVE  ResetFlagBacked'
<1> DEFINE x == Head(todo)
           before == IF x[1] = "irq" /\ x[2] # irqPending THEN <<Line(x[2])>> ELSE <<>>
<1>1. /\ x \in StoreSet /\ todo # <<>> /\ todo \in Seq(StoreSet)
      /\ Tail(todo) \in Seq(StoreSet) /\ before \in Seq(StoreSet)
  <2>1. x \in StoreSet /\ todo # <<>> /\ todo \in Seq(StoreSet) /\ Tail(todo) \in Seq(StoreSet)
    BY SeqClosed DEF WorkerStore, WorkerType, TypeOK
  <2>2. x[1] = "irq" => x[2] \in BOOLEAN
    BY <2>1 DEF StoreSet
  <2>3. QED
    BY <2>1, <2>2, IrqIsStore
<1>2. todo' = before \o Tail(todo) /\ UNCHANGED <<queue, drops>>
  BY DEF WorkerStore
<1>3. resetReq' = IF x[1] = "unreset" THEN FALSE ELSE resetReq
  BY DEF WorkerStore, SharedStore
<1>4. ResetQueued => ResetQueued'
  BY <1>2 DEF ResetQueued
<1>5. ResetUnderWay /\ x[1] # "unreset" => ResetUnderWay'
  <2> SUFFICES ASSUME ResetUnderWay, x[1] # "unreset"
               PROVE  ResetUnderWay'
    OBVIOUS
  <2> HIDE DEF before
  <2>1. PICK i \in 1 .. Len(todo) : todo[i] = <<"unreset", 0>>
    BY DEF ResetUnderWay
  <2>2. i # 1
    BY <1>1, <2>1
  <2>3. Tail(todo)[i - 1] = <<"unreset", 0>> /\ i - 1 \in 1 .. Len(Tail(todo))
    BY <1>1, <2>1, <2>2
  <2>4. /\ todo'[Len(before) + (i - 1)] = Tail(todo)[i - 1]
        /\ Len(before) + (i - 1) \in 1 .. Len(todo')
    BY <1>1, <1>2, <2>3
  <2>5. QED
    BY <2>3, <2>4 DEF ResetUnderWay
<1>6. QED
  BY <1>2, <1>3, <1>4, <1>5 DEF ResetFlagBacked

(* Taking a RESET from the queue puts its answer among the stores at once. *)
LEMMA TakeKeepsBacked ==
  ASSUME TypeOK, ResetFlagBacked, WorkerTake
  PROVE  ResetFlagBacked'
<1> DEFINE e == Head(queue)
<1>1. /\ queue \in Seq(QueueEntry) /\ queue # <<>> /\ queue' = Tail(queue)
      /\ UNCHANGED <<drops, resetReq>> /\ todo = <<>>
  BY DEF WorkerTake, TypeOK, SharedType, sharedVars
<1>2. CASE e[1] = "control" /\ "RESET" \in e[2]
  <2>1. DeferReset(e[2]) \/ e[1] # "control" \/ "RESET" \notin e[2]
    BY <1>2 DEF WorkerTake
  <2>2. todo' = ResetStores
    BY <1>2, <2>1 DEF DeferReset
  <2>3. ResetStores[2] = <<"unreset", 0>> /\ 2 \in 1 .. Len(ResetStores)
    BY DEF ResetStores
  <2>4. ResetUnderWay'
    BY <2>2, <2>3 DEF ResetUnderWay
  <2>5. QED
    BY <2>4 DEF ResetFlagBacked
<1>3. CASE ~(e[1] = "control" /\ "RESET" \in e[2])
  <2>1. ~ResetUnderWay
    BY <1>1 DEF ResetUnderWay
  <2>2. ResetQueued => ResetQueued'
    <3> SUFFICES ASSUME ResetQueued
                 PROVE  ResetQueued'
      OBVIOUS
    <3>1. PICK i \in 1 .. Len(queue) : queue[i][1] = "control" /\ "RESET" \in queue[i][2]
      BY DEF ResetQueued
    <3>2. i # 1
      BY <1>1, <1>3, <3>1
    <3>3. Tail(queue)[i - 1] = queue[i] /\ i - 1 \in 1 .. Len(Tail(queue))
      BY <1>1, <3>1, <3>2
    <3>4. QED
      BY <1>1, <3>1, <3>3 DEF ResetQueued
  <2>3. QED
    BY <1>1, <2>1, <2>2 DEF ResetFlagBacked
<1>4. QED
  BY <1>2, <1>3

(* An abort request never outlives the RESET entry that will clear it: for every
   command set, queue size and timing of the host's resets, reset_requested is
   true only while a RESET waits in the queue or is being processed, or after the
   queue has refused an entry.  So READ and WRITE cannot be silenced for good. *)
THEOREM AbortIsAnswered == Spec => []ResetFlagBacked
<1>1. Init => ResetFlagBacked
  BY DEF Init, ResetFlagBacked
<1>2. TypeOK /\ ResetFlagBacked /\ [Next]_vars => ResetFlagBacked'
  <2> SUFFICES ASSUME TypeOK, ResetFlagBacked, [Next]_vars
               PROVE  ResetFlagBacked'
    OBVIOUS
  <2>0. SharedType /\ (hp # "start" => Current \in CommandId /\ Mine \in Command)
    BY SizesAssumption DEF TypeOK, HostType, Current, Mine, CommandId
  <2>1. CASE \/ \E c \in Command : HostBegin(c)
             \/ HostSelect \/ HostDeselect \/ HostReset \/ HostUnreset
    <3>1. \E c \in SUBSET ControlBits : IsrWriteControl(c)
      <4>1. /\ \A f \in BOOLEAN : ({"LATCH"} \cup (IF f THEN {"ON"} ELSE {})) \in SUBSET ControlBits
            /\ BaseControl \cup {"SEL"} \in SUBSET ControlBits
            /\ BaseControl \in SUBSET ControlBits
            /\ {"RESET"} \in SUBSET ControlBits /\ {} \in SUBSET ControlBits
        BY DEF ControlBits, BaseControl
      <4>2. \A c \in Command : c.dma \in BOOLEAN
        BY DEF Command
      <4>3. QED
        BY <2>1, <4>1, <4>2 DEF HostBegin, HostSelect, HostDeselect, HostReset, HostUnreset
    <3>2. UNCHANGED todo
      BY <2>1 DEF HostBegin, HostSelect, HostDeselect, HostReset, HostUnreset, workerVars
    <3>3. QED
      BY <2>0, <3>1, <3>2, ControlKeepsBacked
  <2>2. CASE HostAddress \/ HostPoll \/ HostPolled \/ HostTimeout \/ HostReadData \/ HostSettled
    <3>1. UNCHANGED <<todo, resetReq, queue, drops>>
      BY <2>2 DEF HostAddress, HostPoll, HostPolled, HostTimeout, HostReadData, HostSettled,
         IsrWriteAddr, IsrCommitStatus, IsrFetchData, cacheVars, sharedVars, workerVars
    <3>2. QED
      BY <2>0, <3>1, CycleKeepsBacked
  <2>3. CASE HostTarget \/ HostCommandByte \/ HostParamByte \/ HostAccept
    <3>1. \/ \E b \in Byte : IsrWriteData(b)
          \/ IsrCommitData
      <4>1. hp # "start"
        BY <2>3 DEF HostTarget, HostCommandByte, HostParamByte, HostAccept
      <4>2. /\ <<"target", Mine.target>> \in Byte
            /\ (IF step = 1 THEN <<"cdb", Current>> ELSE <<"fill", 0>>) \in Byte
            /\ <<"fill", 0>> \in Byte
        BY <2>0, <4>1 DEF Byte, Command
      <4>3. QED
        BY <2>3, <4>2 DEF HostTarget, HostCommandByte, HostParamByte, HostAccept
    <3>2. \E e \in QueueEntry : Enqueue(e)
      <4>1. /\ <<"read", 0>> \in QueueEntry
            /\ \A b \in Byte : <<"data", b>> \in QueueEntry
        BY DEF QueueEntry
      <4>2. QED
        BY <3>1, <4>1 DEF IsrWriteData, IsrCommitData
    <3>3. UNCHANGED <<todo, resetReq>>
      BY <2>3 DEF HostTarget, HostCommandByte, HostParamByte, HostAccept, IsrWriteData,
         IsrCommitData, sharedVars, workerVars
    <3>4. QED
      BY <2>0, <3>2, <3>3, CycleKeepsBacked
  <2>4. CASE WorkerStore
    BY <2>4, StoreKeepsBacked
  <2>5. CASE WorkerTake
    BY <2>5, TakeKeepsBacked
  <2>6. CASE \/ Route \/ Burst \/ BurstDone \/ Snapshot \/ SectorBegin \/ FetchSector \/ Transfer
             \/ StoreSector \/ CheckReset \/ Sync \/ Finish
    <3>1. UNCHANGED <<queue, drops, resetReq>> /\ todo = <<>>
      BY <2>6 DEF Route, Burst, BurstDone, Snapshot, SectorBegin, FetchSector, Transfer, StoreSector,
         CheckReset, Sync, Finish, WorkerAt, cacheVars, sharedVars
    <3>2. QED
      BY <3>1 DEF ResetFlagBacked, ResetQueued, ResetUnderWay
  <2>7. CASE UNCHANGED vars
    BY <2>0, <2>7, CycleKeepsBacked DEF vars, cacheVars, sharedVars, workerVars
  <2>8. QED
    BY <2>1, <2>2, <2>3, <2>4, <2>5, <2>6, <2>7 DEF Next, HostProgress, Worker
<1>3. QED
  BY <1>1, <1>2, TypeCorrect, PTL DEF Spec

-----------------------------------------------------------------------------
(* Plans: the stores the worker sets itself when it takes an operation or moves in a
   command.  Only a RESET answers the request, and only the latch's own store goes
   on to the pin. *)

IsReset(e) == e[1] = "control" /\ "RESET" \in e[2]
Ordinary(s) == \A i \in 1 .. Len(s) : s[i][1] \notin {"line", "unreset"}

(* Two ordinary plans in a row are one. *)
LEMMA OrdinaryClosed ==
  ASSUME NEW x \in Seq(StoreSet), NEW y \in Seq(StoreSet), Ordinary(x), Ordinary(y)
  PROVE  Ordinary(x \o y)
<1> SUFFICES ASSUME NEW i \in 1 .. Len(x \o y) PROVE (x \o y)[i][1] \notin {"line", "unreset"}
  BY DEF Ordinary
<1>1. CASE i \in 1 .. Len(x)
  BY <1>1 DEF Ordinary
<1>2. CASE i - Len(x) \in 1 .. Len(y)
  BY <1>2 DEF Ordinary
<1>3. QED
  BY <1>1, <1>2

(* What the worker plans to store otherwise. *)
LEMMA PlansAreOrdinary ==
  /\ Ordinary(<<>>)
  /\ \A c \in BOOLEAN : Ordinary(<<Irq(c)>>)
  /\ \A b : Ordinary(<<Stat(b)>>) /\ Ordinary(<<Stat(b), Irq(TRUE)>>)
  /\ \A b, x : Ordinary(StatusStores(b, x))
  /\ \A a : Ordinary(WriteBack(a))
<1>1. Ordinary(<<>>)
  BY DEF Ordinary
<1>2. ASSUME NEW c PROVE Ordinary(<<Irq(c)>>)
  BY DEF Ordinary, Irq
<1>3. ASSUME NEW b PROVE Ordinary(<<Stat(b)>>) /\ Ordinary(<<Stat(b), Irq(TRUE)>>)
  BY DEF Ordinary, Irq, Stat
<1>4. ASSUME NEW b, NEW x PROVE Ordinary(StatusStores(b, x))
  BY DEF Ordinary, Irq, Stat, StatusStores
<1>5. ASSUME NEW a PROVE Ordinary(WriteBack(a))
  BY DEF Ordinary, WriteBack
<1>6. QED
  BY <1>1, <1>2, <1>3, <1>4, <1>5

(* Completing a command adds the status phase to the plan, ... *)
LEMMA CompletePlan ==
  ASSUME TypeOK, NEW t \in Seq(StoreSet), Ordinary(t), NEW g \in BOOLEAN, Complete(t, g)
  PROVE  Ordinary(todo')
<1>1. Verdict(g) \in StatusByte
  BY DEF Verdict, StatusByte, TypeOK, WorkerType, LocalsType
<1>2. StatusStores(dma.bus, Verdict(g)) \in Seq(StoreSet)
  BY <1>1, StatusStoresTyped
<1>3. QED
  BY <1>2, OrdinaryClosed, PlansAreOrdinary DEF Complete

(* ... every operation but a RESET plans bus signals and interrupts, ... *)
LEMMA TakePlans ==
  ASSUME TypeOK, WorkerTake, ~IsReset(Head(queue))
  PROVE  Ordinary(todo')
<1> DEFINE e == Head(queue)
<1>1. \/ DeferControl(e[2])
      \/ e[1] = "data" /\ DeferData(e[2])
      \/ DeferRead
  BY DEF WorkerTake, IsReset
<1>2. CASE DeferControl(e[2])
  <2>1. \E f : \E b : todo' = EdgeStores(f, b)
    BY <1>2, Zenon DEF DeferControl
  <2>2. QED
    BY <2>1, PlansAreOrdinary DEF EdgeStores
<1>3. CASE e[1] = "data" /\ DeferData(e[2])
  <2> DEFINE named == [dma EXCEPT !.command = e[2],
                             !.target = IF dma.select THEN ExtractTarget(e[2]) ELSE @,
                             !.bus = IF dma.select THEN @ \ {"SEL"} ELSE @]
             isTaken == dma.nonDmaReq /\ "INP" \notin dma.bus
             d == IF isTaken
                    THEN [named EXCEPT !.nonDmaReq = FALSE, !.bus = (@ \ {"REQ"}) \cup {"ACK"}]
                    ELSE named
             acked == IF isTaken THEN <<Stat(d.bus)>> ELSE <<>>
  <2>1. acked \in Seq(StoreSet) /\ Ordinary(acked)
    BY StatIsStore, TupleTyped, PlansAreOrdinary, Zenon
  <2> HIDE DEF d, acked, named, isTaken
  <2>2. \/ CommandByte(d, acked, e[2])
        \/ ParamByte(d, acked)
        \/ todo' = acked
    BY <1>3, Zenon DEF DeferData, d, acked, named, isTaken
  <2>3. ASSUME NEW b PROVE Ordinary(acked \o <<Stat(b), Irq(TRUE)>>)
    <3>1. <<Stat(b), Irq(TRUE)>> \in Seq(StoreSet)
      BY StatIsStore, IrqIsStore, TupleTyped, Zenon
    <3>2. QED
      BY <2>1, <3>1, OrdinaryClosed, PlansAreOrdinary
  <2>4. ASSUME NEW b PROVE Ordinary(acked \o StatusStores(b, [id |-> w.cdb, good |-> TRUE]))
    <3>1. [id |-> w.cdb, good |-> TRUE] \in StatusByte
      BY DEF StatusByte, TypeOK, WorkerType, LocalsType
    <3>2. StatusStores(b, [id |-> w.cdb, good |-> TRUE]) \in Seq(StoreSet)
      BY <3>1, StatusStoresTyped
    <3>3. QED
      BY <2>1, <3>2, OrdinaryClosed, PlansAreOrdinary
  <2>5. CASE CommandByte(d, acked, e[2])
    BY <2>1, <2>3, <2>5, Zenon DEF CommandByte
  <2>6. CASE ParamByte(d, acked)
    BY <2>3, <2>4, <2>6, Zenon DEF ParamByte
  <2>7. QED
    BY <2>1, <2>2, <2>5, <2>6
<1>4. CASE DeferRead
  BY <1>4, PlansAreOrdinary, Zenon DEF DeferRead
<1>5. QED
  BY <1>1, <1>2, <1>3, <1>4

(* ... and so does a step of a command handler, once the last plan is done. *)
LEMMA HandlerPlans ==
  ASSUME TypeOK,
         \/ Route \/ Burst \/ BurstDone \/ Snapshot \/ SectorBegin \/ FetchSector \/ Transfer
         \/ StoreSector \/ CheckReset \/ Sync \/ Finish
  PROVE  todo = <<>> /\ UNCHANGED <<queue, resetReq, irqPending, irqLine, hp>> /\ Ordinary(todo')
<1>1. todo = <<>> /\ UNCHANGED <<queue, resetReq, irqPending, irqLine, hp>>
  BY DEF Route, Burst, BurstDone, Snapshot, SectorBegin, FetchSector, Transfer, StoreSector, CheckReset,
         Sync, Finish, WorkerAt, cacheVars, sharedVars, hostVars
<1>2. Ordinary(todo')
  <2>0. /\ w.loc \in Address /\ Advance(w.loc) \in Address /\ w.ok \in BOOLEAN /\ <<>> \in Seq(StoreSet)
    BY AddressesTyped, IrqStoresTyped DEF TypeOK, WorkerType, LocalsType
  <2>1. ASSUME NEW b, NEW p, Phase(b, p) PROVE Ordinary(todo')
    BY <2>1, PlansAreOrdinary DEF Phase
  <2>2. ASSUME SectorEnd PROVE Ordinary(todo')
    BY <1>1, <2>1, <2>2, PlansAreOrdinary DEF SectorEnd
  <2>3. CASE Route
    <3>1. \/ Complete(<<>>, TRUE)
          \/ \E b, p : Phase(b, p)
          \/ todo' = <<Stat(ReqParam(dma.bus)), Irq(TRUE)>>
      BY <2>3 DEF Route
    <3>2. QED
      BY <2>0, <2>1, <3>1, CompletePlan, PlansAreOrdinary
  <2>4. CASE BurstDone
    BY <2>0, <2>4, WriteBackTyped, CompletePlan, PlansAreOrdinary DEF BurstDone
  <2>5. CASE SectorBegin \/ FetchSector
    <3>1. todo' = todo \/ \E b, p : Phase(b, p)
      BY <2>5 DEF SectorBegin, FetchSector, Fail
    <3>2. QED
      BY <1>1, <2>1, <3>1, PlansAreOrdinary
  <2>6. CASE Transfer \/ StoreSector
    BY <1>1, <2>2, <2>6, PlansAreOrdinary DEF Transfer, StoreSector, Fail
  <2>7. CASE Finish
    BY <2>0, <2>7, WriteBackTyped, CompletePlan, PlansAreOrdinary DEF Finish
  <2>8. CASE Burst \/ Snapshot \/ CheckReset \/ Sync
    BY <1>1, <2>8, PlansAreOrdinary DEF Burst, Snapshot, CheckReset, Sync
  <2>9. QED
    BY <2>3, <2>4, <2>5, <2>6, <2>7, <2>8
<1>3. QED
  BY <1>1, <1>2


-----------------------------------------------------------------------------
(* The interrupt line. *)

(* Stores that leave the pin alone. *)
LineFree(s) == \A i \in 1 .. Len(s) : s[i][1] # "line"

(* The latch and the pin differ only between the store to the one and the store to
   the other, which follows at once. *)
PinDue == todo # <<>> /\ Head(todo)[1] = "line"

PinFollowsLatch ==
  /\ todo # <<>> => LineFree(Tail(todo))
  /\ irqPending => IF PinDue THEN Head(todo)[2] = TRUE ELSE irqLine = TRUE

(* A plan can be made only when the last one is done; then the latch is on the pin. *)
LEMMA PlanKeepsPin ==
  ASSUME PinFollowsLatch, todo = <<>>, UNCHANGED <<irqPending, irqLine>>,
         todo' \in Seq(StoreSet), LineFree(todo')
  PROVE  PinFollowsLatch'
<1>1. todo' # <<>> => LineFree(Tail(todo')) /\ Head(todo')[1] # "line"
  BY DEF LineFree
<1>2. irqPending => irqLine = TRUE
  BY DEF PinFollowsLatch, PinDue
<1>3. ~PinDue'
  BY <1>1 DEF PinDue
<1>4. QED
  BY <1>1, <1>2, <1>3 DEF PinFollowsLatch

(* A change of the latch puts the pin's store first; any other store leaves both. *)
LEMMA StoreKeepsPin ==
  ASSUME TypeOK, PinFollowsLatch, WorkerStore
  PROVE  PinFollowsLatch'
<1> DEFINE x == Head(todo)
           changes == x[1] = "irq" /\ x[2] # irqPending
           rest == Tail(todo)
<1>1. /\ x \in StoreSet /\ todo # <<>> /\ rest \in Seq(StoreSet) /\ LineFree(rest)
      /\ irqPending \in BOOLEAN
  BY SeqClosed DEF WorkerStore, WorkerType, SharedType, TypeOK, PinFollowsLatch
<1>2. /\ irqPending' = (IF x[1] = "irq" THEN x[2] ELSE irqPending)
      /\ irqLine' = (IF x[1] = "line" THEN x[2] ELSE irqLine)
      /\ todo' = (IF changes THEN <<Line(x[2])>> ELSE <<>>) \o rest
  BY DEF WorkerStore, SharedStore
<1>3. x[1] \in {"irq", "line"} => x[2] \in BOOLEAN /\ x = <<x[1], x[2]>>
  BY <1>1 DEF StoreSet
<1> HIDE DEF x, rest
<1>4. CASE changes
  <2>1. Line(x[2]) \in StoreSet
    BY <1>3, <1>4, IrqIsStore
  <2>2. todo' # <<>> /\ Head(todo') = Line(x[2]) /\ Tail(todo') = rest
    BY <1>1, <1>2, <1>4, <2>1
  <2>3. PinDue' /\ Head(todo')[2] = x[2]
    BY <2>2 DEF PinDue, Line
  <2>4. irqPending' => x[2] = TRUE
    <3>1. irqPending' = x[2] /\ x[2] \in BOOLEAN
      BY <1>2, <1>3, <1>4
    <3>2. QED
      BY <3>1
  <2>5. QED
    BY <1>1, <2>2, <2>3, <2>4 DEF PinFollowsLatch
<1>5. CASE ~changes
  <2>1. todo' = rest
    BY <1>1, <1>2, <1>5
  <2>2. (todo' # <<>> => LineFree(Tail(todo'))) /\ ~PinDue'
    BY <1>1, <2>1 DEF LineFree, PinDue
  <2>3. irqPending' = irqPending
    BY <1>2, <1>5
  <2>4. irqPending => irqLine' = TRUE
    <3> SUFFICES ASSUME irqPending PROVE irqLine' = TRUE
      OBVIOUS
    <3>1. CASE x[1] = "line"
      BY <1>1, <1>2, <3>1 DEF PinFollowsLatch, PinDue, x
    <3>2. CASE x[1] # "line"
      BY <1>2, <3>2 DEF PinFollowsLatch, PinDue, x
    <3>3. QED
      BY <3>1, <3>2
  <2>5. QED
    BY <2>2, <2>3, <2>4 DEF PinFollowsLatch
<1>6. QED
  BY <1>4, <1>5

(* Taking an operation plans stores that leave the pin alone, ... *)
LEMMA TakeKeepsPin ==
  ASSUME TypeOK, PinFollowsLatch, WorkerTake
  PROVE  PinFollowsLatch'
<1>1. todo = <<>> /\ UNCHANGED <<irqPending, irqLine>>
  BY DEF WorkerTake, sharedVars
<1>2. todo' \in Seq(StoreSet)
  BY WorkerTakeTyped DEF TypeOK, WorkerType
<1>3. LineFree(todo')
  <2>1. CASE IsReset(Head(queue))
    <3>1. todo' = ResetStores
      BY <2>1 DEF WorkerTake, IsReset, DeferReset
    <3>2. QED
      BY <3>1 DEF LineFree, ResetStores, Irq, Stat
  <2>2. CASE ~IsReset(Head(queue))
    BY <2>2, TakePlans DEF Ordinary, LineFree
  <2>3. QED
    BY <2>1, <2>2
<1>4. QED
  BY <1>1, <1>2, <1>3, PlanKeepsPin

(* ... and so does a step of a command handler. *)
LEMMA HandlerKeepsPin ==
  ASSUME TypeOK, PinFollowsLatch,
         \/ Route \/ Burst \/ BurstDone \/ Snapshot \/ SectorBegin \/ FetchSector \/ Transfer
         \/ StoreSector \/ CheckReset \/ Sync \/ Finish
  PROVE  PinFollowsLatch'
<1>1. todo = <<>> /\ UNCHANGED <<irqPending, irqLine>> /\ LineFree(todo')
  BY HandlerPlans DEF Ordinary, LineFree
<1>2. todo' \in Seq(StoreSet)
  BY HandlerTyped DEF TypeOK, WorkerType
<1>3. QED
  BY <1>1, <1>2, PlanKeepsPin

(* A bus cycle lowers both at once, or touches neither. *)
LEMMA HostKeepsPin ==
  ASSUME PinFollowsLatch, HostProgress \/ HostTimeout
  PROVE  PinFollowsLatch'
<1>1. /\ todo' = todo
      /\ \/ UNCHANGED <<irqPending, irqLine>>
         \/ irqPending' = FALSE
  BY DEF HostProgress, HostTimeout, HostBegin, HostAddress, HostPoll, HostPolled, HostTarget, HostSelect,
         HostDeselect, HostCommandByte, HostParamByte, HostReadData, HostAccept, HostReset, HostUnreset,
         HostSettled, IsrWriteControl, IsrWriteAddr, IsrCommitStatus, IsrWriteData, IsrFetchData,
         IsrCommitData, workerVars, sharedVars
<1>2. CASE UNCHANGED <<irqPending, irqLine>>
  BY <1>1, <1>2 DEF PinFollowsLatch, PinDue
<1>3. CASE irqPending' = FALSE
  <2>1. ~irqPending'
    BY <1>3
  <2>2. QED
    BY <1>1, <2>1 DEF PinFollowsLatch
<1>4. QED
  BY <1>1, <1>2, <1>3

(* No edge of the interrupt is swallowed: whenever nothing is under way, a latched
   interrupt is on the pin, whatever commands, resets and reads of STATUS crossed
   (dma_update_interrupts against the ISR's commit of a STATUS read). *)
THEOREM IrqNotLostAlways == Spec => []IrqNotLost
<1>1. Init => PinFollowsLatch
  BY DEF Init, PinFollowsLatch
<1>2. TypeOK /\ PinFollowsLatch /\ [Next]_vars => PinFollowsLatch'
  <2> SUFFICES ASSUME TypeOK, PinFollowsLatch, [Next]_vars
               PROVE  PinFollowsLatch'
    OBVIOUS
  <2>1. CASE HostProgress \/ HostTimeout
    BY <2>1, HostKeepsPin
  <2>2. CASE Worker
    BY <2>2, StoreKeepsPin, TakeKeepsPin, HandlerKeepsPin DEF Worker
  <2>3. CASE UNCHANGED vars
    BY <2>3 DEF vars, sharedVars, workerVars, PinFollowsLatch, PinDue
  <2>4. QED
    BY <2>1, <2>2, <2>3 DEF Next
<1>3. PinFollowsLatch => IrqNotLost
  BY DEF PinFollowsLatch, PinDue, IrqNotLost, Quiet
<1>4. QED
  BY <1>1, <1>2, <1>3, TypeCorrect, PTL DEF Spec

-----------------------------------------------------------------------------
(* One RESET at a time. *)

(* A host that lets the board settle has one RESET on its way at most, and the
   request it raised stands until the worker has taken the entry. *)
ResetOnce ==
  /\ ResetQueued \/ ResetUnderWay => hp \in {"unreset", "settle"}
  /\ ResetQueued => resetReq = TRUE /\ ~ResetUnderWay
  /\ \A i, j \in 1 .. Len(queue) : IsReset(queue[i]) /\ IsReset(queue[j]) => i = j

(* An entry that is no RESET adds none. *)
LEMMA EnqueueOther ==
  ASSUME SharedType, NEW e \in QueueEntry, ~IsReset(e),
         UNCHANGED <<queue, drops>> \/ Enqueue(e)
  PROVE  /\ ResetQueued' => ResetQueued
         /\ ResetOnce!3 => ResetOnce!3'
<1> USE DEF SharedType
<1>1. CASE queue' = queue
  BY <1>1 DEF ResetQueued
<1>2. CASE queue' = Append(queue, e)
  <2>1. /\ Len(queue') = Len(queue) + 1 /\ Len(queue) \in Nat
        /\ \A i \in 1 .. Len(queue) : queue'[i] = queue[i]
        /\ queue'[Len(queue) + 1] = e
    BY <1>2
  <2>2. \A i \in 1 .. Len(queue') : i \in 1 .. Len(queue) \/ i = Len(queue) + 1
    BY <2>1
  <2>3. QED
    BY <2>1, <2>2 DEF ResetQueued, IsReset
<1>3. QED
  BY <1>1, <1>2 DEF Enqueue

(* The host's steps that are neither the RESET nor the end of the delay. *)
LEMMA CyclesKeepOnce ==
  ASSUME SharedType, ResetOnce, NEW e \in QueueEntry, ~IsReset(e),
         UNCHANGED <<queue, drops>> \/ Enqueue(e),
         UNCHANGED <<todo, resetReq>>,
         hp \in {"unreset", "settle"} => hp' \in {"unreset", "settle"}
  PROVE  ResetOnce'
<1>1. (ResetQueued' => ResetQueued) /\ (ResetUnderWay' <=> ResetUnderWay)
  BY EnqueueOther DEF ResetUnderWay
<1>2. ResetOnce!3'
  BY EnqueueOther DEF ResetOnce
<1>3. QED
  BY <1>1, <1>2 DEF ResetOnce

(* The driver writes a RESET only after the settling delay of the one before. *)
LEMMA HostKeepsOnce ==
  ASSUME Settle, TypeOK, ResetOnce, HostProgress \/ HostTimeout
  PROVE  ResetOnce'
<1>0. SharedType /\ (hp # "start" => Current \in CommandId /\ Mine \in Command)
  BY SizesAssumption DEF TypeOK, HostType, Current, Mine, CommandId
<1>1. CASE \/ \E c \in Command : HostBegin(c)
           \/ HostSelect \/ HostDeselect \/ HostUnreset
  <2>1. PICK c \in SUBSET ControlBits : IsrWriteControl(c) /\ "RESET" \notin c
    <3>1. /\ \A f \in BOOLEAN : /\ ({"LATCH"} \cup (IF f THEN {"ON"} ELSE {})) \in SUBSET ControlBits
                                /\ "RESET" \notin {"LATCH"} \cup (IF f THEN {"ON"} ELSE {})
          /\ BaseControl \cup {"SEL"} \in SUBSET ControlBits
          /\ BaseControl \in SUBSET ControlBits
          /\ {} \in SUBSET ControlBits
          /\ "RESET" \notin BaseControl /\ "RESET" \notin BaseControl \cup {"SEL"}
      BY DEF ControlBits, BaseControl
    <3>2. \A c \in Command : c.dma \in BOOLEAN
      BY DEF Command
    <3>3. QED
      BY <1>1, <3>1, <3>2 DEF HostBegin, HostSelect, HostDeselect, HostUnreset
  <2>2. /\ <<"control", c>> \in QueueEntry /\ ~IsReset(<<"control", c>>)
        /\ Enqueue(<<"control", c>>)
    BY <2>1 DEF QueueEntry, IsReset, IsrWriteControl
  <2>3. resetReq' = resetReq
    <3>1. resetReq' = Flagged(c) /\ Flagged(c) = (resetReq \/ "RESET" \in c) /\ resetReq \in BOOLEAN
      BY <1>0, <2>1 DEF IsrWriteControl, Flagged, SharedType
    <3>2. QED
      BY <2>1, <3>1
  <2>4. todo' = todo /\ (hp \in {"unreset", "settle"} => hp' \in {"unreset", "settle"})
    BY <1>1 DEF HostBegin, HostSelect, HostDeselect, HostUnreset, workerVars
  <2>5. QED
    BY <1>0, <2>2, <2>3, <2>4, CyclesKeepOnce
<1>2. CASE HostAddress \/ HostPoll \/ HostPolled \/ HostTimeout \/ HostReadData
  <2>1. UNCHANGED <<queue, drops, todo, resetReq>> /\ hp \notin {"unreset", "settle"}
    BY <1>2 DEF HostAddress, HostPoll, HostPolled, HostTimeout, HostReadData, Polls, Expected,
       IsrWriteAddr, IsrCommitStatus, IsrFetchData, cacheVars, sharedVars, workerVars
  <2>2. <<"read", 0>> \in QueueEntry /\ ~IsReset(<<"read", 0>>)
    BY DEF QueueEntry, IsReset
  <2>3. QED
    BY <1>0, <2>1, <2>2, CyclesKeepOnce
<1>3. CASE HostTarget \/ HostCommandByte \/ HostParamByte \/ HostAccept
  <2>1. PICK e \in QueueEntry : Enqueue(e) /\ ~IsReset(e)
    <3>1. hp # "start"
      BY <1>3 DEF HostTarget, HostCommandByte, HostParamByte, HostAccept
    <3>2. /\ <<"target", Mine.target>> \in Byte
          /\ (IF step = 1 THEN <<"cdb", Current>> ELSE <<"fill", 0>>) \in Byte
          /\ <<"fill", 0>> \in Byte
      BY <1>0, <3>1 DEF Byte, Command
    <3>3. (\E b \in Byte : IsrWriteData(b)) \/ IsrCommitData
      BY <1>3, <3>2 DEF HostTarget, HostCommandByte, HostParamByte, HostAccept
    <3>4. /\ <<"read", 0>> \in QueueEntry /\ ~IsReset(<<"read", 0>>)
          /\ \A b \in Byte : <<"data", b>> \in QueueEntry /\ ~IsReset(<<"data", b>>)
      BY DEF QueueEntry, IsReset
    <3>5. QED
      BY <3>3, <3>4 DEF IsrWriteData, IsrCommitData
  <2>2. UNCHANGED <<todo, resetReq>> /\ hp \notin {"unreset", "settle"}
    BY <1>3 DEF HostTarget, HostCommandByte, HostParamByte, HostAccept, IsrWriteData,
       IsrCommitData, sharedVars, workerVars
  <2>3. QED
    BY <1>0, <2>1, <2>2, CyclesKeepOnce
<1>4. CASE HostReset
  <2>1. /\ hp = "reset" /\ hp' = "unreset" /\ todo' = todo
        /\ Enqueue(<<"control", {"RESET"}>>) /\ resetReq' = Flagged({"RESET"})
    BY <1>4 DEF HostReset, IsrWriteControl, workerVars
  <2>2. ~ResetQueued /\ ~ResetUnderWay /\ ~ResetUnderWay' /\ resetReq' = TRUE
    BY <2>1 DEF ResetOnce, ResetUnderWay, Flagged
  <2>3. \A i \in 1 .. Len(queue) : ~IsReset(queue[i])
    BY <2>2 DEF ResetQueued, IsReset
  <2>4. \A i, j \in 1 .. Len(queue') : IsReset(queue'[i]) /\ IsReset(queue'[j]) => i = j
    <3>1. CASE queue' = queue
      BY <2>3, <3>1
    <3>2. CASE queue' = Append(queue, <<"control", {"RESET"}>>)
      <4>1. <<"control", {"RESET"}>> \in QueueEntry
        BY DEF QueueEntry, ControlBits
      <4>2. /\ Len(queue') = Len(queue) + 1 /\ Len(queue) \in Nat
            /\ \A i \in 1 .. Len(queue) : queue'[i] = queue[i]
        BY <1>0, <3>2, <4>1 DEF SharedType
      <4>3. \A i \in 1 .. Len(queue') : IsReset(queue'[i]) => i = Len(queue) + 1
        BY <2>3, <4>2
      <4>4. QED
        BY <4>3
    <3>3. QED
      BY <2>1, <3>1, <3>2 DEF Enqueue
  <2>5. QED
    BY <2>1, <2>2, <2>4 DEF ResetOnce
<1>5. CASE HostSettled
  <2>1. UNCHANGED <<queue, todo, resetReq>> /\ queue = <<>> /\ todo = <<>>
    BY <1>5 DEF HostSettled, Quiet, cacheVars, sharedVars, workerVars
  <2>2. QED
    BY <2>1 DEF ResetOnce, ResetQueued, ResetUnderWay
<1>6. QED
  BY <1>1, <1>2, <1>3, <1>4, <1>5 DEF HostProgress

(* The answer to a RESET is planned once, when its entry is taken. *)
NoAnswer(s) == \A i \in 1 .. Len(s) : s[i] # <<"unreset", 0>>

(* The request is lowered by the answer alone, and then no RESET waits. *)
LEMMA StoreKeepsOnce ==
  ASSUME TypeOK, ResetOnce, WorkerStore
  PROVE  ResetOnce'
<1> DEFINE x == Head(todo)
           before == IF x[1] = "irq" /\ x[2] # irqPending THEN <<Line(x[2])>> ELSE <<>>
<1>1. /\ x \in StoreSet /\ todo # <<>> /\ todo \in Seq(StoreSet)
      /\ Tail(todo) \in Seq(StoreSet) /\ before \in Seq(StoreSet) /\ NoAnswer(before)
  <2>1. x \in StoreSet /\ todo # <<>> /\ todo \in Seq(StoreSet) /\ Tail(todo) \in Seq(StoreSet)
    BY SeqClosed DEF WorkerStore, WorkerType, TypeOK
  <2>2. x[1] = "irq" => x[2] \in BOOLEAN
    BY <2>1 DEF StoreSet
  <2>3. NoAnswer(before)
    BY DEF NoAnswer, Line
  <2>4. QED
    BY <2>1, <2>2, <2>3, IrqIsStore
<1>2. todo' = before \o Tail(todo) /\ UNCHANGED <<queue, hp>>
  BY DEF WorkerStore, hostVars
<1>3. resetReq' = IF x[1] = "unreset" THEN FALSE ELSE resetReq
  BY DEF WorkerStore, SharedStore
<1>4. ResetUnderWay' => ResetUnderWay
  <2> SUFFICES ASSUME ResetUnderWay' PROVE ResetUnderWay
    OBVIOUS
  <2> HIDE DEF before
  <2>1. PICK i \in 1 .. Len(todo') : todo'[i] = <<"unreset", 0>>
    BY DEF ResetUnderWay
  <2>2. ~(i \in 1 .. Len(before))
    BY <1>1, <1>2, <2>1 DEF NoAnswer
  <2>3. i - Len(before) \in 1 .. Len(Tail(todo)) /\ Tail(todo)[i - Len(before)] = <<"unreset", 0>>
    BY <1>1, <1>2, <2>1, <2>2
  <2>4. todo[i - Len(before) + 1] = <<"unreset", 0>> /\ i - Len(before) + 1 \in 1 .. Len(todo)
    BY <1>1, <2>3
  <2>5. QED
    BY <2>4 DEF ResetUnderWay
<1>5. x[1] = "unreset" => ResetUnderWay
  <2>1. x[1] = "unreset" => x = <<"unreset", 0>>
    BY <1>1 DEF StoreSet
  <2>2. x = todo[1] /\ 1 \in 1 .. Len(todo)
    BY <1>1
  <2>3. QED
    BY <2>1, <2>2 DEF ResetUnderWay
<1>6. QED
  BY <1>2, <1>3, <1>4, <1>5 DEF ResetOnce, ResetQueued

(* The entry that leaves the queue is the one RESET in it, or not a RESET at all. *)
LEMMA TakeKeepsOnce ==
  ASSUME TypeOK, ResetOnce, WorkerTake
  PROVE  ResetOnce'
<1> DEFINE e == Head(queue)
<1>1. /\ queue \in Seq(QueueEntry) /\ queue # <<>> /\ queue' = Tail(queue)
      /\ UNCHANGED <<resetReq, hp>> /\ todo = <<>>
  BY DEF WorkerTake, TypeOK, SharedType, sharedVars, hostVars
<1>2. /\ Len(queue) \in Nat /\ Len(queue) > 0 /\ Len(queue') = Len(queue) - 1
      /\ \A i \in 1 .. Len(queue') : queue'[i] = queue[i + 1]
      /\ e = queue[1] /\ 1 \in 1 .. Len(queue)
  BY <1>1
<1>3. /\ ResetQueued' => ResetQueued
      /\ \A i, j \in 1 .. Len(queue') : IsReset(queue'[i]) /\ IsReset(queue'[j]) => i = j
      /\ IsReset(e) => ~ResetQueued'
  <2>1. \A i \in 1 .. Len(queue') : i + 1 \in 1 .. Len(queue) /\ i + 1 # 1
    BY <1>2
  <2>2. ResetQueued' => ResetQueued
    BY <1>2, <2>1 DEF ResetQueued
  <2>3. \A i, j \in 1 .. Len(queue') : IsReset(queue'[i]) /\ IsReset(queue'[j]) => i = j
    BY <1>2, <2>1 DEF ResetOnce
  <2>4. IsReset(e) => ~ResetQueued'
    BY <1>2, <2>1 DEF ResetOnce, ResetQueued, IsReset
  <2>5. QED
    BY <2>2, <2>3, <2>4
<1>4. CASE IsReset(e)
  <2>1. ResetQueued
    BY <1>2, <1>4 DEF ResetQueued, IsReset
  <2>2. QED
    BY <1>1, <1>3, <1>4, <2>1 DEF ResetOnce
<1>5. CASE ~IsReset(e)
  <2>1. ~ResetUnderWay'
    <3>1. Ordinary(todo')
      BY <1>5, TakePlans
    <3>2. QED
      BY <3>1 DEF ResetUnderWay, Ordinary
  <2>2. QED
    BY <1>1, <1>3, <2>1 DEF ResetOnce
<1>6. QED
  BY <1>4, <1>5

(* As long as a RESET waits in the queue the request stands: a handler in its sector loop
   begins no other sector once it is through with the one whose turn it is, fetched from
   storage before or after the RESET came, and one that gets to the end of the loop
   neither syncs nor answers.  The host lets the board settle (Settle); one that does not
   can queue a second RESET, whose request the answer to the first one erases. *)
THEOREM AbortsOnResetAlways == ASSUME Settle PROVE Spec => AbortsOnReset
<1>1. Init => ResetOnce
  BY DEF Init, ResetOnce, ResetQueued, ResetUnderWay
<1>2. TypeOK /\ ResetOnce /\ [Next]_vars => ResetOnce'
  <2> SUFFICES ASSUME TypeOK, ResetOnce, [Next]_vars
               PROVE  ResetOnce'
    OBVIOUS
  <2>1. CASE HostProgress \/ HostTimeout
    BY <2>1, HostKeepsOnce
  <2>2. CASE Worker /\ ~WorkerStore /\ ~WorkerTake
    <3>1. todo = <<>> /\ UNCHANGED <<queue, resetReq, hp>> /\ Ordinary(todo')
      BY <2>2, HandlerPlans DEF Worker
    <3>2. ~ResetUnderWay'
      BY <3>1 DEF Ordinary, ResetUnderWay
    <3>3. QED
      BY <3>1, <3>2 DEF ResetOnce, ResetQueued
  <2>3. CASE UNCHANGED vars
    BY <2>3 DEF vars, cacheVars, sharedVars, workerVars, hostVars, ResetOnce, ResetQueued, ResetUnderWay
  <2>4. QED
    BY <2>1, <2>2, <2>3, StoreKeepsOnce, TakeKeepsOnce DEF Next
<1>3. ResetOnce /\ [Next]_vars => [ResetQueued => /\ pc = "loop" => pc' = "check"
                                                  /\ pc = "check" => pc' = "idle"]_pc
  <2> SUFFICES ASSUME ResetOnce, [Next]_vars, ResetQueued, pc # pc', pc \in {"loop", "check"}
               PROVE  pc' = IF pc = "loop" THEN "check" ELSE "idle"
    OBVIOUS
  <2>1. resetReq = TRUE
    BY DEF ResetOnce
  <2>2. SectorBegin => pc = "loop" /\ pc' = "check"
    BY <2>1 DEF SectorBegin, WorkerAt
  <2>3. CheckReset => pc = "check" /\ pc' = "idle"
    BY <2>1 DEF CheckReset, WorkerAt
  <2>4. ~(HostProgress \/ HostTimeout) /\ ~(UNCHANGED vars)
    BY DEF HostProgress, HostTimeout, HostBegin, HostAddress, HostPoll, HostPolled, HostTarget, HostSelect,
       HostDeselect, HostCommandByte, HostParamByte, HostReadData, HostAccept, HostReset, HostUnreset,
       HostSettled, workerVars, vars
  <2>5. ~(Route \/ Burst \/ BurstDone \/ Snapshot \/ FetchSector \/ Transfer \/ StoreSector \/ Sync \/ Finish)
    BY DEF Route, Burst, BurstDone, Snapshot, FetchSector, Transfer, StoreSector, Sync, Finish, WorkerAt
  <2>6. ~WorkerStore /\ ~WorkerTake
    BY DEF WorkerStore, WorkerTake
  <2>7. QED
    BY <2>2, <2>3, <2>4, <2>5, <2>6 DEF Next, Worker
<1>4. QED
  BY <1>1, <1>2, <1>3, TypeCorrect, PTL DEF Spec, AbortsOnReset

-----------------------------------------------------------------------------
(* The phases are what their names say: ... *)
LEMMA BusAtPhase ==
  /\ BusAt(0) \cap StatusBits = StatusPhase
  /\ BusAt(1) \cap StatusBits = MessagePhase
  /\ \A i \in 2 .. 4 : BusAt(i) = {} /\ BusAt(i) \cap StatusBits = BusFree
  /\ BusAt(5) \cap StatusBits = Selection
  /\ \A i \in Nat : i > 5 => BusAt(i) = CommandPhase /\ BusAt(i) \cap StatusBits = CommandPhase
<1> USE DEF BusAt, StatusPhase, MessagePhase, BusFree, Selection, CommandPhase, StatusBits
<1>1. BusAt(0) \cap StatusBits = StatusPhase
  OBVIOUS
<1>2. BusAt(1) \cap StatusBits = MessagePhase
  OBVIOUS
<1>3. \A i \in 2 .. 4 : BusAt(i) = {} /\ BusAt(i) \cap StatusBits = BusFree
  OBVIOUS
<1>4. BusAt(5) \cap StatusBits = Selection
  OBVIOUS
<1>5. \A i \in Nat : i > 5 => BusAt(i) = CommandPhase /\ BusAt(i) \cap StatusBits = CommandPhase
  OBVIOUS
<1>6. QED
  BY <1>1, <1>2, <1>3, <1>4, <1>5

(* ... with SEL and ACK, which STATUS does not show, as well, ... *)
LEMMA BusValues ==
  /\ BusAt(0) = StatusPhase /\ BusAt(1) = MessagePhase
  /\ BusAt(2) = {} /\ BusAt(3) = {} /\ BusAt(4) = {}
  /\ BusAt(5) = {"SEL", "BSY"} /\ BusAt(6) = CommandPhase
BY DEF BusAt, BusFree

(* ... they differ, ... *)
LEMMA PhasesDiffer ==
  /\ CommandPhase \notin PlainBus /\ ParamPhase \notin PlainBus
  /\ StatusPhase \notin PlainBus /\ MessagePhase \notin PlainBus /\ BusFree \notin PlainBus
  /\ StatusPhase \notin {CommandPhase, ParamPhase, MessagePhase, BusFree, Selection}
  /\ MessagePhase \notin {CommandPhase, ParamPhase, BusFree, Selection}
  /\ CommandPhase \notin {ParamPhase, BusFree, Selection}
  /\ ParamPhase \notin {BusFree, Selection}
  /\ Selection # BusFree
<1>1. /\ "INP" \in StatusPhase /\ "REQ" \in StatusPhase /\ "MSG" \notin StatusPhase
      /\ "MSG" \in MessagePhase
      /\ "INP" \notin CommandPhase /\ "REQ" \in CommandPhase /\ "CTL" \in CommandPhase
      /\ "MSG" \notin CommandPhase
      /\ "INP" \notin ParamPhase /\ "REQ" \in ParamPhase /\ "CTL" \notin ParamPhase
      /\ "MSG" \notin ParamPhase
      /\ "REQ" \notin BusFree /\ "MSG" \notin BusFree /\ "BSY" \notin BusFree
      /\ "REQ" \notin Selection /\ "MSG" \notin Selection /\ "BSY" \in Selection
  BY DEF StatusPhase, MessagePhase, CommandPhase, ParamPhase, BusFree, Selection
<1>2. \A b \in PlainBus : "REQ" \notin b /\ "MSG" \notin b /\ "BSY" \in b
  BY DEF PlainBus, Taking
<1>3. QED
  BY <1>1, <1>2

(* ... and the requests of the worker lead to them. *)
LEMMA Requests ==
  /\ \A b : b \ {"ACK"} \in PlainBus =>
       /\ ReqStatus(b) = StatusPhase
       /\ b \cap StatusBits = b \ {"ACK"}
       /\ Busy(b) \in PlainBus /\ Busy(b) \ {"ACK"} \in PlainBus
       /\ DataIn(b) \in PlainBus /\ DataIn(b) \ {"ACK"} \in PlainBus
       /\ DataOut(b) \in PlainBus /\ DataOut(b) \ {"ACK"} \in PlainBus
       /\ ReqParam(b) = ParamPhase
  /\ \A b \in PlainBus : b \cap StatusBits = b /\ "REQ" \notin b
  /\ ReqCommand({"BSY", "CTL", "ACK"}) = CommandPhase
  /\ ReqParam({"BSY", "ACK"}) = ParamPhase
  /\ (CommandPhase \ {"REQ"}) \cup {"ACK"} = {"BSY", "CTL", "ACK"}
  /\ (ParamPhase \ {"REQ"}) \cup {"ACK"} = {"BSY", "ACK"}
  /\ {"BSY", "CTL", "ACK"} \ {"ACK"} = Taking /\ {"BSY", "CTL", "ACK"} \cap StatusBits = Taking
  /\ {"BSY", "ACK"} \ {"ACK"} = {"BSY"} /\ {"BSY", "ACK"} \cap StatusBits = {"BSY"}
  /\ Acknowledged(CommandPhase) = Taking /\ Acknowledged(ParamPhase) = {"BSY"}
  /\ CommandPhase \cap StatusBits = CommandPhase /\ ParamPhase \cap StatusBits = ParamPhase
  /\ StatusPhase \cap StatusBits = StatusPhase
<1> USE DEF Taking, StatusPhase, CommandPhase, ParamPhase, StatusBits
<1>1. ASSUME NEW b, b \ {"ACK"} \in PlainBus
      PROVE  /\ ReqStatus(b) = StatusPhase
             /\ b \cap StatusBits = b \ {"ACK"}
             /\ Busy(b) \in PlainBus /\ Busy(b) \ {"ACK"} \in PlainBus
             /\ DataIn(b) \in PlainBus /\ DataIn(b) \ {"ACK"} \in PlainBus
             /\ DataOut(b) \in PlainBus /\ DataOut(b) \ {"ACK"} \in PlainBus
             /\ ReqParam(b) = ParamPhase
  <2>1. /\ "BSY" \in b
        /\ \A x : x \in b => x \in {"BSY", "CTL", "INP", "ACK"}
        /\ ~("CTL" \in b /\ "INP" \in b)
    BY <1>1 DEF PlainBus
  <2>2. ReqStatus(b) = StatusPhase
    BY <2>1 DEF ReqStatus
  <2>3. b \cap StatusBits = b \ {"ACK"}
    BY <2>1
  <2>4. Busy(b) = {"BSY", "CTL"} /\ Busy(b) \ {"ACK"} = {"BSY", "CTL"}
    BY <2>1 DEF Busy
  <2>5. DataIn(b) = {"BSY", "INP"} /\ DataIn(b) \ {"ACK"} = {"BSY", "INP"}
    BY <2>1 DEF DataIn
  <2>6. DataOut(b) = {"BSY"} /\ DataOut(b) \ {"ACK"} = {"BSY"}
    BY <2>1 DEF DataOut
  <2>7. ReqParam(b) = ParamPhase
    BY <2>1 DEF ReqParam
  <2>8. QED
    BY <2>2, <2>3, <2>4, <2>5, <2>6, <2>7 DEF PlainBus
<1>2. \A b \in PlainBus : b \cap StatusBits = b /\ "REQ" \notin b
  BY DEF PlainBus
<1>3. ReqCommand({"BSY", "CTL", "ACK"}) = CommandPhase /\ ReqParam({"BSY", "ACK"}) = ParamPhase
  BY DEF ReqCommand, ReqParam
<1>4. /\ (CommandPhase \ {"REQ"}) \cup {"ACK"} = {"BSY", "CTL", "ACK"}
      /\ (ParamPhase \ {"REQ"}) \cup {"ACK"} = {"BSY", "ACK"}
  OBVIOUS
<1>5. /\ {"BSY", "CTL", "ACK"} \ {"ACK"} = Taking /\ {"BSY", "CTL", "ACK"} \cap StatusBits = Taking
      /\ {"BSY", "ACK"} \ {"ACK"} = {"BSY"} /\ {"BSY", "ACK"} \cap StatusBits = {"BSY"}
  OBVIOUS
<1>6. Acknowledged(CommandPhase) = Taking /\ Acknowledged(ParamPhase) = {"BSY"}
  BY DEF Acknowledged
<1>7. /\ CommandPhase \cap StatusBits = CommandPhase /\ ParamPhase \cap StatusBits = ParamPhase
      /\ StatusPhase \cap StatusBits = StatusPhase
  OBVIOUS
<1>8. QED
  BY <1>1, <1>2, <1>3, <1>4, <1>5, <1>6, <1>7

-----------------------------------------------------------------------------
(* The plan after its head is made: the rest of it, or the pin in place of a latch
   that has changed. *)
Remains(s, t) ==
  \/ Len(t) = Len(s) - 1 /\ \A i \in 1 .. Len(t) : t[i] = s[i + 1]
  \/ /\ Len(t) = Len(s) /\ s[1][1] = "irq" /\ t[1][1] = "line"
     /\ \A i \in 2 .. Len(t) : t[i] = s[i]

(* A store leaves what remains of the plan (WorkerStore). *)
LEMMA StoreRemains ==
  ASSUME TypeOK, WorkerStore
  PROVE  /\ Len(todo) \in Nat /\ Len(todo) > 0 /\ Len(todo') \in Nat
         /\ Remains(todo, todo')
<1> DEFINE x == Head(todo)
           before == IF x[1] = "irq" /\ x[2] # irqPending THEN <<Line(x[2])>> ELSE <<>>
<1>1. todo \in Seq(StoreSet) /\ todo # <<>> /\ x \in StoreSet /\ Tail(todo) \in Seq(StoreSet)
  BY SeqClosed DEF WorkerStore, TypeOK, WorkerType
<1>2. todo' = before \o Tail(todo)
  BY DEF WorkerStore
<1>3. CASE x[1] = "irq" /\ x[2] # irqPending
  <2>1. todo' = <<Line(x[2])>> \o Tail(todo)
    BY <1>2, <1>3
  <2>2. x[2] \in BOOLEAN
    BY <1>1, <1>3 DEF StoreSet
  <2>3. Line(x[2]) \in StoreSet /\ Line(x[2])[1] = "line"
    BY <2>2, IrqIsStore DEF Line
  <2>4. /\ Len(todo') = Len(todo) /\ todo'[1] = Line(x[2])
        /\ \A i \in 2 .. Len(todo') : todo'[i] = todo[i]
    <3> HIDE DEF x
    <3>1. QED
      BY <1>1, <2>1, <2>3
  <2>5. QED
    BY <1>1, <1>3, <2>3, <2>4 DEF Remains
<1>4. CASE ~(x[1] = "irq" /\ x[2] # irqPending)
  <2>1. todo' = Tail(todo)
    BY <1>1, <1>2, <1>4
  <2>2. QED
    BY <1>1, <2>1 DEF Remains
<1>5. QED
  BY <1>3, <1>4

(* What is said of all stores of a plan stays true, ... *)
LEMMA RemainsOnly ==
  ASSUME NEW s, NEW t, Len(s) \in Nat, Len(t) \in Nat, Len(s) > 0, Remains(s, t)
  PROVE  /\ \A K : Only(s, K) /\ ("irq" \in K => "line" \in K) => Only(t, K)
         /\ \A X : Among(s, X) => Among(t, X)
<1>1. ASSUME NEW i \in 1 .. Len(t)
      PROVE  \/ i + 1 \in 1 .. Len(s) /\ t[i] = s[i + 1]
             \/ i \in 1 .. Len(s) /\ t[i] = s[i]
             \/ i = 1 /\ t[1][1] = "line" /\ 1 \in 1 .. Len(s) /\ s[1][1] = "irq"
  BY DEF Remains
<1>2. ASSUME NEW K, Only(s, K), "irq" \in K => "line" \in K PROVE Only(t, K)
  BY <1>1, <1>2 DEF Only
<1>3. ASSUME NEW X, Among(s, X) PROVE Among(t, X)
  BY <1>1, <1>3 DEF Among
<1>4. QED
  BY <1>2, <1>3

(* ... so does what the cache will read in the end, ... *)
LEMMA RemainsLeads ==
  ASSUME NEW s, NEW t, Len(s) \in Nat, Len(t) \in Nat, Len(s) > 0, Remains(s, t),
         NEW c, NEW b, LeadsTo(c, s, b)
  PROVE  LeadsTo(IF s[1][1] = "stat" THEN s[1][2] ELSE c, t, b)
<1>1. CASE Len(t) = Len(s) - 1 /\ \A i \in 1 .. Len(t) : t[i] = s[i + 1]
  <2>1. \A i \in 1 .. Len(t) : i + 1 \in 1 .. Len(s) /\ t[i] = s[i + 1]
    BY <1>1
  <2>2. \A i \in 1 .. Len(s) : i = 1 \/ (i - 1 \in 1 .. Len(t) /\ s[i] = t[i - 1])
    BY <1>1
  <2>3. ASSUME \A i \in 1 .. Len(t) : t[i][1] # "stat"
        PROVE  (IF s[1][1] = "stat" THEN s[1][2] ELSE c) = b
    <3>1. \A i \in 1 .. Len(s) : 1 < i => s[i][1] # "stat"
      BY <2>2, <2>3
    <3>2. CASE s[1][1] = "stat"
      BY <3>1, <3>2 DEF LeadsTo
    <3>3. CASE s[1][1] # "stat"
      BY <3>1, <3>3 DEF LeadsTo
    <3>4. QED
      BY <3>2, <3>3
  <2>4. ASSUME NEW i \in 1 .. Len(t), t[i][1] = "stat",
               \A j \in 1 .. Len(t) : i < j => t[j][1] # "stat"
        PROVE  t[i][2] = b
    <3>1. i + 1 \in 1 .. Len(s) /\ s[i + 1] = t[i]
      BY <2>1
    <3>2. \A j \in 1 .. Len(s) : i + 1 < j => s[j][1] # "stat"
      BY <2>2, <2>4
    <3>3. QED
      BY <2>4, <3>1, <3>2 DEF LeadsTo
  <2>5. QED
    BY <2>3, <2>4 DEF LeadsTo
<1>2. CASE /\ Len(t) = Len(s) /\ s[1][1] = "irq" /\ t[1][1] = "line"
           /\ \A i \in 2 .. Len(t) : t[i] = s[i]
  <2>1. \A i \in 1 .. Len(s) : (t[i][1] = "stat") <=> (s[i][1] = "stat")
    BY <1>2
  <2>2. \A i \in 1 .. Len(s) : t[i][1] = "stat" => t[i] = s[i]
    BY <1>2
  <2>3. QED
    BY <1>2, <2>1, <2>2 DEF LeadsTo
<1>3. QED
  BY <1>1, <1>2 DEF Remains

(* ... and that the status phase is announced last. *)
LEMMA RemainsAnnounces ==
  ASSUME NEW s, NEW t, Len(s) \in Nat, Len(t) \in Nat, Len(s) > 0, Remains(s, t),
         NEW c, Announces(c, s), Among(s, {{"BSY"}, StatusPhase}),
         s[1][1] = "stat" => s[1] = <<"stat", s[1][2]>>
  PROVE  Announces(IF s[1][1] = "stat" THEN s[1][2] ELSE c, t)
<1> DEFINE cc == IF s[1][1] = "stat" THEN s[1][2] ELSE c
<1>0. {"BSY"} # ParamPhase /\ StatusPhase # ParamPhase
  <2>1. {"BSY"} # ParamPhase
    BY DEF ParamPhase
  <2>2. QED
    BY <2>1, PhasesDiffer
<1>1. CASE Len(t) = Len(s) - 1 /\ \A i \in 1 .. Len(t) : t[i] = s[i + 1]
  <2>1. \A i \in 1 .. Len(t) : i + 1 \in 1 .. Len(s) /\ 1 < i + 1 /\ t[i] = s[i + 1]
    BY <1>1
  <2>2. \A i \in 1 .. Len(s) : i = 1 \/ (i - 1 \in 1 .. Len(t) /\ s[i] = t[i - 1])
    BY <1>1
  <2>3. ASSUME NEW i \in 1 .. Len(t), NEW j \in 1 .. Len(t), i < j, t[i] = <<"stat", StatusPhase>>
        PROVE  t[j][1] \in {"irq", "line"}
    BY <2>1, <2>3 DEF Announces
  <2>4. ASSUME cc = StatusPhase
        PROVE  Silent(t)
    <3>1. CASE s[1][1] = "stat"
      <4>1. s[1] = <<"stat", StatusPhase>> /\ 1 \in 1 .. Len(s)
        BY <2>4, <3>1
      <4>2. QED
        BY <4>1, <2>1 DEF Announces, Silent, Only
    <3>2. CASE s[1][1] # "stat"
      <4>1. Silent(s)
        BY <2>4, <3>2 DEF Announces
      <4>2. QED
        BY <4>1, <2>1 DEF Silent, Only
    <3>3. QED
      BY <3>1, <3>2
  <2>5. ASSUME cc = ParamPhase, NEW j \in 1 .. Len(t), t[j] = <<"stat", StatusPhase>>
        PROVE  \E i \in 1 .. Len(t) : i < j /\ t[i][1] = "stat"
    <3>1. s[1][1] # "stat"
      BY <1>0, <2>5 DEF Among
    <3>2. PICK i \in 1 .. Len(s) : i < j + 1 /\ s[i][1] = "stat"
      BY <2>1, <2>5, <3>1 DEF Announces
    <3>3. i - 1 \in 1 .. Len(t) /\ t[i - 1] = s[i] /\ i - 1 < j
      BY <3>1, <3>2, <2>2
    <3>4. QED
      BY <3>2, <3>3
  <2>6. QED
    BY <2>3, <2>4, <2>5 DEF Announces
<1>2. CASE /\ Len(t) = Len(s) /\ s[1][1] = "irq" /\ t[1][1] = "line"
           /\ \A i \in 2 .. Len(t) : t[i] = s[i]
  <2>1. cc = c
    BY <1>2
  <2>2. \A i \in 1 .. Len(s) : i = 1 \/ t[i] = s[i]
    BY <1>2
  <2>3. ASSUME NEW i \in 1 .. Len(t), NEW j \in 1 .. Len(t), i < j, t[i] = <<"stat", StatusPhase>>
        PROVE  t[j][1] \in {"irq", "line"}
    <3>1. i # 1 /\ j # 1
      BY <1>2, <2>3
    <3>2. QED
      BY <1>2, <2>2, <2>3, <3>1 DEF Announces
  <2>4. ASSUME cc = StatusPhase
        PROVE  Silent(t)
    BY <1>2, <2>1, <2>2, <2>4 DEF Announces, Silent, Only
  <2>5. ASSUME cc = ParamPhase, NEW j \in 1 .. Len(t), t[j] = <<"stat", StatusPhase>>
        PROVE  \E i \in 1 .. Len(t) : i < j /\ t[i][1] = "stat"
    <3>1. j # 1 /\ j \in 1 .. Len(s) /\ s[j] = t[j]
      BY <1>2, <2>2, <2>5
    <3>2. PICK i \in 1 .. Len(s) : i < j /\ s[i][1] = "stat"
      BY <2>1, <2>5, <3>1 DEF Announces
    <3>3. i # 1
      BY <3>2, <1>2
    <3>4. QED
      BY <3>2, <3>3, <2>2, <1>2
  <2>6. QED
    BY <2>3, <2>4, <2>5 DEF Announces
<1>3. QED
  BY <1>1, <1>2 DEF Remains

-----------------------------------------------------------------------------
(* What a store leaves alone, and what the one to the phase and the one to the
   status byte change. *)
LEMMA StoreFrame ==
  ASSUME TypeOK, WorkerStore
  PROVE  /\ UNCHANGED <<queue, drops, dma, pc, hp, latch, step, issued, resets>>
         /\ w'.index = w.index /\ w'.cdb = w.cdb /\ w'.block = w.block /\ w'.ok = w.ok
         /\ w'.wrote = w.wrote /\ w'.synced = w.synced /\ w'.loc = w.loc
         /\ todo # <<>> /\ todo[1] \in StoreSet
         /\ cache'.stat = IF todo[1][1] = "stat" THEN todo[1][2] ELSE cache.stat
         /\ cache'.sel = cache.sel
         /\ status' = IF todo[1][1] = "status" THEN todo[1][2] ELSE status
<1>1. todo # <<>> /\ Head(todo) = todo[1] /\ todo[1] \in StoreSet
  BY SeqClosed DEF WorkerStore, TypeOK, WorkerType
<1>2. UNCHANGED <<queue, drops, dma, pc, hp, latch, step, issued, resets>>
  BY DEF WorkerStore, hostVars
<1>3. /\ w'.index = w.index /\ w'.cdb = w.cdb /\ w'.block = w.block /\ w'.ok = w.ok
      /\ w'.wrote = w.wrote /\ w'.synced = w.synced /\ w'.loc = w.loc
  BY DEF WorkerStore, TypeOK, WorkerType, LocalsType
<1>4. CacheStore(todo[1]) /\ SharedStore(todo[1])
  BY <1>1 DEF WorkerStore
<1>5. /\ cache'.stat = IF todo[1][1] = "stat" THEN todo[1][2] ELSE cache.stat
      /\ cache'.sel = cache.sel
  BY <1>1, <1>4 DEF CacheStore, TypeOK, SharedType
<1>6. status' = IF todo[1][1] = "status" THEN todo[1][2] ELSE status
  BY <1>4 DEF SharedStore
<1>7. QED
  BY <1>1, <1>2, <1>3, <1>5, <1>6

(* A store of the worker leaves it where it is. *)
LEMMA StoreKeepsTaken ==
  ASSUME TypeOK, WorkerStore, NEW i \in Nat, Taken(i)
  PROVE  Taken(i)'
<1> DEFINE c == IF todo[1][1] = "stat" THEN todo[1][2] ELSE cache.stat
<1>1. /\ Len(todo) \in Nat /\ Len(todo) > 0 /\ Len(todo') \in Nat
      /\ Remains(todo, todo')
  BY StoreRemains
<1>2. /\ UNCHANGED <<queue, dma, pc, issued>> /\ w'.index = w.index /\ w'.cdb = w.cdb
      /\ cache'.stat = c /\ todo[1] \in StoreSet
      /\ status' = IF todo[1][1] = "status" THEN todo[1][2] ELSE status
  BY StoreFrame
<1>3. /\ Mine' = Mine /\ Current' = Current /\ (Asks <=> Asks') /\ Final' = Final
  BY <1>2 DEF Mine, Current, Asks, Final
<1>4. 1 \in 1 .. Len(todo) /\ Len(todo) > 0
  BY <1>1
<1>5. ASSUME i <= 6, Preparing(i) PROVE Preparing(i)'
  <2>1. Silent(todo')
    BY <1>1, <1>5, RemainsOnly DEF Preparing, Silent
  <2>2. QED
    BY <1>2, <1>3, <1>5, <2>1 DEF Preparing
<1>6. ASSUME Receiving(i) PROVE Receiving(i)'
  <2>1. Only(todo', {"stat", "irq", "line"}) /\ Among(todo', {Taking, CommandPhase})
    BY <1>1, <1>6, RemainsOnly DEF Receiving
  <2>2. c \in {Taking, CommandPhase}
    BY <1>4, <1>6 DEF Receiving, Among
  <2>3. QED
    BY <1>2, <1>6, <2>1, <2>2 DEF Receiving
<1>7. ASSUME Executing PROVE Executing'
  <2>1. Only(todo', {"stat"}) /\ Among(todo', PlainBus) /\ c \in PlainBus
    BY <1>1, <1>4, <1>7, RemainsOnly DEF Executing, Among, Only
  <2>2. c # CommandPhase
    BY <2>1, PhasesDiffer
  <2>3. QED
    BY <1>2, <1>3, <1>7, <2>1, <2>2 DEF Executing
<1>8. ASSUME Asking(i) PROVE Asking(i)'
  <2>1. Only(todo', {"stat", "irq", "line"}) /\ Among(todo', {{"BSY"}, ParamPhase})
    BY <1>1, <1>8, RemainsOnly DEF Asking
  <2>2. c \in PlainBus \cup {ParamPhase}
    BY <1>4, <1>8 DEF Asking, Among, PlainBus
  <2>3. QED
    BY <1>2, <1>3, <1>8, <2>1, <2>2 DEF Asking
<1>9. ASSUME Answering PROVE Answering'
  <2>1. Only(todo', AnswerKinds) /\ Among(todo', {{"BSY"}, StatusPhase})
    BY <1>1, <1>9, RemainsOnly DEF Answering, AnswerKinds
  <2>2. c \in PlainBus \cup {ParamPhase, StatusPhase}
    BY <1>4, <1>9 DEF Answering, Among, PlainBus
  <2>3. Announces(c, todo')
    <3>1. todo[1][1] = "stat" => todo[1] = <<"stat", todo[1][2]>>
      BY <1>2 DEF StoreSet
    <3>2. QED
      BY <1>1, <1>9, <3>1, RemainsAnnounces DEF Answering
  <2>4. Executed' <=> Executed
    BY <1>2, StoreFrame DEF Mine, Current, Executed
  <2>5. ASSUME NEW j \in 1 .. Len(todo'), todo'[j][1] = "status"
        PROVE  RightVerdict(todo'[j][2])
    <3>1. \/ j + 1 \in 1 .. Len(todo) /\ todo'[j] = todo[j + 1]
          \/ j \in 1 .. Len(todo) /\ todo'[j] = todo[j]
      BY <1>1, <2>5 DEF Remains
    <3>2. QED
      BY <1>9, <2>5, <3>1 DEF Answering
  <2>6. ASSUME \A j \in 1 .. Len(todo') : todo'[j][1] # "status"
        PROVE  RightVerdict(status')
    <3>1. CASE todo[1][1] = "status"
      BY <1>2, <1>4, <1>9, <3>1 DEF Answering
    <3>2. CASE todo[1][1] # "status"
      <4>1. ASSUME NEW j \in 1 .. Len(todo) PROVE todo[j][1] # "status"
        <5>1. \/ j = 1
              \/ j - 1 \in 1 .. Len(todo') /\ todo[j] = todo'[j - 1]
              \/ j \in 1 .. Len(todo') /\ todo[j] = todo'[j]
          BY <1>1 DEF Remains
        <5>2. QED
          BY <2>6, <3>2, <5>1
      <4>2. QED
        BY <1>2, <1>9, <3>2, <4>1 DEF Answering
    <3>3. QED
      BY <3>1, <3>2
  <2>7. (\A j \in 1 .. Len(todo') : todo'[j][1] # "status") => (RightVerdict(status))'
    <3>1. RightVerdict(status') => (RightVerdict(status))'
      BY <1>3, <2>4 DEF RightVerdict
    <3>2. QED
      BY <2>6, <3>1
  <2>8. \A j \in 1 .. Len(todo') : todo'[j][1] = "status" => (RightVerdict(todo[j][2]))'
    <3>1. ASSUME NEW j \in 1 .. Len(todo'), RightVerdict(todo'[j][2])
          PROVE  (RightVerdict(todo[j][2]))'
      BY <1>3, <2>4, <3>1 DEF RightVerdict
    <3>2. QED
      BY <2>5, <3>1
  <2>9. QED
    BY <1>2, <1>9, <2>1, <2>2, <2>3, <2>7, <2>8 DEF Answering
<1>10. QED
  BY <1>2, <1>3, <1>5, <1>6, <1>7, <1>8, <1>9 DEF Taken

(* The addresses stay mirrored: a byte is loaded and stored in one go, and what the
   write-back has changed is still to be mirrored. *)
LEMMA StoreKeepsMirroring ==
  ASSUME TypeOK, WorkerStore, Mirroring(cache.addr, todo)
  PROVE  Mirroring(cache.addr, todo)'
<1> DEFINE x == todo[1]
<1>1. /\ Len(todo) \in Nat /\ Len(todo) > 0 /\ Len(todo') \in Nat
      /\ Remains(todo, todo')
  BY StoreRemains
<1>2. x \in StoreSet /\ Head(todo) = x
  BY StoreFrame DEF TypeOK, WorkerType
<1>3. CacheStore(x) /\ SharedStore(x)
  BY <1>2 DEF WorkerStore
<1>4. /\ w' = IF x[1] = "load" THEN [w EXCEPT !.byte = addr[x[2]]]
              ELSE IF x[1] = "sync" THEN [w EXCEPT !.byte = [prog |-> 0, off |-> 0]] ELSE w
  BY <1>2 DEF WorkerStore
<1>5. addr' = IF x[1] = "addr" THEN x[2] ELSE addr
  BY <1>3 DEF SharedStore
<1>6. /\ x[1] = "sync" => x[2] \in Lane /\ x = <<"sync", x[2]>> /\ cache'.addr = [cache.addr EXCEPT ![x[2]] = w.byte]
      /\ x[1] # "sync" => cache'.addr = cache.addr
  BY <1>2, <1>3 DEF CacheStore, TypeOK, SharedType, StoreSet
<1>7. cache.addr \in Address /\ DOMAIN cache.addr = Lane
  BY DEF TypeOK, SharedType, Address
<1>8. \A i \in 1 .. Len(todo') : \/ i + 1 \in 1 .. Len(todo) /\ todo'[i] = todo[i + 1]
                                 \/ i \in 1 .. Len(todo) /\ i # 1 /\ todo'[i] = todo[i]
                                 \/ i = 1 /\ todo'[i][1] = "line"
  BY <1>1 DEF Remains
<1>9. \A i \in 1 .. Len(todo) : \/ i = 1
                                \/ i - 1 \in 1 .. Len(todo') /\ todo[i] = todo'[i - 1]
                                \/ i \in 1 .. Len(todo') /\ todo[i] = todo'[i]
  BY <1>1 DEF Remains
<1>10. ASSUME NEW l \in Lane
       PROVE  cache'.addr[l] = addr'[l] \/ \E i \in 1 .. Len(todo') : todo'[i] = <<"sync", l>>
  <2>1. CASE x[1] = "addr"
    <3>1. PICK j \in 1 .. Len(todo) : 1 < j /\ todo[j] = <<"sync", l>>
      <4>1. 1 \in 1 .. Len(todo) /\ todo[1][1] = "addr"
        BY <1>1, <2>1
      <4>2. QED
        BY <4>1 DEF Mirroring
    <3>2. QED
      BY <1>9, <3>1
  <2>2. CASE x[1] = "sync"
    <3>1. w.byte = addr[x[2]] /\ addr' = addr
      BY <1>1, <1>5, <2>2 DEF Mirroring
    <3>2. CASE l = x[2]
      BY <1>6, <1>7, <2>2, <3>1, <3>2
    <3>3. CASE l # x[2]
      <4>1. cache'.addr[l] = cache.addr[l]
        BY <1>6, <1>7, <2>2, <3>3
      <4>2. CASE cache.addr[l] = addr[l]
        BY <3>1, <4>1, <4>2
      <4>3. CASE \E i \in 1 .. Len(todo) : todo[i] = <<"sync", l>>
        <5>1. PICK i \in 1 .. Len(todo) : todo[i] = <<"sync", l>>
          BY <4>3
        <5>2. i # 1
          BY <1>6, <2>2, <3>3, <5>1
        <5>3. QED
          BY <1>9, <5>1, <5>2
      <4>4. QED
        BY <4>2, <4>3 DEF Mirroring
    <3>4. QED
      BY <3>2, <3>3
  <2>3. CASE x[1] \notin {"addr", "sync"}
    <3>1. cache'.addr = cache.addr /\ addr' = addr
      BY <1>5, <1>6, <2>3
    <3>2. CASE cache.addr[l] = addr[l]
      BY <3>1, <3>2
    <3>3. CASE \E i \in 1 .. Len(todo) : todo[i] = <<"sync", l>>
      <4>1. PICK i \in 1 .. Len(todo) : todo[i] = <<"sync", l>>
        BY <3>3
      <4>2. i # 1
        BY <2>3, <4>1
      <4>3. QED
        BY <1>9, <4>1, <4>2
    <3>4. QED
      BY <3>2, <3>3 DEF Mirroring
  <2>4. QED
    BY <2>1, <2>2, <2>3
<1>11. ASSUME NEW i \in 1 .. Len(todo'), todo'[i][1] = "sync"
       PROVE  IF i = 1 THEN w'.byte = addr'[todo'[i][2]] ELSE todo'[i - 1] = <<"load", todo'[i][2]>>
  <2>1. CASE Len(todo') = Len(todo) - 1 /\ \A j \in 1 .. Len(todo') : todo'[j] = todo[j + 1]
    <3>1. i + 1 \in 1 .. Len(todo) /\ todo'[i] = todo[i + 1] /\ todo[i] = <<"load", todo[i + 1][2]>>
      BY <1>1, <1>11, <2>1 DEF Mirroring
    <3>2. CASE i = 1
      <4>1. x = <<"load", todo'[i][2]>>
        BY <3>1, <3>2
      <4>2. w' = [w EXCEPT !.byte = addr[todo'[i][2]]] /\ addr' = addr
        BY <1>4, <1>5, <4>1
      <4>3. w'.byte = addr[todo'[i][2]]
        BY <4>2 DEF TypeOK, WorkerType, LocalsType
      <4>4. QED
        BY <3>2, <4>2, <4>3
    <3>3. CASE i # 1
      <4>1. i - 1 \in 1 .. Len(todo') /\ todo'[i - 1] = todo[i]
        BY <2>1, <3>3, <1>1
      <4>2. QED
        BY <3>1, <3>3, <4>1
    <3>4. QED
      BY <3>2, <3>3
  <2>2. CASE /\ Len(todo') = Len(todo) /\ todo[1][1] = "irq" /\ todo'[1][1] = "line"
             /\ \A j \in 2 .. Len(todo') : todo'[j] = todo[j]
    <3>1. i \in 2 .. Len(todo') /\ todo'[i] = todo[i] /\ todo[i - 1] = <<"load", todo[i][2]>>
      BY <1>1, <1>11, <2>2 DEF Mirroring
    <3>2. i - 1 # 1 /\ i - 1 \in 2 .. Len(todo')
      BY <1>1, <2>2, <3>1
    <3>3. QED
      BY <2>2, <3>1, <3>2
  <2>3. QED
    BY <1>1, <2>1, <2>2 DEF Remains
<1>12. ASSUME NEW i \in 1 .. Len(todo'), todo'[i][1] = "addr", NEW l \in Lane
       PROVE  \E j \in 1 .. Len(todo') : i < j /\ todo'[j] = <<"sync", l>>
  <2>1. CASE Len(todo') = Len(todo) - 1 /\ \A j \in 1 .. Len(todo') : todo'[j] = todo[j + 1]
    <3>1. i + 1 \in 1 .. Len(todo) /\ todo[i + 1][1] = "addr"
      BY <1>1, <1>12, <2>1
    <3>2. PICK j \in 1 .. Len(todo) : i + 1 < j /\ todo[j] = <<"sync", l>>
      BY <3>1 DEF Mirroring
    <3>3. j - 1 \in 1 .. Len(todo') /\ todo'[j - 1] = todo[j] /\ i < j - 1
      BY <1>1, <2>1, <3>2
    <3>4. QED
      BY <3>2, <3>3
  <2>2. CASE /\ Len(todo') = Len(todo) /\ todo[1][1] = "irq" /\ todo'[1][1] = "line"
             /\ \A j \in 2 .. Len(todo') : todo'[j] = todo[j]
    <3>1. i \in 1 .. Len(todo) /\ todo[i][1] = "addr"
      BY <1>1, <1>12, <2>2
    <3>2. PICK j \in 1 .. Len(todo) : i < j /\ todo[j] = <<"sync", l>>
      BY <3>1 DEF Mirroring
    <3>3. j \in 2 .. Len(todo')
      BY <1>1, <2>2, <3>1, <3>2
    <3>4. QED
      BY <2>2, <3>2, <3>3
  <2>3. QED
    BY <1>1, <2>1, <2>2 DEF Remains
<1>13. QED
  BY <1>10, <1>11, <1>12 DEF Mirroring

(* A handler has only phases to store. *)
LEMMA StoreKeepsHandling ==
  ASSUME TypeOK, WorkerStore, pc # "idle", Handling
  PROVE  Handling'
<1>1. /\ UNCHANGED <<queue, dma, pc, issued>>
      /\ w'.cdb = w.cdb /\ w'.block = w.block /\ w'.ok = w.ok
      /\ w'.wrote = w.wrote /\ w'.synced = w.synced /\ w'.loc = w.loc
  BY StoreFrame
<1>2. Mine' = Mine /\ Current' = Current /\ (Executed' <=> Executed)
  BY <1>1 DEF Mine, Current, Executed
<1>3. Only(todo', {"stat"})
  BY StoreRemains, RemainsOnly DEF Handling
<1>4. Head(todo)[1] = "stat"
  BY StoreRemains DEF Handling, Only, TypeOK, WorkerType
<1>5. addr' = addr /\ resetReq' = resetReq
  BY <1>4 DEF WorkerStore, SharedStore
<1>6. QED
  BY <1>1, <1>2, <1>3, <1>5 DEF Handling

(* A store to the interrupt cells changes nothing else. *)
LEMMA SilentStore ==
  ASSUME TypeOK, WorkerStore, Silent(todo)
  PROVE  UNCHANGED <<cache, status, addr, resetReq, w>>
<1>1. Head(todo)[1] \in {"irq", "line"}
  BY StoreRemains DEF Silent, Only, TypeOK, WorkerType
<1>2. QED
  BY <1>1 DEF WorkerStore, CacheStore, SharedStore

(* The constants of a round. *)
LEMMA RoundSizes ==
  /\ CdbLen \in Nat /\ ParamLen \in Nat /\ CdbLen > 0 /\ ParamLen > 0
  /\ Block \in Nat /\ Block = 6 + CdbLen /\ Block > 6
  /\ Final \in Nat /\ Final \in {Block, Block + ParamLen} /\ Final >= Block
  /\ Asks => Final = Block + ParamLen
  /\ ~Asks => Final = Block
BY SizesAssumption DEF Block, Final

(* The queue is a sequence, empty or longer than 0. *)
LEMMA QueueSizes ==
  ASSUME TypeOK
  PROVE  /\ Len(queue) \in Nat /\ queue \in Seq(QueueEntry)
         /\ queue # <<>> => Len(queue) > 0
         /\ queue = <<>> => Len(queue) = 0
BY DEF TypeOK, SharedType

(* Who reads the status phase after the command block has been sent can rely on it:
   the verdict is in its cell. *)
LEMMA StatusSeen ==
  ASSUME TypeOK, NEW e \in Nat, 6 < e, Round(e), cache.stat = StatusPhase
  PROVE  e = Final /\ queue = <<>> /\ Answering /\ Silent(todo) /\ RightVerdict(status)
<1> DEFINE i == e - Len(queue)
<1>1. Taken(i) /\ LeadsTo(cache.stat, todo, Forecast(e)) /\ Len(queue) \in Nat /\ i \in Nat
  BY QueueSizes DEF Round
<1>2. ~(i <= 6 /\ Preparing(i))
  <2> SUFFICES ASSUME i <= 6, Preparing(i) PROVE FALSE
    OBVIOUS
  <2>1. Forecast(e) = CommandPhase
    BY BusAtPhase DEF Forecast
  <2>2. \A j \in 1 .. Len(todo) : todo[j][1] # "stat"
    BY DEF Preparing, Silent, Only
  <2>3. cache.stat = CommandPhase
    BY <1>1, <2>1, <2>2 DEF LeadsTo
  <2>4. QED
    BY <2>3, PhasesDiffer
<1>3. ~Receiving(i) /\ ~Executing /\ ~Asking(i)
  <2>1. StatusPhase \notin PlainBus /\ StatusPhase \notin {CommandPhase, ParamPhase} /\ Taking \in PlainBus
    BY PhasesDiffer DEF PlainBus
  <2>2. QED
    BY <2>1 DEF Receiving, Executing, Asking
<1>4. i = Final /\ Answering
  BY <1>1, <1>2, <1>3 DEF Taken
<1>5. queue = <<>> /\ Silent(todo)
  BY <1>4 DEF Answering, Announces
<1>6. RightVerdict(status)
  BY <1>4, <1>5 DEF Answering, Silent, Only
<1>7. QED
  BY <1>4, <1>5, <1>6, QueueSizes

(* A store of the worker keeps host and worker in step: the round, ... *)
LEMMA StoreKeepsRound ==
  ASSUME TypeOK, WorkerStore, NEW e \in Nat, Round(e)
  PROVE  Round(e)'
<1> DEFINE i == e - Len(queue)
<1>1. /\ UNCHANGED <<queue, dma, pc, issued, hp>>
      /\ cache'.stat = IF todo[1][1] = "stat" THEN todo[1][2] ELSE cache.stat
  BY StoreFrame
<1>2. /\ Mine' = Mine /\ Current' = Current /\ Final' = Final /\ BaseControl' = BaseControl
  BY <1>1 DEF Mine, Current, Asks, Final, BaseControl
<1>3. Len(queue) \in Nat /\ i \in Nat /\ Taken(i)
  BY QueueSizes DEF Round
<1>4. (Taken(e - Len(queue)))'
  <2>1. PICK p \in Nat : p = i
    BY <1>3
  <2>2. Taken(p)'
    BY <1>3, <2>1, StoreKeepsTaken
  <2>3. p = e - Len(queue)'
    BY <1>1, <2>1
  <2>4. QED
    BY <2>2, <2>3
<1>5. (LeadsTo(cache.stat, todo, Forecast(e)))'
  <2>1. Forecast(e)' = Forecast(e)
    BY <1>1 DEF Forecast
  <2>2. LeadsTo(cache'.stat, todo', Forecast(e))
    BY <1>1, StoreRemains, RemainsLeads DEF Round
  <2>3. LeadsTo(cache'.stat, todo', Forecast(e)')
    BY <2>1, <2>2
  <2>4. QED
    BY <2>3 DEF LeadsTo
<1>6. ASSUME 2 < e, i < Block, hp # "addr"
      PROVE  addr' = Programmed(Current, 0)
  <2>1. Head(todo)[1] # "addr"
    <3>1. 1 \in 1 .. Len(todo) /\ Head(todo) = todo[1]
      BY StoreRemains DEF TypeOK, WorkerType
    <3>2. Only(todo, {"irq", "line"}) \/ Only(todo, {"stat", "irq", "line"})
      BY <1>3, <1>6, RoundSizes DEF Taken, Preparing, Silent, Receiving
    <3>3. QED
      BY <3>1, <3>2 DEF Only
  <2>2. addr' = addr
    BY <2>1 DEF WorkerStore, SharedStore
  <2>3. QED
    BY <2>2, <1>6 DEF Round
<1>7. \A k \in 1 .. Len(queue') : queue'[k] = (Entry(e - Len(queue) + k))'
  <2>1. ASSUME NEW k \in 1 .. Len(queue')
        PROVE  queue'[k] = (Entry(e - Len(queue) + k))'
    <3>1. queue[k] = Entry(e - Len(queue) + k)
      BY <1>1 DEF Round
    <3>2. QED
      BY <1>1, <1>2, <3>1 DEF Entry
  <2>2. QED
    BY <2>1
<1>8. QED
  BY <1>1, <1>2, <1>4, <1>5, <1>6, <1>7 DEF Round, Routed

(* ... what the host has seen, ... *)
LEMMA StoreKeepsObserved ==
  ASSUME TypeOK, WorkerStore, hp \notin {"reset", "unreset", "settle"}, Round(Sent), Observed
  PROVE  Observed'
<1>1. /\ UNCHANGED <<queue, dma, pc, issued, hp, latch, step>> /\ todo # <<>>
      /\ cache'.stat = IF todo[1][1] = "stat" THEN todo[1][2] ELSE cache.stat
  BY StoreFrame
<1>2. /\ Mine' = Mine /\ Current' = Current /\ Sent' = Sent /\ (Asks' <=> Asks)
      /\ (Executed' <=> Executed)
  <2>1. Mine' = Mine /\ Current' = Current /\ (Asks' <=> Asks)
    BY <1>1 DEF Mine, Current, Asks
  <2>2. Executed' <=> Executed
    BY <2>1, StoreFrame DEF Executed
  <2>3. Sent' = Sent
    BY <1>1, <2>1 DEF Sent, Final
  <2>4. QED
    BY <2>1, <2>2, <2>3
<1>3. Routed(Sent)' <=> Routed(Sent)
  BY <1>1, <1>2 DEF Routed
<1>4. hp \in {"stat", "param", "readstat", "addr"} => Sent \in Nat
  BY RoundSizes DEF Sent, TypeOK, HostType
<1>5. 1 \in 1 .. Len(todo) /\ Head(todo) = todo[1]
  BY StoreRemains DEF TypeOK, WorkerType
<1>6. ASSUME hp = "param", cache'.stat = ParamPhase
      PROVE  Routed(Sent)
  <2>1. CASE cache.stat = ParamPhase
    BY <1>6, <2>1 DEF Observed
  <2>2. CASE todo[1] = <<"stat", ParamPhase>>
    <3> DEFINE i == Sent - Len(queue)
    <3>1. ~Silent(todo) /\ ParamPhase \notin {Taking, CommandPhase} /\ ParamPhase \notin PlainBus
      BY <1>5, <2>2, PhasesDiffer DEF Silent, Only, PlainBus
    <3>2. ~Preparing(i) /\ ~Receiving(i) /\ ~Executing
      BY <1>5, <2>2, <3>1 DEF Preparing, Receiving, Executing, Among
    <3>3. Taken(i)
      BY DEF Round
    <3>4. (Block <= i /\ Asking(i)) \/ (i = Final /\ Answering)
      BY <3>2, <3>3 DEF Taken
    <3>5. QED
      BY <3>4, RoundSizes DEF Asking, Answering, Routed
  <2>3. QED
    <3>1. todo[1][1] = "stat" => todo[1] = <<"stat", todo[1][2]>>
      BY StoreFrame DEF StoreSet
    <3>2. QED
      BY <1>1, <1>6, <2>1, <2>2, <3>1
<1>7. ASSUME hp = "stat", latch = <<StatusPhase>>
      PROVE  cache'.stat = StatusPhase
  <2>1. cache.stat = StatusPhase /\ Sent = Final
    BY <1>7 DEF Observed, Sent
  <2>2. Silent(todo)
    BY <2>1, StatusSeen, RoundSizes
  <2>3. QED
    BY <2>1, <2>2, SilentStore
<1>8. ASSUME hp \in {"readstat", "addr"}
      PROVE  status' = status /\ addr' = addr
  <2>1. Sent \in {0, 3} /\ Len(queue) \in Nat
    BY <1>8, QueueSizes DEF Sent
  <2>2. Preparing(Sent - Len(queue))
    BY <2>1 DEF Round, Taken
  <2>3. Silent(todo)
    BY <2>2 DEF Preparing
  <2>4. QED
    BY <2>3, SilentStore
<1>9. hp = "readstat" => (RightVerdict(status))' /\ (latch # <<>> => (RightVerdict(latch[1]))')
  BY <1>1, <1>2, <1>8 DEF Observed, RightVerdict
<1>10. QED
  BY <1>1, <1>2, <1>3, <1>6, <1>7, <1>8, <1>9 DEF Observed

(* ... and the way out of a reset. *)
LEMMA StoreKeepsClearing ==
  ASSUME TypeOK, WorkerStore, Clearing
  PROVE  Clearing'
<1>1. /\ UNCHANGED <<queue, dma, pc, hp>> /\ w'.index = w.index
      /\ cache'.stat = IF todo[1][1] = "stat" THEN todo[1][2] ELSE cache.stat
  BY StoreFrame
<1>2. CASE Cleared
  <2>1. Only(todo', {"stat", "irq", "line", "status", "data", "unreset"})
    BY <1>2, StoreRemains, RemainsOnly DEF Cleared
  <2>2. (LeadsTo(cache.stat, todo, BusFree))'
    <3>1. LeadsTo(cache'.stat, todo', BusFree)
      BY <1>1, <1>2, StoreRemains, RemainsLeads DEF Cleared
    <3>2. QED
      BY <3>1 DEF LeadsTo, BusFree
  <2>3. Cleared'
    BY <1>1, <1>2, <2>1, <2>2 DEF Cleared, Released
  <2>4. QED
    BY <2>3 DEF Clearing
<1>3. CASE ~Cleared
  BY <1>1, <1>3 DEF Clearing, Released, ResetWrite
<1>4. QED
  BY <1>2, <1>3

(* The worker's stores keep host and worker in step (WorkerStore). *)
LEMMA StoreKeepsInStep ==
  ASSUME TypeOK, WorkerStore, InStep
  PROVE  InStep'
<1>1. UNCHANGED <<queue, drops, dma, pc, hp, step, issued>> /\ cache'.sel = cache.sel
  BY StoreFrame
<1>2. Sent' = Sent
  BY <1>1 DEF Sent, Final, Asks, Mine, Current
<1>3. ASSUME hp \notin {"reset", "unreset", "settle"}
      PROVE  (Round(Sent))' /\ Observed'
  <2>1. Sent \in Nat
    BY <1>3, RoundSizes DEF Sent, TypeOK, HostType
  <2>2. PICK p \in Nat : p = Sent
    BY <2>1
  <2>3. Round(p)' /\ p = Sent'
    BY <1>2, <1>3, <2>2, StoreKeepsRound DEF InStep
  <2>4. QED
    BY <1>3, <2>3, StoreKeepsObserved DEF InStep
<1>4. ASSUME hp = "reset"
      PROVE  \E e \in 0 .. Block + ParamLen : Round(e)' /\ (queue' = <<>> \/ e = 1)
  <2>1. PICK e \in 0 .. Block + ParamLen : Round(e) /\ (queue = <<>> \/ e = 1)
    BY <1>4 DEF InStep
  <2>2. QED
    BY <1>1, <2>1, StoreKeepsRound, RoundSizes
<1>5. hp \in {"unreset", "settle"} => Clearing'
  BY StoreKeepsClearing DEF InStep
<1>6. (Mirroring(cache.addr, todo))'
  BY StoreKeepsMirroring DEF InStep
<1>7. pc' # "idle" => Handling'
  BY <1>1, StoreKeepsHandling DEF InStep
<1>8. QED
  BY <1>1, <1>3, <1>4, <1>5, <1>6, <1>7 DEF InStep

-----------------------------------------------------------------------------
(* The worker takes an entry only when it has nothing else to do; which operation it
   performs is decided by the entry. *)
LEMMA TakeFrame ==
  ASSUME TypeOK, WorkerTake
  PROVE  /\ pc = "idle" /\ todo = <<>>
         /\ UNCHANGED <<cache, drops, status, addr, resetReq, irqPending, irqLine>>
         /\ UNCHANGED <<hp, latch, step, issued, resets>>
         /\ Len(queue) \in Nat /\ Len(queue) > 0 /\ Len(queue') = Len(queue) - 1
         /\ queue' = Tail(queue)
         /\ \A i \in 1 .. Len(queue') : i + 1 \in 1 .. Len(queue) /\ queue'[i] = queue[i + 1]
         /\ queue[1] = <<"read", 0>> => DeferRead
         /\ \A c : queue[1] = <<"control", c>> =>
              ("RESET" \in c /\ DeferReset(c)) \/ ("RESET" \notin c /\ DeferControl(c))
         /\ \A b : queue[1] = <<"data", b>> => DeferData(b)
<1>1. /\ pc = "idle" /\ todo = <<>> /\ queue # <<>> /\ queue' = Tail(queue)
      /\ UNCHANGED <<cache, drops, status, addr, resetReq, irqPending, irqLine>>
      /\ UNCHANGED <<hp, latch, step, issued, resets>>
  BY DEF WorkerTake, sharedVars, hostVars
<1>2. queue \in Seq(QueueEntry) /\ Head(queue) = queue[1]
  BY <1>1 DEF TypeOK, SharedType
<1>3. /\ Len(queue) \in Nat /\ Len(queue) > 0 /\ Len(queue') = Len(queue) - 1
      /\ \A i \in 1 .. Len(queue') : i + 1 \in 1 .. Len(queue) /\ queue'[i] = queue[i + 1]
  BY <1>1, <1>2
<1>4. /\ queue[1] = <<"read", 0>> => DeferRead
      /\ \A c : queue[1] = <<"control", c>> =>
           ("RESET" \in c /\ DeferReset(c)) \/ ("RESET" \notin c /\ DeferControl(c))
      /\ \A b : queue[1] = <<"data", b>> => DeferData(b)
  <2> DEFINE e == queue[1]
  <2>1. \/ e[1] = "control" /\ "RESET" \in e[2] /\ DeferReset(e[2])
        \/ e[1] = "control" /\ "RESET" \notin e[2] /\ DeferControl(e[2])
        \/ e[1] = "data" /\ DeferData(e[2])
        \/ e[1] = "read" /\ DeferRead
    BY <1>2, Zenon DEF WorkerTake
  <2> HIDE DEF e
  <2>2. ASSUME e = <<"read", 0>> PROVE DeferRead
    BY <2>1, <2>2
  <2>3. ASSUME NEW c, e = <<"control", c>>
        PROVE  ("RESET" \in c /\ DeferReset(c)) \/ ("RESET" \notin c /\ DeferControl(c))
    <3>1. e[1] = "control" /\ e[2] = c
      BY <2>3
    <3>2. QED
      BY <2>1, <3>1
  <2>4. ASSUME NEW b, e = <<"data", b>> PROVE DeferData(b)
    <3>1. e[1] = "data" /\ e[2] = b
      BY <2>4
    <3>2. QED
      BY <2>1, <3>1
  <2>5. QED
    BY <2>2, <2>3, <2>4 DEF e
<1>5. QED
  BY <1>1, <1>3, <1>4

(* Short plans, by what they store. *)
LEMMA PlanKinds ==
  /\ \A K : Only(<<>>, K)
  /\ \A g : Silent(<<Irq(g)>>)
  /\ \A b : Only(<<Stat(b)>>, {"stat"})
  /\ \A b : Only(<<Stat(b), Irq(TRUE)>>, {"stat", "irq", "line"})
  /\ \A a, b : Only(<<Stat(a), Stat(b), Irq(TRUE)>>, {"stat", "irq", "line"})
  /\ \A s : Silent(s) => Only(s, {"stat", "irq", "line"})
<1>1. \A K : Only(<<>>, K)
  BY DEF Only
<1>2. \A g : Silent(<<Irq(g)>>)
  BY DEF Silent, Only, Irq
<1>3. \A b : Only(<<Stat(b)>>, {"stat"})
  BY DEF Only, Stat
<1>4. \A b : Only(<<Stat(b), Irq(TRUE)>>, {"stat", "irq", "line"})
  BY DEF Only, Stat, Irq
<1>5. \A a, b : Only(<<Stat(a), Stat(b), Irq(TRUE)>>, {"stat", "irq", "line"})
  BY DEF Only, Stat, Irq
<1>6. \A s : Silent(s) => Only(s, {"stat", "irq", "line"})
  BY DEF Silent, Only
<1>7. QED
  BY <1>1, <1>2, <1>3, <1>4, <1>5, <1>6

(* ... and by the phase they lead to. *)
LEMMA PlanPhases ==
  /\ \A c, s, b : Silent(s) => (LeadsTo(c, s, b) <=> c = b)
  /\ \A c, b : LeadsTo(c, <<Stat(b)>>, b \cap StatusBits)
  /\ \A c, b : LeadsTo(c, <<Stat(b), Irq(TRUE)>>, b \cap StatusBits)
  /\ \A a, c, b : LeadsTo(c, <<Stat(a), Stat(b), Irq(TRUE)>>, b \cap StatusBits)
  /\ \A b, X : b \cap StatusBits \in X => Among(<<Stat(b)>>, X) /\ Among(<<Stat(b), Irq(TRUE)>>, X)
  /\ \A a, b, X : a \cap StatusBits \in X /\ b \cap StatusBits \in X
       => Among(<<Stat(a), Stat(b), Irq(TRUE)>>, X)
<1>1. ASSUME NEW c, NEW s, NEW b, Silent(s) PROVE LeadsTo(c, s, b) <=> c = b
  BY <1>1 DEF Silent, Only, LeadsTo
<1>2. \A c, b : LeadsTo(c, <<Stat(b)>>, b \cap StatusBits)
  BY DEF LeadsTo, Stat
<1>3. \A c, b : LeadsTo(c, <<Stat(b), Irq(TRUE)>>, b \cap StatusBits)
  BY DEF LeadsTo, Stat, Irq
<1>4. ASSUME NEW a, NEW b, NEW c PROVE LeadsTo(c, <<Stat(a), Stat(b), Irq(TRUE)>>, b \cap StatusBits)
  <2> DEFINE s == <<Stat(a), Stat(b), Irq(TRUE)>>
  <2>1. /\ Len(s) = 3 /\ s[1][1] = "stat" /\ s[2][1] = "stat" /\ s[2][2] = b \cap StatusBits
        /\ s[3][1] = "irq"
    BY DEF Stat, Irq
  <2>2. \A i \in 1 .. 3 : i = 1 \/ i = 2 \/ i = 3
    OBVIOUS
  <2> HIDE DEF s
  <2>3. LeadsTo(c, s, b \cap StatusBits)
    BY <2>1, <2>2 DEF LeadsTo
  <2>4. QED
    BY <2>3 DEF s
<1>5. \A b, X : b \cap StatusBits \in X => Among(<<Stat(b)>>, X) /\ Among(<<Stat(b), Irq(TRUE)>>, X)
  BY DEF Among, Stat, Irq
<1>6. \A a, b, X : a \cap StatusBits \in X /\ b \cap StatusBits \in X
       => Among(<<Stat(a), Stat(b), Irq(TRUE)>>, X)
  BY DEF Among, Stat, Irq
<1>7. QED
  BY <1>1, <1>2, <1>3, <1>4, <1>5, <1>6

(* The control values of the driver. *)
LEMMA ControlValues ==
  ASSUME TypeOK, issued # <<>>
  PROVE  /\ Mine \in Command /\ Current \in CommandId /\ Mine.target \in Targets
         /\ "SEL" \notin BaseControl /\ "RESET" \notin BaseControl /\ "LATCH" \in BaseControl
         /\ ("ON" \in BaseControl) = Mine.dma
         /\ BaseControl \in SUBSET ControlBits
         /\ Mine.dma \in BOOLEAN /\ Mine.blocks \in Nat
         /\ Mine.op \in {"NONE", "READ", "WRITE", "SENSE", "MODE", "PARAMS"}
         /\ Mine.op \in {"READ", "WRITE"} => Mine.blocks > 0
<1>1. Mine \in Command /\ Current \in CommandId
  BY DEF TypeOK, HostType, Mine, Current, CommandId
<1> DEFINE Good(m) == /\ m.target \in Targets /\ m.dma \in BOOLEAN /\ m.blocks \in Nat
                      /\ m.op \in {"NONE", "READ", "WRITE", "SENSE", "MODE", "PARAMS"}
                      /\ m.op \in {"READ", "WRITE"} => m.blocks > 0
<1>2. Good(Mine)
  <2>1. ASSUME NEW m \in [op : {"NONE"}, blocks : {0}, dma : {FALSE}, target : Targets]
        PROVE  Good(m)
    <3>1. m.op = "NONE" /\ m.blocks = 0 /\ m.dma \in BOOLEAN /\ m.target \in Targets
      OBVIOUS
    <3>2. QED
      BY <3>1
  <2>2. ASSUME NEW m \in [op : {"READ", "WRITE"}, blocks : 1 .. MaxBlocks, dma : {TRUE}, target : Targets]
        PROVE  Good(m)
    <3>1. m.op \in {"READ", "WRITE"} /\ m.blocks \in 1 .. MaxBlocks /\ m.dma \in BOOLEAN /\ m.target \in Targets
      OBVIOUS
    <3>2. m.blocks \in Nat /\ m.blocks > 0
      BY <3>1, SizesAssumption
    <3>3. QED
      BY <3>1, <3>2
  <2>3. ASSUME NEW m \in [op : {"SENSE", "MODE"}, blocks : {0}, dma : {TRUE}, target : Targets]
        PROVE  Good(m)
    <3>1. m.op \in {"SENSE", "MODE"} /\ m.blocks = 0 /\ m.dma \in BOOLEAN /\ m.target \in Targets
      OBVIOUS
    <3>2. QED
      BY <3>1
  <2>4. ASSUME NEW m \in [op : {"PARAMS"}, blocks : {0}, dma : BOOLEAN, target : Targets]
        PROVE  Good(m)
    OBVIOUS
  <2> HIDE DEF Good
  <2>5. QED
    BY <1>1, <2>1, <2>2, <2>3, <2>4 DEF Command
<1>3. Mine.dma \in BOOLEAN
  BY <1>2
<1>4. /\ "SEL" \notin BaseControl /\ "RESET" \notin BaseControl /\ "LATCH" \in BaseControl
      /\ ("ON" \in BaseControl) = Mine.dma
      /\ BaseControl \in SUBSET ControlBits
  BY <1>3 DEF BaseControl, ControlBits
<1>5. QED
  BY <1>1, <1>2, <1>3, <1>4

(* What the worker has to look like to be ready for the next entry. *)
LEMMA Prepared ==
  ASSUME NEW k \in 0 .. 6,
         pc' = "idle", Silent(todo'), dma'.bus = BusAt(k), dma'.dataOut = 0, w'.index = 0,
         dma'.nonDmaReq <=> k \in {0, 1, 6}, dma'.statusPending <=> k = 0, dma'.select <=> k = 5,
         k >= 3 => dma'.dmaEnabled = Mine'.dma,
         k = 4 => dma'.command = <<"target", Mine'.target>>,
         k >= 5 => dma'.target = Mine'.target
  PROVE  Preparing(k)'
BY DEF Preparing

(* Taking one of the entries before the command block: the two reads walk the bus
   from the status phase to free, the rest selects the target. *)
LEMMA TakePrepares ==
  ASSUME TypeOK, WorkerTake, NEW i \in 0 .. 5, Preparing(i), queue[1] = Entry(i + 1),
         i >= 2 => issued # <<>>
  PROVE  Preparing(i + 1)'
<1> USE DEF TypeOK
<1>1. /\ pc = "idle" /\ todo = <<>> /\ UNCHANGED issued
      /\ queue[1] = <<"read", 0>> => DeferRead
      /\ \A c : queue[1] = <<"control", c>> =>
           ("RESET" \in c /\ DeferReset(c)) \/ ("RESET" \notin c /\ DeferControl(c))
      /\ \A b : queue[1] = <<"data", b>> => DeferData(b)
  BY TakeFrame
<1>2. Mine' = Mine
  BY <1>1 DEF Mine, Current
<1>3. dma \in DmaType /\ w \in LocalsType
  BY DEF WorkerType
<1>4. i >= 2 => /\ Mine.target \in Targets /\ Mine.dma \in BOOLEAN
                /\ "SEL" \notin BaseControl /\ "RESET" \notin BaseControl /\ "LATCH" \in BaseControl
                /\ ("ON" \in BaseControl) = Mine.dma
  BY ControlValues
<1>5. Silent(<<>>) /\ Silent(<<Irq(TRUE)>>) /\ Silent(<<Irq(FALSE)>>)
  BY PlanKinds DEF Silent
<1>6. CASE i = 0
  <2>1. DeferRead
    BY <1>1, <1>6 DEF Entry
  <2>2. /\ dma.bus = {"BSY", "REQ", "CTL", "INP"} /\ dma.statusPending /\ dma.nonDmaReq /\ dma.dataOut = 0
        /\ dma.select = FALSE /\ w.index = 0
    BY <1>6, <1>3 DEF Preparing, BusAt, StatusPhase, DmaType
  <2>3. /\ dma' = [dma EXCEPT !.bus = dma.bus \cup {"MSG"}, !.nonDmaReq = TRUE, !.statusPending = FALSE]
        /\ todo' = <<Irq(TRUE)>> /\ UNCHANGED <<pc, w>>
    BY <2>1, <2>2 DEF DeferRead
  <2>4. /\ dma'.bus = MessagePhase /\ dma'.nonDmaReq = TRUE /\ dma'.statusPending = FALSE
        /\ dma'.dataOut = 0 /\ dma'.select = FALSE
    BY <1>3, <2>2, <2>3 DEF DmaType, MessagePhase, StatusPhase
  <2>5. Preparing(1)'
    <3>1. pc' = "idle" /\ w'.index = 0 /\ Silent(todo')
      <4>1. pc' = pc /\ w' = w
        BY <2>3
      <4>2. Silent(todo')
        BY <1>5, <2>3, Zenon
      <4>3. pc = "idle"
        BY <1>1
      <4>4. w.index = 0
        BY <2>2
      <4>5. QED
        BY <4>1, <4>2, <4>3, <4>4
    <3>2. dma'.bus = BusAt(1)
      BY <2>4, BusValues
    <3>3. /\ 1 >= 3 => dma'.dmaEnabled = Mine'.dma
          /\ 1 >= 5 => dma'.target = Mine'.target
      BY <1>2, <2>4
    <3>4. dma'.nonDmaReq = TRUE /\ dma'.statusPending = FALSE /\ dma'.select = FALSE
      BY <2>4
    <3>5. dma'.dataOut = 0 /\ 1 \in 0 .. 6 /\ (1 = 4 => dma'.command = <<"target", Mine'.target>>)
      BY <1>2, <2>4
    <3>6. QED
      BY <3>1, <3>2, <3>3, <3>4, <3>5, Prepared
  <2>6. QED
    BY <1>6, <2>5
<1>7. CASE i = 1
  <2>1. DeferRead
    BY <1>1, <1>7 DEF Entry
  <2>2. "MSG" \in dma.bus /\ dma.dataOut = 0 /\ dma.select = FALSE /\ w.index = 0
    BY <1>7, <1>3 DEF Preparing, BusAt, MessagePhase, DmaType
  <2>3. /\ dma' = [dma EXCEPT !.bus = {}, !.nonDmaReq = FALSE, !.statusPending = FALSE]
        /\ todo' = <<Irq(FALSE)>> /\ UNCHANGED <<pc, w>>
    <3>1. dma.bus \cap {"MSG", "CTL", "INP"} # {"CTL", "INP"}
      BY <2>2
    <3>2. QED
      BY <2>1, <2>2, <3>1 DEF DeferRead
  <2>4. /\ dma'.bus = BusFree /\ dma'.nonDmaReq = FALSE /\ dma'.statusPending = FALSE
        /\ dma'.dataOut = 0 /\ dma'.select = FALSE
    BY <1>3, <2>2, <2>3 DEF DmaType, BusFree
  <2>5. Preparing(2)'
    <3>1. pc' = "idle" /\ w'.index = 0 /\ Silent(todo')
      <4>1. pc' = pc /\ w' = w
        BY <2>3
      <4>2. Silent(todo')
        BY <1>5, <2>3, Zenon
      <4>3. pc = "idle"
        BY <1>1
      <4>4. w.index = 0
        BY <2>2
      <4>5. QED
        BY <4>1, <4>2, <4>3, <4>4
    <3>2. dma'.bus = BusAt(2)
      BY <2>4, BusValues DEF BusFree
    <3>3. /\ 2 >= 3 => dma'.dmaEnabled = Mine'.dma
          /\ 2 >= 5 => dma'.target = Mine'.target
      BY <1>2, <2>4
    <3>4. dma'.nonDmaReq = FALSE /\ dma'.statusPending = FALSE /\ dma'.select = FALSE
      BY <2>4
    <3>5. dma'.dataOut = 0 /\ 2 \in 0 .. 6 /\ (2 = 4 => dma'.command = <<"target", Mine'.target>>)
      BY <1>2, <2>4
    <3>6. QED
      BY <3>1, <3>2, <3>3, <3>4, <3>5, Prepared
  <2>6. QED
    BY <1>7, <2>5
<1>8. CASE i = 2
  <2>1. DeferControl(BaseControl)
    BY <1>1, <1>4, <1>8 DEF Entry
  <2>2. /\ dma.bus = BusFree /\ dma.statusPending = FALSE /\ dma.nonDmaReq = FALSE /\ dma.dataOut = 0
        /\ dma.select = FALSE /\ w.index = 0
    BY <1>8, <1>3 DEF Preparing, BusAt, DmaType
  <2>3. /\ dma' = [dma EXCEPT !.select = "SEL" \in BaseControl,
                              !.dmaEnabled = IF "LATCH" \in BaseControl THEN "ON" \in BaseControl ELSE @]
        /\ todo' = <<>> /\ UNCHANGED <<pc, w>>
    BY <1>4, <1>8, <2>1, <2>2 DEF DeferControl, EdgeStores
  <2>4. /\ dma'.bus = BusFree /\ dma'.nonDmaReq = FALSE /\ dma'.statusPending = FALSE
        /\ dma'.dataOut = 0 /\ dma'.select = FALSE /\ dma'.dmaEnabled = Mine.dma
    BY <1>3, <1>4, <1>8, <2>2, <2>3 DEF DmaType
  <2>5. Preparing(3)'
    <3>1. pc' = "idle" /\ w'.index = 0 /\ Silent(todo')
      <4>1. pc' = pc /\ w' = w
        BY <2>3
      <4>2. Silent(todo')
        BY <1>5, <2>3, Zenon
      <4>3. pc = "idle"
        BY <1>1
      <4>4. w.index = 0
        BY <2>2
      <4>5. QED
        BY <4>1, <4>2, <4>3, <4>4
    <3>2. dma'.bus = BusAt(3)
      BY <2>4, BusValues DEF BusFree
    <3>3. /\ 3 >= 3 => dma'.dmaEnabled = Mine'.dma
          /\ 3 >= 5 => dma'.target = Mine'.target
      BY <1>2, <2>4
    <3>4. dma'.nonDmaReq = FALSE /\ dma'.statusPending = FALSE /\ dma'.select = FALSE
      BY <2>4
    <3>5. dma'.dataOut = 0 /\ 3 \in 0 .. 6 /\ (3 = 4 => dma'.command = <<"target", Mine'.target>>)
      BY <1>2, <2>4
    <3>6. QED
      BY <3>1, <3>2, <3>3, <3>4, <3>5, Prepared
  <2>6. QED
    BY <1>8, <2>5
<1>9. CASE i = 3
  <2> DEFINE b == <<"target", Mine.target>>
  <2>1. DeferData(b)
    BY <1>1, <1>9 DEF Entry
  <2>2. /\ dma.bus = {} /\ dma.statusPending = FALSE /\ dma.nonDmaReq = FALSE /\ dma.dataOut = 0
        /\ dma.select = FALSE /\ w.index = 0 /\ dma.dmaEnabled = Mine.dma
    BY <1>9, <1>3 DEF Preparing, BusAt, DmaType, BusFree
  <2> DEFINE d == [dma EXCEPT !.command = b,
                              !.target = IF dma.select THEN ExtractTarget(b) ELSE @,
                              !.bus = IF dma.select THEN @ \ {"SEL"} ELSE @]
  <2>3. d.bus = {} /\ d.dataOut = 0 /\ d.select = FALSE /\ d.statusPending = FALSE /\ d.nonDmaReq = FALSE
        /\ d.dmaEnabled = Mine.dma /\ d.command = b
    BY <1>3, <2>2 DEF DmaType
  <2>4. dma' = d /\ todo' = <<>> /\ UNCHANGED <<pc, w>>
    <3>1. d.bus \cap {"CTL", "INP", "MSG"} # {"CTL"}
      BY <2>3
    <3>2. ~dma.nonDmaReq
      BY <2>2
    <3> HIDE DEF b
    <3>3. QED
      BY <2>1, <2>3, <3>1, <3>2 DEF DeferData
  <2>5. Preparing(4)'
    <3> HIDE DEF d
    <3>1. pc' = "idle" /\ w'.index = 0 /\ Silent(todo')
      <4>1. pc' = pc /\ w' = w
        BY <2>4
      <4>2. Silent(todo')
        BY <1>5, <2>4, Zenon
      <4>3. pc = "idle"
        BY <1>1
      <4>4. w.index = 0
        BY <2>2
      <4>5. QED
        BY <4>1, <4>2, <4>3, <4>4
    <3>2. dma'.bus = BusAt(4)
      BY <2>4, BusValues, <2>3
    <3>3. /\ 4 >= 3 => dma'.dmaEnabled = Mine'.dma
          /\ 4 >= 5 => dma'.target = Mine'.target
      BY <1>2, <2>4, <2>3
    <3>4. dma'.nonDmaReq = FALSE /\ dma'.statusPending = FALSE /\ dma'.select = FALSE
      BY <2>4, <2>3
    <3>5. dma'.dataOut = 0 /\ 4 \in 0 .. 6 /\ (4 = 4 => dma'.command = <<"target", Mine'.target>>)
      BY <1>2, <2>4, <2>3
    <3>6. QED
      BY <3>1, <3>2, <3>3, <3>4, <3>5, Prepared
  <2>6. QED
    BY <1>9, <2>5
<1>10. CASE i = 4
  <2> DEFINE c == BaseControl \cup {"SEL"}
  <2>1. DeferControl(c) /\ "SEL" \in c /\ "LATCH" \in c /\ ("ON" \in c) = Mine.dma
    <3>1. queue[1] = <<"control", c>>
      BY <1>10 DEF Entry
    <3>2. "SEL" \in c /\ "LATCH" \in c /\ ("ON" \in c) = Mine.dma /\ "RESET" \notin c
      BY <1>4, <1>10
    <3> HIDE DEF c
    <3>3. QED
      BY <1>1, <3>1, <3>2
  <2>2. /\ dma.bus = {} /\ dma.statusPending = FALSE /\ dma.nonDmaReq = FALSE /\ dma.dataOut = 0
        /\ dma.select = FALSE /\ w.index = 0 /\ dma.command = <<"target", Mine.target>>
    BY <1>10, <1>3 DEF Preparing, BusAt, DmaType, BusFree
  <2>3. SelectedTarget = Mine.target
    BY <2>2 DEF SelectedTarget, ExtractTarget
  <2> HIDE DEF c
  <2>4. /\ dma' = [[dma EXCEPT !.select = "SEL" \in c, !.dmaEnabled = IF "LATCH" \in c THEN "ON" \in c ELSE @]
                     EXCEPT !.bus = @ \cup {"SEL", "BSY"}, !.target = SelectedTarget]
        /\ todo' = <<>> /\ UNCHANGED <<pc, w>>
    BY <2>1, <2>2 DEF DeferControl, EdgeStores
  <2>5. /\ dma'.bus = {"SEL", "BSY"} /\ dma'.nonDmaReq = FALSE /\ dma'.statusPending = FALSE
        /\ dma'.dataOut = 0 /\ dma'.select = TRUE /\ dma'.dmaEnabled = Mine.dma /\ dma'.target = Mine.target
    BY <1>3, <2>1, <2>2, <2>3, <2>4 DEF DmaType
  <2>6. Preparing(5)'
    <3>1. pc' = "idle" /\ w'.index = 0 /\ Silent(todo')
      <4>1. pc' = pc /\ w' = w
        BY <2>4
      <4>2. Silent(todo')
        BY <1>5, <2>4, Zenon
      <4>3. pc = "idle"
        BY <1>1
      <4>4. w.index = 0
        BY <2>2
      <4>5. QED
        BY <4>1, <4>2, <4>3, <4>4
    <3>2. dma'.bus = BusAt(5)
      BY <2>5, BusValues
    <3>3. /\ 5 >= 3 => dma'.dmaEnabled = Mine'.dma
          /\ 5 >= 5 => dma'.target = Mine'.target
      BY <1>2, <2>5
    <3>4. dma'.nonDmaReq = FALSE /\ dma'.statusPending = FALSE /\ dma'.select = TRUE
      BY <2>5
    <3>5. dma'.dataOut = 0 /\ 5 \in 0 .. 6 /\ (5 = 4 => dma'.command = <<"target", Mine'.target>>)
      BY <1>2, <2>5
    <3>6. QED
      BY <3>1, <3>2, <3>3, <3>4, <3>5, Prepared
  <2>7. QED
    BY <1>10, <2>6
<1>11. CASE i = 5
  <2>1. DeferControl(BaseControl)
    BY <1>1, <1>4, <1>11 DEF Entry
  <2>2. /\ dma.bus = {"SEL", "BSY"} /\ dma.statusPending = FALSE /\ dma.dataOut = 0
        /\ dma.select = TRUE /\ w.index = 0 /\ dma.target = Mine.target
    BY <1>11, <1>3 DEF Preparing, BusAt, DmaType
  <2>3. /\ dma' = [[dma EXCEPT !.select = "SEL" \in BaseControl,
                               !.dmaEnabled = IF "LATCH" \in BaseControl THEN "ON" \in BaseControl ELSE @]
                     EXCEPT !.bus = (@ \ {"SEL", "INP"}) \cup {"BSY", "REQ", "CTL"}, !.nonDmaReq = TRUE]
        /\ todo' = <<Irq(TRUE)>> /\ UNCHANGED <<pc, w>>
    <3>1. "SEL" \notin BaseControl /\ dma.select
      BY <1>4, <1>11, <2>2
    <3>2. QED
      BY <2>1, <3>1 DEF DeferControl, EdgeStores
  <2>4. /\ dma'.bus = CommandPhase /\ dma'.nonDmaReq = TRUE /\ dma'.statusPending = FALSE
        /\ dma'.dataOut = 0 /\ dma'.select = FALSE /\ dma'.dmaEnabled = Mine.dma /\ dma'.target = Mine.target
    BY <1>3, <1>4, <1>11, <2>2, <2>3 DEF DmaType, CommandPhase
  <2>5. Preparing(6)'
    <3>1. pc' = "idle" /\ w'.index = 0 /\ Silent(todo')
      <4>1. pc' = pc /\ w' = w
        BY <2>3
      <4>2. Silent(todo')
        BY <1>5, <2>3, Zenon
      <4>3. pc = "idle"
        BY <1>1
      <4>4. w.index = 0
        BY <2>2
      <4>5. QED
        BY <4>1, <4>2, <4>3, <4>4
    <3>2. dma'.bus = BusAt(6)
      BY <2>4, BusValues
    <3>3. /\ 6 >= 3 => dma'.dmaEnabled = Mine'.dma
          /\ 6 >= 5 => dma'.target = Mine'.target
      BY <1>2, <2>4
    <3>4. dma'.nonDmaReq = TRUE /\ dma'.statusPending = FALSE /\ dma'.select = FALSE
      BY <2>4
    <3>5. dma'.dataOut = 0 /\ 6 \in 0 .. 6 /\ (6 = 4 => dma'.command = <<"target", Mine'.target>>)
      BY <1>2, <2>4
    <3>6. QED
      BY <3>1, <3>2, <3>3, <3>4, <3>5, Prepared
  <2>6. QED
    BY <1>11, <2>5
<1>12. QED
  BY <1>6, <1>7, <1>8, <1>9, <1>10, <1>11

(* Short plans put together. *)
LEMMA Joined ==
  /\ \A x, y, z : <<x>> \o <<y, z>> = <<x, y, z>>
  /\ \A x, s, u, v, y : <<x>> \o <<s, u, v, y>> = <<x, s, u, v, y>>
<1>1. ASSUME NEW x, NEW y, NEW z PROVE <<x>> \o <<y, z>> = <<x, y, z>>
  <2> DEFINE S == {x, y, z}
             p == <<x>>
             q == <<y, z>>
             r == <<x, y, z>>
  <2>1. p \in Seq(S) /\ Len(p) = 1 /\ p[1] = x
    OBVIOUS
  <2>2. q \in Seq(S) /\ Len(q) = 2 /\ q[1] = y /\ q[2] = z
    OBVIOUS
  <2>3. r \in Seq(S) /\ Len(r) = 3 /\ r[1] = x /\ r[2] = y /\ r[3] = z
    OBVIOUS
  <2> HIDE DEF p, q, r, S
  <2>4. p \o q \in Seq(S) /\ Len(p \o q) = 3
    <3>1. p \o q \in Seq(S)
      BY <2>1, <2>2, ConcatProperties
    <3>2. Len(p \o q) = Len(p) + Len(q)
      BY <2>1, <2>2, ConcatProperties
    <3>3. Len(p) + Len(q) = 3
      BY <2>1, <2>2
    <3>4. QED
      BY <3>1, <3>2, <3>3
  <2>5. \A i \in 1 .. 3 : (p \o q)[i] = IF i <= 1 THEN p[i] ELSE q[i - 1]
    <3>1. \A i \in 1 .. Len(p) + Len(q) : (p \o q)[i] = IF i <= Len(p) THEN p[i] ELSE q[i - Len(p)]
      BY <2>1, <2>2, ConcatProperties
    <3>2. Len(p) + Len(q) = 3
      BY <2>1, <2>2
    <3>3. \A i \in 1 .. 3 : (p \o q)[i] = IF i <= Len(p) THEN p[i] ELSE q[i - Len(p)]
      BY <3>1, <3>2
    <3>4. QED
      BY <2>1, <3>3
  <2>6. \A i \in 1 .. 3 : (p \o q)[i] = r[i]
    <3>1. (p \o q)[1] = x
      <4>1. 1 \in 1 .. 3 /\ 1 - 1 = 0 /\ (1 <= 1) = TRUE
        OBVIOUS
      <4>2. (p \o q)[1] = IF 1 <= 1 THEN p[1] ELSE q[1 - 1]
        BY <2>5, <4>1
      <4>3. QED
        BY <2>1, <2>2, <4>1, <4>2
    <3>2. (p \o q)[2] = y
      <4>1. 2 \in 1 .. 3 /\ 2 - 1 = 1 /\ (2 <= 1) = FALSE
        OBVIOUS
      <4>2. (p \o q)[2] = IF 2 <= 1 THEN p[2] ELSE q[2 - 1]
        BY <2>5, <4>1
      <4>3. QED
        BY <2>1, <2>2, <4>1, <4>2
    <3>3. (p \o q)[3] = z
      <4>1. 3 \in 1 .. 3 /\ 3 - 1 = 2 /\ (3 <= 1) = FALSE
        OBVIOUS
      <4>2. (p \o q)[3] = IF 3 <= 1 THEN p[3] ELSE q[3 - 1]
        BY <2>5, <4>1
      <4>3. QED
        BY <2>1, <2>2, <4>1, <4>2
    <3>4. \A i \in 1 .. 3 : i = 1 \/ i = 2 \/ i = 3
      OBVIOUS
    <3>5. QED
      BY <2>3, <3>1, <3>2, <3>3, <3>4
  <2>7. p \o q = r
    BY <2>3, <2>4, <2>6, SeqEqual
  <2>8. QED
    BY <2>7 DEF p, q, r
<1>2. ASSUME NEW x, NEW s, NEW u, NEW v, NEW y PROVE <<x>> \o <<s, u, v, y>> = <<x, s, u, v, y>>
  <2> DEFINE S == {x, s, u, v, y}
             p == <<x>>
             q == <<s, u, v, y>>
             r == <<x, s, u, v, y>>
  <2>1. p \in Seq(S) /\ Len(p) = 1 /\ p[1] = x
    OBVIOUS
  <2>2. q \in Seq(S) /\ Len(q) = 4 /\ q[1] = s /\ q[2] = u /\ q[3] = v /\ q[4] = y
    OBVIOUS
  <2>3. r \in Seq(S) /\ Len(r) = 5 /\ r[1] = x /\ r[2] = s /\ r[3] = u /\ r[4] = v /\ r[5] = y
    OBVIOUS
  <2> HIDE DEF p, q, r, S
  <2>4. p \o q \in Seq(S) /\ Len(p \o q) = 5
    <3>1. p \o q \in Seq(S)
      BY <2>1, <2>2, ConcatProperties
    <3>2. Len(p \o q) = Len(p) + Len(q)
      BY <2>1, <2>2, ConcatProperties
    <3>3. Len(p) + Len(q) = 5
      BY <2>1, <2>2
    <3>4. QED
      BY <3>1, <3>2, <3>3
  <2>5. \A i \in 1 .. 5 : (p \o q)[i] = IF i <= 1 THEN p[i] ELSE q[i - 1]
    <3>1. \A i \in 1 .. Len(p) + Len(q) : (p \o q)[i] = IF i <= Len(p) THEN p[i] ELSE q[i - Len(p)]
      BY <2>1, <2>2, ConcatProperties
    <3>2. Len(p) + Len(q) = 5
      BY <2>1, <2>2
    <3>3. \A i \in 1 .. 5 : (p \o q)[i] = IF i <= Len(p) THEN p[i] ELSE q[i - Len(p)]
      BY <3>1, <3>2
    <3>4. QED
      BY <2>1, <3>3
  <2>6. \A i \in 1 .. 5 : (p \o q)[i] = r[i]
    <3>1. (p \o q)[1] = x
      <4>1. 1 \in 1 .. 5 /\ 1 - 1 = 0 /\ (1 <= 1) = TRUE
        OBVIOUS
      <4>2. (p \o q)[1] = IF 1 <= 1 THEN p[1] ELSE q[1 - 1]
        BY <2>5, <4>1
      <4>3. QED
        BY <2>1, <2>2, <4>1, <4>2
    <3>2. (p \o q)[2] = s
      <4>1. 2 \in 1 .. 5 /\ 2 - 1 = 1 /\ (2 <= 1) = FALSE
        OBVIOUS
      <4>2. (p \o q)[2] = IF 2 <= 1 THEN p[2] ELSE q[2 - 1]
        BY <2>5, <4>1
      <4>3. QED
        BY <2>1, <2>2, <4>1, <4>2
    <3>3. (p \o q)[3] = u
      <4>1. 3 \in 1 .. 5 /\ 3 - 1 = 2 /\ (3 <= 1) = FALSE
        OBVIOUS
      <4>2. (p \o q)[3] = IF 3 <= 1 THEN p[3] ELSE q[3 - 1]
        BY <2>5, <4>1
      <4>3. QED
        BY <2>1, <2>2, <4>1, <4>2
    <3>4. (p \o q)[4] = v
      <4>1. 4 \in 1 .. 5 /\ 4 - 1 = 3 /\ (4 <= 1) = FALSE
        OBVIOUS
      <4>2. (p \o q)[4] = IF 4 <= 1 THEN p[4] ELSE q[4 - 1]
        BY <2>5, <4>1
      <4>3. QED
        BY <2>1, <2>2, <4>1, <4>2
    <3>5. (p \o q)[5] = y
      <4>1. 5 \in 1 .. 5 /\ 5 - 1 = 4 /\ (5 <= 1) = FALSE
        OBVIOUS
      <4>2. (p \o q)[5] = IF 5 <= 1 THEN p[5] ELSE q[5 - 1]
        BY <2>5, <4>1
      <4>3. QED
        BY <2>1, <2>2, <4>1, <4>2
    <3>6. \A i \in 1 .. 5 : i = 1 \/ i = 2 \/ i = 3 \/ i = 4 \/ i = 5
      OBVIOUS
    <3>7. QED
      BY <2>3, <3>1, <3>2, <3>3, <3>4, <3>5, <3>6
  <2>7. p \o q = r
    BY <2>3, <2>4, <2>6, SeqEqual
  <2>8. QED
    BY <2>7 DEF p, q, r
<1>3. QED
  BY <1>1, <1>2

(* A command byte: acknowledged, then either the next one is asked for or the
   command starts. *)
LEMMA TakeByte ==
  ASSUME TypeOK, WorkerTake, NEW b, queue[1] = <<"data", b>>,
         ~dma.select, dma.bus = CommandPhase, dma.nonDmaReq, dma.dataOut = 0
  PROVE  /\ ~dma'.select /\ dma'.dmaEnabled = dma.dmaEnabled /\ dma'.target = dma.target
         /\ dma'.dataOut = 0
         /\ w'.block = w.block /\ w'.synced = w.synced
         /\ w'.cdb = IF w.index = 0 THEN (IF b[1] = "cdb" THEN b[2] ELSE NoCommand) ELSE w.cdb
         /\ \/ /\ w.index + 1 >= CdbLen /\ pc' = "route" /\ w'.index = 0
               /\ dma'.bus = {"BSY", "CTL", "ACK"} /\ todo' = <<Stat({"BSY", "CTL", "ACK"})>>
            \/ /\ w.index + 1 < CdbLen /\ pc' = "idle" /\ w'.index = w.index + 1
               /\ dma'.bus = CommandPhase /\ dma'.nonDmaReq
               /\ todo' = <<Stat({"BSY", "CTL", "ACK"}), Stat(CommandPhase), Irq(TRUE)>>
<1> DEFINE a == {"BSY", "CTL", "ACK"}
           named == [dma EXCEPT !.command = b,
                                !.target = IF dma.select THEN ExtractTarget(b) ELSE @,
                                !.bus = IF dma.select THEN @ \ {"SEL"} ELSE @]
           d == [named EXCEPT !.nonDmaReq = FALSE, !.bus = (@ \ {"REQ"}) \cup {"ACK"}]
<1>1. DeferData(b) /\ pc = "idle"
  BY TakeFrame
<1>2. dma \in DmaType /\ w \in LocalsType
  BY DEF TypeOK, WorkerType
<1>3. /\ named.bus = CommandPhase /\ named.select = dma.select /\ named.dmaEnabled = dma.dmaEnabled
      /\ named.target = dma.target /\ named.dataOut = dma.dataOut /\ named.statusPending = dma.statusPending
  BY <1>2 DEF DmaType
<1>4. /\ d.bus = a /\ d.select = dma.select /\ d.dmaEnabled = dma.dmaEnabled
      /\ d.target = dma.target /\ d.dataOut = 0
  BY <1>2, <1>3, Requests DEF DmaType
<1>5. "INP" \notin dma.bus
  BY DEF CommandPhase
<1>6. a \cap {"CTL", "INP", "MSG"} = {"CTL"}
  OBVIOUS
<1>7. CommandByte(d, <<Stat(a)>>, b)
  <2> DEFINE taken == dma.nonDmaReq /\ "INP" \notin dma.bus
             dd == IF taken THEN d ELSE named
             acked == IF taken THEN <<Stat(dd.bus)>> ELSE <<>>
  <2>1. \/ /\ dd.bus \cap {"CTL", "INP", "MSG"} = {"CTL"}
           /\ CommandByte(dd, acked, b)
        \/ /\ dd.bus \cap {"CTL", "INP", "MSG"} # {"CTL"}
           /\ dd.dataOut > 0
           /\ ParamByte(dd, acked)
        \/ /\ dd.bus \cap {"CTL", "INP", "MSG"} # {"CTL"}
           /\ dd.dataOut = 0
           /\ dma' = dd
           /\ todo' = acked
           /\ UNCHANGED <<pc, w>>
    BY <1>1, Zenon DEF DeferData
  <2>2. dd = d /\ acked = <<Stat(a)>>
    BY <1>4, <1>5
  <2> HIDE DEF dd, acked, d, a
  <2>3. QED
    BY <2>1, <2>2, <1>4, <1>6
<1> HIDE DEF d
<1>8. /\ w' = [w EXCEPT !.index = NextIndex,
                        !.cdb = IF w.index = 0 THEN (IF b[1] = "cdb" THEN b[2] ELSE NoCommand) ELSE w.cdb]
      /\ IF w.index + 1 >= CdbLen
           THEN dma' = d /\ pc' = "route" /\ todo' = <<Stat(a)>>
           ELSE /\ dma' = [d EXCEPT !.bus = ReqCommand(@), !.nonDmaReq = TRUE]
                /\ todo' = <<Stat(a)>> \o <<Stat(ReqCommand(d.bus)), Irq(TRUE)>>
                /\ UNCHANGED pc
  BY <1>7, Zenon DEF CommandByte
<1>9. /\ w'.block = w.block /\ w'.synced = w.synced /\ w'.index = NextIndex
      /\ w'.cdb = IF w.index = 0 THEN (IF b[1] = "cdb" THEN b[2] ELSE NoCommand) ELSE w.cdb
  BY <1>2, <1>8 DEF LocalsType
<1>10. w.index \in Nat /\ CdbLen \in Nat
  BY <1>2, SizesAssumption DEF LocalsType
<1>11. CASE w.index + 1 >= CdbLen
  <2>1. dma' = d /\ pc' = "route" /\ todo' = <<Stat(a)>> /\ w'.index = 0
    BY <1>8, <1>9, <1>11 DEF NextIndex
  <2>2. QED
    BY <1>4, <1>9, <1>11, <2>1
<1>12. CASE ~(w.index + 1 >= CdbLen)
  <2>1. /\ dma' = [d EXCEPT !.bus = ReqCommand(@), !.nonDmaReq = TRUE]
        /\ todo' = <<Stat(a)>> \o <<Stat(ReqCommand(d.bus)), Irq(TRUE)>>
        /\ pc' = pc /\ w'.index = w.index + 1
    BY <1>8, <1>9, <1>12 DEF NextIndex
  <2>2. d.bus = a /\ ReqCommand(d.bus) = CommandPhase
    BY <1>4, Requests
  <2>3. d \in DmaType
    <3>1. queue[1] \in QueueEntry
      BY TakeFrame, QueueSizes
    <3>2. queue[1][1] = "data" /\ queue[1][2] = b
      OBVIOUS
    <3>3. b \in Byte
      BY <3>1, <3>2, EntryTyped
    <3>4. named \in DmaType
      BY <1>2, <3>3 DEF DmaType
    <3>5. named.bus \in SUBSET Signals /\ (named.bus \ {"REQ"}) \cup {"ACK"} \in SUBSET Signals
      BY <3>4 DEF DmaType, Signals
    <3> HIDE DEF named
    <3>6. QED
      BY <3>4, <3>5 DEF d, DmaType
  <2>4. /\ ~dma'.select /\ dma'.dmaEnabled = dma.dmaEnabled /\ dma'.target = dma.target
        /\ dma'.dataOut = 0 /\ dma'.bus = CommandPhase /\ dma'.nonDmaReq
    BY <1>4, <2>1, <2>2, <2>3 DEF DmaType
  <2>5. todo' = <<Stat(a), Stat(CommandPhase), Irq(TRUE)>>
    <3>1. todo' = <<Stat(a)>> \o <<Stat(CommandPhase), Irq(TRUE)>>
      BY <2>1, <2>2
    <3> HIDE DEF a
    <3>2. QED
      BY <3>1, Joined
  <2>6. w.index + 1 < CdbLen /\ pc' = "idle" /\ w'.index = w.index + 1
    BY <1>1, <1>10, <1>12, <2>1
  <2>7. QED
    BY <1>9, <2>4, <2>5, <2>6
<1>13. QED
  BY <1>11, <1>12

(* A parameter byte: acknowledged, then either the next one is asked for or the
   command is answered GOOD. *)
LEMMA TakeParam ==
  ASSUME TypeOK, WorkerTake, NEW b, queue[1] = <<"data", b>>,
         ~dma.select, dma.bus = ParamPhase, dma.nonDmaReq, dma.dataOut > 0
  PROVE  /\ ~dma'.select /\ dma'.dmaEnabled = dma.dmaEnabled /\ dma'.target = dma.target
         /\ pc' = "idle" /\ w' = w /\ dma'.nonDmaReq
         /\ \/ /\ dma.dataOut > 1 /\ dma'.dataOut = dma.dataOut - 1 /\ dma'.bus = ParamPhase
               /\ todo' = <<Stat({"BSY", "ACK"}), Stat(ParamPhase), Irq(TRUE)>>
            \/ /\ dma.dataOut = 1 /\ dma'.dataOut = 0 /\ dma'.bus = StatusPhase /\ dma'.statusPending
               /\ todo' = <<Stat({"BSY", "ACK"}), <<"status", [id |-> w.cdb, good |-> TRUE]>>,
                            <<"data", [id |-> w.cdb, good |-> TRUE]>>, Stat(StatusPhase), Irq(TRUE)>>
<1> DEFINE a == {"BSY", "ACK"}
           named == [dma EXCEPT !.command = b,
                                !.target = IF dma.select THEN ExtractTarget(b) ELSE @,
                                !.bus = IF dma.select THEN @ \ {"SEL"} ELSE @]
           d == [named EXCEPT !.nonDmaReq = FALSE, !.bus = (@ \ {"REQ"}) \cup {"ACK"}]
<1>1. DeferData(b) /\ pc = "idle"
  BY TakeFrame
<1>2. dma \in DmaType /\ w \in LocalsType
  BY DEF TypeOK, WorkerType
<1>3. /\ named.bus = ParamPhase /\ named.select = dma.select /\ named.dmaEnabled = dma.dmaEnabled
      /\ named.target = dma.target /\ named.dataOut = dma.dataOut /\ named.statusPending = dma.statusPending
  BY <1>2 DEF DmaType
<1>4. /\ d.bus = a /\ d.select = dma.select /\ d.dmaEnabled = dma.dmaEnabled
      /\ d.target = dma.target /\ d.dataOut = dma.dataOut
  BY <1>2, <1>3, Requests DEF DmaType
<1>5. "INP" \notin dma.bus
  BY DEF ParamPhase
<1>6. a \cap {"CTL", "INP", "MSG"} # {"CTL"}
  <2>1. "CTL" \notin a
    OBVIOUS
  <2>2. QED
    BY <2>1
<1>7. ParamByte(d, <<Stat(a)>>)
  <2> DEFINE taken == dma.nonDmaReq /\ "INP" \notin dma.bus
             dd == IF taken THEN d ELSE named
             acked == IF taken THEN <<Stat(dd.bus)>> ELSE <<>>
  <2>1. \/ /\ dd.bus \cap {"CTL", "INP", "MSG"} = {"CTL"}
           /\ CommandByte(dd, acked, b)
        \/ /\ dd.bus \cap {"CTL", "INP", "MSG"} # {"CTL"}
           /\ dd.dataOut > 0
           /\ ParamByte(dd, acked)
        \/ /\ dd.bus \cap {"CTL", "INP", "MSG"} # {"CTL"}
           /\ dd.dataOut = 0
           /\ dma' = dd
           /\ todo' = acked
           /\ UNCHANGED <<pc, w>>
    BY <1>1, Zenon DEF DeferData
  <2>2. dd = d /\ acked = <<Stat(a)>>
    BY <1>4, <1>5
  <2>3. d.dataOut # 0
    BY <1>4
  <2> HIDE DEF dd, acked, d, a
  <2>4. QED
    BY <2>1, <2>2, <2>3, <1>4, <1>6
<1>8. d \in DmaType
  <2>1. queue[1] \in QueueEntry
    BY TakeFrame, QueueSizes
  <2>2. queue[1][1] = "data" /\ queue[1][2] = b
    OBVIOUS
  <2>3. b \in Byte
    BY <2>1, <2>2, EntryTyped
  <2>4. named \in DmaType
    BY <1>2, <2>3 DEF DmaType
  <2>5. named.bus \in SUBSET Signals /\ (named.bus \ {"REQ"}) \cup {"ACK"} \in SUBSET Signals
    BY <2>4 DEF DmaType, Signals
  <2> HIDE DEF named
  <2>6. QED
    BY <2>4, <2>5 DEF d, DmaType
<1>9. dma.dataOut \in Nat
  BY <1>2, SizesAssumption DEF DmaType
<1> HIDE DEF d
<1>10. /\ IF d.dataOut > 1
            THEN /\ dma' = [d EXCEPT !.bus = ReqParam(@), !.nonDmaReq = TRUE, !.dataOut = @ - 1]
                 /\ todo' = <<Stat(a)>> \o <<Stat(ReqParam(d.bus)), Irq(TRUE)>>
            ELSE /\ dma' = AwaitStatus([d EXCEPT !.dataOut = 0])
                 /\ todo' = <<Stat(a)>> \o StatusStores(d.bus, [id |-> w.cdb, good |-> TRUE])
       /\ pc' = pc /\ w' = w
  BY <1>7, Zenon DEF ParamByte
<1>11. CASE dma.dataOut > 1
  <2>1. /\ dma' = [d EXCEPT !.bus = ReqParam(@), !.nonDmaReq = TRUE, !.dataOut = @ - 1]
        /\ todo' = <<Stat(a)>> \o <<Stat(ReqParam(d.bus)), Irq(TRUE)>>
    BY <1>4, <1>10, <1>11
  <2>2. ReqParam(d.bus) = ParamPhase
    BY <1>4, Requests
  <2>3. /\ ~dma'.select /\ dma'.dmaEnabled = dma.dmaEnabled /\ dma'.target = dma.target
        /\ dma'.nonDmaReq /\ dma'.dataOut = dma.dataOut - 1 /\ dma'.bus = ParamPhase
    BY <1>4, <1>8, <2>1, <2>2 DEF DmaType
  <2>4. todo' = <<Stat(a), Stat(ParamPhase), Irq(TRUE)>>
    <3>1. todo' = <<Stat(a)>> \o <<Stat(ParamPhase), Irq(TRUE)>>
      BY <2>1, <2>2
    <3> HIDE DEF a
    <3>2. QED
      BY <3>1, Joined
  <2>5. QED
    BY <1>1, <1>10, <1>11, <2>3, <2>4
<1>12. CASE ~(dma.dataOut > 1)
  <2> DEFINE x == [id |-> w.cdb, good |-> TRUE]
             n == [d EXCEPT !.dataOut = 0]
  <2>1. dma' = AwaitStatus(n) /\ todo' = <<Stat(a)>> \o StatusStores(d.bus, x)
    BY <1>4, <1>10, <1>12
  <2>2. ReqStatus(d.bus) = StatusPhase
    <3>1. d.bus \ {"ACK"} \in PlainBus
      BY <1>4 DEF PlainBus
    <3>2. QED
      BY <3>1, Requests
  <2>3. /\ n.bus = d.bus /\ n.select = d.select /\ n.dmaEnabled = d.dmaEnabled /\ n.target = d.target
        /\ n.dataOut = 0 /\ n \in DmaType
    <3>1. 0 \in 0 .. ParamLen
      BY SizesAssumption
    <3>2. QED
      BY <1>8, <3>1 DEF DmaType
  <2>4. /\ ~dma'.select /\ dma'.dmaEnabled = dma.dmaEnabled /\ dma'.target = dma.target
        /\ dma'.nonDmaReq /\ dma'.dataOut = 0 /\ dma'.bus = StatusPhase /\ dma'.statusPending
    <3> HIDE DEF n
    <3>1. dma' = [n EXCEPT !.bus = ReqStatus(n.bus), !.nonDmaReq = TRUE, !.statusPending = TRUE]
      BY <2>1 DEF AwaitStatus
    <3>2. QED
      BY <1>4, <2>2, <2>3, <3>1 DEF DmaType
  <2>5. todo' = <<Stat(a), <<"status", x>>, <<"data", x>>, Stat(StatusPhase), Irq(TRUE)>>
    <3>1. todo' = <<Stat(a)>> \o <<<<"status", x>>, <<"data", x>>, Stat(StatusPhase), Irq(TRUE)>>
      BY <2>1, <2>2 DEF StatusStores
    <3> HIDE DEF a, x
    <3>2. QED
      BY <3>1, Joined
  <2>6. dma.dataOut = 1
    BY <1>9, <1>12
  <2> HIDE DEF x
  <2>7. QED
    <3> USE DEF x
    <3>1. QED
      BY <1>1, <1>10, <2>4, <2>5, <2>6
<1>13. QED
  BY <1>11, <1>12

(* The entries of the command block and of the parameters. *)
LEMMA ByteEntries ==
  /\ Entry(7) = <<"data", <<"cdb", Current>>>>
  /\ \A k \in Nat : k > 7 => Entry(k) = <<"data", <<"fill", 0>>>>
<1>1. Entry(7) = <<"data", <<"cdb", Current>>>>
  BY DEF Entry
<1>2. ASSUME NEW k \in Nat, k > 7 PROVE Entry(k) = <<"data", <<"fill", 0>>>>
  <2>1. ~(k <= 2) /\ k # 3 /\ k # 4 /\ k # 5 /\ k # 6 /\ k # 7
    BY <1>2
  <2>2. QED
    BY <2>1, Zenon DEF Entry
<1>3. QED
  BY <1>1, <1>2

(* Taking the entry after the i-th of a round of e: the selection, ... *)
LEMMA TakeSelection ==
  ASSUME TypeOK, WorkerTake, NEW e \in Nat, NEW i \in Nat, Round(e), i = e - Len(queue), i < 6
  PROVE  /\ Taken(i + 1)' /\ pc' = "idle"
         /\ LeadsTo(cache'.stat, todo', Forecast(e)')
         /\ Only(todo', {"stat", "irq", "line", "status", "data", "unreset"})
<1>1. /\ pc = "idle" /\ todo = <<>> /\ cache' = cache /\ issued' = issued
      /\ Len(queue) \in Nat /\ Len(queue) > 0 /\ Len(queue') = Len(queue) - 1
  BY TakeFrame
<1>2. queue[1] = Entry(i + 1)
  <2>1. 1 \in 1 .. Len(queue) /\ e - Len(queue) + 1 = i + 1
    BY <1>1
  <2>2. QED
    BY <2>1 DEF Round
<1>3. Preparing(i) /\ i \in 0 .. 5 /\ (i >= 2 => issued # <<>>)
  BY <1>1, RoundSizes DEF Round, Taken
<1>4. Preparing(i + 1)'
  BY <1>2, <1>3, TakePrepares
<1>5. cache.stat = BusAt(e) \cap StatusBits
  BY <1>1 DEF Round, LeadsTo, Forecast
<1>6. Forecast(e)' = BusAt(e) \cap StatusBits
  <2>1. e - Len(queue') <= 6
    BY <1>1
  <2>2. QED
    BY <2>1 DEF Forecast
<1>7. Silent(todo') /\ pc' = "idle"
  BY <1>4 DEF Preparing
<1>8. LeadsTo(cache'.stat, todo', Forecast(e)')
  BY <1>1, <1>5, <1>6, <1>7, PlanPhases
<1>9. Taken(i + 1)'
  <2>1. PICK n \in Nat : n = i + 1
    OBVIOUS
  <2>2. Preparing(n)' /\ n <= 6
    BY <1>4, <2>1
  <2>3. Taken(n)'
    BY <2>2 DEF Taken
  <2>4. QED
    BY <2>1, <2>3
<1>10. Only(todo', {"stat", "irq", "line", "status", "data", "unreset"})
  BY <1>7 DEF Silent, Only
<1>11. QED
  BY <1>7, <1>8, <1>9, <1>10

(* ... the command block, ... *)
LEMMA TakeBlock ==
  ASSUME TypeOK, WorkerTake, NEW e \in Nat, NEW i \in Nat, Round(e), i = e - Len(queue),
         6 <= i, i < Block
  PROVE  /\ Taken(i + 1)'
         /\ LeadsTo(cache'.stat, todo', Forecast(e)')
         /\ pc' # "idle" => /\ pc' = "route" /\ w'.cdb = Current /\ Only(todo', {"stat"})
                            /\ dma'.target = Mine.target /\ e = Block /\ i + 1 = Block
         /\ i + 1 = Block => pc' # "idle"
         /\ Only(todo', {"stat", "irq", "line", "status", "data", "unreset"})
<1>1. /\ pc = "idle" /\ todo = <<>> /\ cache' = cache /\ issued' = issued
      /\ Len(queue) \in Nat /\ Len(queue) > 0 /\ Len(queue') = Len(queue) - 1
      /\ queue \in Seq(QueueEntry) /\ queue' = Tail(queue)
  BY TakeFrame, QueueSizes
<1>2. /\ Block \in Nat /\ Block = 6 + CdbLen /\ CdbLen \in Nat /\ CdbLen > 0 /\ Final >= Block /\ Final \in Nat
  BY RoundSizes
<1>3. e <= Block /\ issued # <<>>
  BY <1>1, <1>2 DEF Round, Routed
<1>4. /\ Mine' = Mine /\ Current' = Current /\ Final' = Final
  BY <1>1 DEF Mine, Current, Asks, Final
<1> DEFINE b == IF i = 6 THEN <<"cdb", Current>> ELSE <<"fill", 0>>
<1>5. queue[1] = <<"data", b>>
  <2>1. 1 \in 1 .. Len(queue) /\ e - Len(queue) + 1 = i + 1
    BY <1>1
  <2>2. queue[1] = Entry(i + 1)
    BY <2>1 DEF Round
  <2>3. CASE i = 6
    <3>1. i + 1 = 7
      BY <2>3
    <3>2. queue[1] = Entry(7)
      BY <2>2, <3>1
    <3>3. QED
      BY <2>3, <3>2, ByteEntries
  <2>4. CASE i # 6
    <3>1. i + 1 \in Nat /\ i + 1 > 7
      BY <2>4
    <3>2. QED
      BY <2>2, <2>4, <3>1, ByteEntries
  <2>5. QED
    BY <2>3, <2>4
<1>6. /\ ~dma.select /\ dma.bus = CommandPhase /\ dma.nonDmaReq /\ dma.dataOut = 0
      /\ dma.dmaEnabled = Mine.dma /\ dma.target = Mine.target
      /\ w.index = i - 6 /\ (i > 6 => w.cdb = Current)
  <2>1. CASE i = 6
    <3>1. Preparing(6)
      BY <2>1 DEF Round, Taken
    <3>2. QED
      BY <2>1, <3>1, BusValues DEF Preparing
  <2>2. CASE i > 6
    <3>1. Receiving(i)
      BY <1>1, <1>2, <2>2 DEF Round, Taken, Executing
    <3>2. QED
      BY <2>2, <3>1 DEF Round, Taken, Receiving
  <2>3. QED
    BY <2>1, <2>2
<1>7. cache.stat = CommandPhase
  <2>1. Forecast(e) = CommandPhase
    BY <1>1, <1>6, BusAtPhase, Requests DEF Forecast
  <2>2. QED
    BY <1>1, <2>1 DEF Round, LeadsTo
<1> HIDE DEF b
<1>8. /\ ~dma'.select /\ dma'.dmaEnabled = dma.dmaEnabled /\ dma'.target = dma.target
      /\ dma'.dataOut = 0
      /\ w'.cdb = IF w.index = 0 THEN (IF b[1] = "cdb" THEN b[2] ELSE NoCommand) ELSE w.cdb
      /\ \/ /\ w.index + 1 >= CdbLen /\ pc' = "route" /\ w'.index = 0
            /\ dma'.bus = {"BSY", "CTL", "ACK"} /\ todo' = <<Stat({"BSY", "CTL", "ACK"})>>
         \/ /\ w.index + 1 < CdbLen /\ pc' = "idle" /\ w'.index = w.index + 1
            /\ dma'.bus = CommandPhase /\ dma'.nonDmaReq
            /\ todo' = <<Stat({"BSY", "CTL", "ACK"}), Stat(CommandPhase), Irq(TRUE)>>
  BY <1>5, <1>6, TakeByte
<1>9. w'.cdb = Current
  <2>1. CASE i = 6
    <3>1. b[1] = "cdb" /\ b[2] = Current
      BY <2>1 DEF b
    <3>2. w.index = 0
      BY <1>6, <2>1
    <3>3. QED
      BY <1>8, <3>1, <3>2
  <2>2. CASE i > 6
    <3>1. w.index # 0 /\ w.cdb = Current
      BY <1>6, <2>2
    <3>2. QED
      BY <1>8, <3>1
  <2>3. QED
    BY <2>1, <2>2
<1>10. Forecast(e)' = dma'.bus \cap StatusBits
  <2>1. ~(e - Len(queue') <= 6)
    BY <1>1
  <2>2. QED
    BY <2>1 DEF Forecast
<1>11. CASE i + 1 < Block
  <2>1. /\ pc' = "idle" /\ w'.index = w.index + 1 /\ dma'.bus = CommandPhase /\ dma'.nonDmaReq
        /\ todo' = <<Stat({"BSY", "CTL", "ACK"}), Stat(CommandPhase), Irq(TRUE)>>
    <3>1. w.index + 1 < CdbLen /\ ~(w.index + 1 >= CdbLen)
      BY <1>2, <1>6, <1>11
    <3>2. QED
      BY <1>8, <3>1
  <2>2. LeadsTo(cache'.stat, todo', Forecast(e)')
    <3>1. LeadsTo(cache'.stat, <<Stat({"BSY", "CTL", "ACK"}), Stat(CommandPhase), Irq(TRUE)>>,
                  CommandPhase \cap StatusBits)
      BY PlanPhases, Zenon
    <3>2. QED
      BY <1>10, <2>1, <3>1
  <2>3. Only(todo', {"stat", "irq", "line"}) /\ Among(todo', {Taking, CommandPhase})
    <3>1. Taking \in {Taking, CommandPhase} /\ CommandPhase \in {Taking, CommandPhase}
      OBVIOUS
    <3>2. {"BSY", "CTL", "ACK"} \cap StatusBits = Taking /\ CommandPhase \cap StatusBits = CommandPhase
      BY Requests
    <3>3. QED
      BY <2>1, <3>1, <3>2, PlanPhases, PlanKinds
  <2>4. PICK n \in Nat : n = i + 1
    OBVIOUS
  <2>5. w'.index = n - 6
    BY <1>6, <2>1, <2>4
  <2>6. Receiving(n)'
    BY <1>1, <1>7, <1>8, <2>1, <2>3, <2>5 DEF Receiving
  <2>7. Taken(n)'
    BY <1>4, <1>6, <1>8, <1>9, <1>11, <2>4, <2>6 DEF Taken
  <2>8. Only(todo', {"stat", "irq", "line", "status", "data", "unreset"})
    BY <2>3 DEF Only
  <2>9. QED
    BY <1>2, <1>11, <2>1, <2>2, <2>4, <2>7, <2>8
<1>12. CASE i + 1 = Block
  <2>1. /\ pc' = "route" /\ w'.index = 0
        /\ dma'.bus = {"BSY", "CTL", "ACK"} /\ todo' = <<Stat({"BSY", "CTL", "ACK"})>>
    <3>1. ~(w.index + 1 < CdbLen)
      BY <1>2, <1>6, <1>12
    <3>2. QED
      BY <1>8, <3>1
  <2>2. e = Block /\ Len(queue) = 1
    <3>1. Len(queue) \in Nat /\ Len(queue) > 0 /\ Block \in Nat /\ e <= Block
      BY <1>1, <1>2, <1>3
    <3>2. PICK q \in Nat : q = Len(queue)
      BY <3>1
    <3>3. i = e - q /\ q > 0 /\ i + 1 = Block
      BY <1>12, <3>1, <3>2
    <3>4. e = Block /\ q = 1
      BY <3>1, <3>3
    <3>5. QED
      BY <3>2, <3>4
  <2>3. queue' = <<>>
    BY <1>1, <2>2
  <2>4. /\ {"BSY", "CTL", "ACK"} \cap StatusBits = Taking /\ {"BSY", "CTL", "ACK"} \ {"ACK"} = Taking
        /\ Taking \in PlainBus /\ CommandPhase \notin PlainBus
    BY Requests, PhasesDiffer DEF PlainBus
  <2>5. Only(todo', {"stat"}) /\ Among(todo', PlainBus) /\ Among(todo', {Taking})
    <3> DEFINE a == {"BSY", "CTL", "ACK"}
    <3>1. a \cap StatusBits \in {Taking} /\ a \cap StatusBits \in PlainBus
      BY <2>4
    <3> HIDE DEF a
    <3>2. Only(<<Stat(a)>>, {"stat"})
      BY PlanKinds, Zenon
    <3>3. Among(<<Stat(a)>>, PlainBus) /\ Among(<<Stat(a)>>, {Taking})
      BY <3>1, PlanPhases, Zenon
    <3>4. todo' = <<Stat(a)>>
      BY <2>1 DEF a
    <3>5. QED
      BY <3>2, <3>3, <3>4
  <2>6. LeadsTo(cache'.stat, todo', Forecast(e)')
    <3>1. LeadsTo(cache'.stat, todo', {"BSY", "CTL", "ACK"} \cap StatusBits)
      BY <2>1, PlanPhases
    <3>2. QED
      BY <1>10, <2>1, <3>1
  <2>7. Executing'
    <3>1. pc' # "idle" /\ dma'.bus \ {"ACK"} \in PlainBus /\ cache'.stat = CommandPhase
      BY <1>1, <1>7, <2>1, <2>4
    <3>2. QED
      BY <1>8, <2>1, <2>3, <2>5, <3>1 DEF Executing
  <2>8. PICK n \in Nat : n = i + 1
    OBVIOUS
  <2>9. Taken(n)'
    BY <1>2, <1>4, <1>6, <1>8, <1>9, <1>12, <2>7, <2>8 DEF Taken
  <2>10. Only(todo', {"stat", "irq", "line", "status", "data", "unreset"})
    BY <2>5 DEF Only
  <2>11. QED
    BY <1>6, <1>8, <1>9, <1>12, <2>1, <2>2, <2>5, <2>6, <2>8, <2>9, <2>10
<1>13. QED
  BY <1>2, <1>11, <1>12

(* The plan of the last parameter byte: ordered as an answer has to be. *)
LEMMA AnswerPlan ==
  ASSUME NEW x
  PROVE  LET s == <<Stat({"BSY", "ACK"}), <<"status", x>>, <<"data", x>>, Stat(StatusPhase), Irq(TRUE)>>
         IN  /\ Only(s, {"stat", "status", "data", "irq"}) /\ Only(s, AnswerKinds) /\ Among(s, {{"BSY"}, StatusPhase})
             /\ \A c : LeadsTo(c, s, StatusPhase)
             /\ \A c : c # StatusPhase => Announces(c, s)
             /\ \E i \in 1 .. Len(s) : s[i][1] = "status"
             /\ \A i \in 1 .. Len(s) : s[i][1] = "status" => s[i][2] = x
<1> DEFINE s == <<Stat({"BSY", "ACK"}), <<"status", x>>, <<"data", x>>, Stat(StatusPhase), Irq(TRUE)>>
<1>1. {"BSY", "ACK"} \cap StatusBits = {"BSY"} /\ StatusPhase \cap StatusBits = StatusPhase
  BY Requests
<1>2. {"BSY"} # StatusPhase
  BY PhasesDiffer DEF PlainBus
<1>3. /\ Len(s) = 5
      /\ s[1] = <<"stat", {"BSY"}>> /\ s[2] = <<"status", x>> /\ s[3] = <<"data", x>>
      /\ s[4] = <<"stat", StatusPhase>> /\ s[5] = <<"irq", TRUE>>
  BY <1>1 DEF Stat, Irq
<1>4. \A i \in 1 .. 5 : i = 1 \/ i = 2 \/ i = 3 \/ i = 4 \/ i = 5
  OBVIOUS
<1> HIDE DEF s
<1>5. /\ s[1][1] = "stat" /\ s[1][2] = {"BSY"} /\ s[2][1] = "status" /\ s[2][2] = x /\ s[3][1] = "data"
      /\ s[4][1] = "stat" /\ s[4][2] = StatusPhase /\ s[5][1] = "irq"
  BY <1>3
<1>6. Only(s, {"stat", "status", "data", "irq"}) /\ Only(s, AnswerKinds)
  BY <1>3, <1>4, <1>5 DEF Only, AnswerKinds
<1>7. Among(s, {{"BSY"}, StatusPhase})
  BY <1>3, <1>4, <1>5 DEF Among
<1>8. \A c : LeadsTo(c, s, StatusPhase)
  <2>1. \A i \in 1 .. 5 : (s[i][1] = "stat" /\ (\A j \in 1 .. 5 : i < j => s[j][1] # "stat")) => i = 4
    BY <1>4, <1>5
  <2>2. 1 \in 1 .. 5
    OBVIOUS
  <2>3. QED
    BY <1>3, <1>5, <2>1, <2>2 DEF LeadsTo
<1>9. ASSUME NEW c, c # StatusPhase PROVE Announces(c, s)
  <2>1. \A i \in 1 .. 5 : s[i] = <<"stat", StatusPhase>> => i = 4
    <3>1. s[1] # <<"stat", StatusPhase>>
      BY <1>2, <1>3
    <3>2. QED
      BY <1>4, <1>5, <3>1
  <2>2. \A i, j \in 1 .. 5 : i < j /\ s[i] = <<"stat", StatusPhase>> => s[j][1] \in {"irq", "line"}
    <3>1. \A j \in 1 .. 5 : 4 < j => j = 5
      OBVIOUS
    <3>2. QED
      BY <1>5, <2>1, <3>1
  <2>3. \A j \in 1 .. 5 : s[j] = <<"stat", StatusPhase>> => \E i \in 1 .. 5 : i < j /\ s[i][1] = "stat"
    <3>1. 1 \in 1 .. 5 /\ 1 < 4
      OBVIOUS
    <3>2. QED
      BY <1>5, <2>1, <3>1
  <2>4. QED
    BY <1>3, <1>9, <2>2, <2>3 DEF Announces
<1>10. (\E i \in 1 .. Len(s) : s[i][1] = "status") /\ \A i \in 1 .. Len(s) : s[i][1] = "status" => s[i][2] = x
  <2>1. 2 \in 1 .. 5
    OBVIOUS
  <2>2. QED
    BY <1>3, <1>4, <1>5, <2>1
<1>11. QED
  BY <1>6, <1>7, <1>8, <1>9, <1>10 DEF s

(* ... and the parameters. *)
LEMMA TakeParameters ==
  ASSUME TypeOK, WorkerTake, NEW e \in Nat, NEW i \in Nat, Round(e), i = e - Len(queue), Block <= i
  PROVE  /\ Taken(i + 1)' /\ pc' = "idle"
         /\ LeadsTo(cache'.stat, todo', Forecast(e)')
         /\ Only(todo', {"stat", "irq", "line", "status", "data", "unreset"})
<1>1. /\ pc = "idle" /\ todo = <<>> /\ cache' = cache /\ issued' = issued
      /\ Len(queue) \in Nat /\ Len(queue) > 0 /\ Len(queue') = Len(queue) - 1
      /\ queue \in Seq(QueueEntry) /\ queue' = Tail(queue)
  BY TakeFrame, QueueSizes
<1>2. /\ Block \in Nat /\ Block > 6 /\ Final >= Block /\ Final \in Nat
  BY RoundSizes
<1>3. e <= Final /\ issued # <<>>
  BY <1>1, <1>2 DEF Round
<1>4. /\ Mine' = Mine /\ Current' = Current /\ Final' = Final /\ (Asks' <=> Asks)
  BY <1>1 DEF Mine, Current, Asks, Final
<1>5. queue[1] = <<"data", <<"fill", 0>>>>
  <2>1. 1 \in 1 .. Len(queue) /\ e - Len(queue) + 1 = i + 1
    BY <1>1
  <2>2. queue[1] = Entry(i + 1)
    BY <2>1 DEF Round
  <2>3. i + 1 \in Nat /\ i + 1 > 7
    BY <1>2
  <2>4. QED
    BY <2>2, <2>3, ByteEntries
<1>6. queue # <<>>
  BY <1>1
<1>7. Asking(i) /\ ~dma.select /\ dma.dmaEnabled = Mine.dma /\ dma.target = Mine.target /\ w.cdb = Current
      /\ i < Final
  BY <1>1, <1>2, <1>6 DEF Round, Taken, Receiving, Executing, Answering
<1>8. /\ dma.bus = ParamPhase /\ dma.nonDmaReq /\ dma.dataOut = Final - i /\ w.index = 0
      /\ cache.stat \in PlainBus \cup {ParamPhase} /\ Asks
  BY <1>7 DEF Asking
<1>9. cache.stat = ParamPhase
  <2>1. Forecast(e) = ParamPhase
    BY <1>1, <1>2, <1>8, Requests DEF Forecast
  <2>2. QED
    BY <1>1, <2>1 DEF Round, LeadsTo
<1> DEFINE x == [id |-> w.cdb, good |-> TRUE]
<1>10. /\ ~dma'.select /\ dma'.dmaEnabled = dma.dmaEnabled /\ dma'.target = dma.target
       /\ pc' = "idle" /\ w' = w /\ dma'.nonDmaReq
       /\ \/ /\ dma.dataOut > 1 /\ dma'.dataOut = dma.dataOut - 1 /\ dma'.bus = ParamPhase
             /\ todo' = <<Stat({"BSY", "ACK"}), Stat(ParamPhase), Irq(TRUE)>>
          \/ /\ dma.dataOut = 1 /\ dma'.dataOut = 0 /\ dma'.bus = StatusPhase /\ dma'.statusPending
             /\ todo' = <<Stat({"BSY", "ACK"}), <<"status", x>>, <<"data", x>>, Stat(StatusPhase), Irq(TRUE)>>
  <2>1. dma.dataOut > 0
    BY <1>2, <1>7, <1>8
  <2>2. QED
    BY <1>5, <1>7, <1>8, <2>1, TakeParam
<1>11. Forecast(e)' = dma'.bus \cap StatusBits
  <2>1. ~(e - Len(queue') <= 6)
    BY <1>1, <1>2
  <2>2. QED
    BY <2>1 DEF Forecast
<1>12. PICK n \in Nat : n = i + 1
  OBVIOUS
<1>13. CASE dma.dataOut > 1
  <2>1. /\ dma'.dataOut = dma.dataOut - 1 /\ dma'.bus = ParamPhase
        /\ todo' = <<Stat({"BSY", "ACK"}), Stat(ParamPhase), Irq(TRUE)>>
    <3>1. dma.dataOut # 1
      BY <1>13
    <3> HIDE DEF x
    <3>2. QED
      BY <1>10, <3>1, Zenon
  <2>2. LeadsTo(cache'.stat, todo', Forecast(e)')
    <3>1. LeadsTo(cache'.stat, <<Stat({"BSY", "ACK"}), Stat(ParamPhase), Irq(TRUE)>>,
                  ParamPhase \cap StatusBits)
      BY PlanPhases, Zenon
    <3>2. QED
      BY <1>11, <2>1, <3>1
  <2>3. Only(todo', {"stat", "irq", "line"}) /\ Among(todo', {{"BSY"}, ParamPhase})
    <3> DEFINE a == {"BSY", "ACK"}
               X == {{"BSY"}, ParamPhase}
    <3>1. a \cap StatusBits \in X /\ ParamPhase \cap StatusBits \in X
      BY Requests
    <3> HIDE DEF a, X
    <3>2. Only(<<Stat(a), Stat(ParamPhase), Irq(TRUE)>>, {"stat", "irq", "line"})
      BY PlanKinds, Zenon
    <3>3. Among(<<Stat(a), Stat(ParamPhase), Irq(TRUE)>>, X)
      BY <3>1, PlanPhases, Zenon
    <3>4. todo' = <<Stat(a), Stat(ParamPhase), Irq(TRUE)>>
      BY <2>1 DEF a
    <3>5. QED
      BY <3>2, <3>3, <3>4 DEF X
  <2>4. dma'.dataOut = Final' - n /\ n < Final'
    BY <1>2, <1>4, <1>7, <1>8, <1>12, <1>13, <2>1
  <2>5. Asking(n)'
    BY <1>1, <1>4, <1>8, <1>9, <1>10, <2>1, <2>3, <2>4 DEF Asking
  <2>6. Block <= n /\ 6 < n
    BY <1>2, <1>12
  <2>7. Taken(n)'
    BY <1>4, <1>7, <1>10, <2>4, <2>5, <2>6 DEF Taken
  <2>8. Only(todo', {"stat", "irq", "line", "status", "data", "unreset"})
    BY <2>3 DEF Only
  <2>9. QED
    BY <1>10, <1>12, <2>2, <2>7, <2>8
<1>14. CASE ~(dma.dataOut > 1)
  <2>1. /\ dma.dataOut = 1 /\ dma'.dataOut = 0 /\ dma'.bus = StatusPhase /\ dma'.statusPending
        /\ todo' = <<Stat({"BSY", "ACK"}), <<"status", x>>, <<"data", x>>, Stat(StatusPhase), Irq(TRUE)>>
    BY <1>10, <1>14
  <2>2. n = Final
    BY <1>2, <1>8, <1>12, <2>1
  <2>3. queue' = <<>>
    <3>1. PICK q \in Nat : q = Len(queue)
      BY <1>1
    <3>2. i = e - q /\ q > 0 /\ e <= Final /\ i + 1 = Final
      BY <1>1, <1>3, <1>12, <2>2, <3>1
    <3>3. q = 1
      BY <1>2, <3>2
    <3>4. QED
      BY <1>1, <3>1, <3>3
  <2>4. /\ Only(todo', {"stat", "status", "data", "irq"}) /\ Only(todo', AnswerKinds) /\ Among(todo', {{"BSY"}, StatusPhase})
        /\ \A c : LeadsTo(c, todo', StatusPhase)
        /\ \A c : c # StatusPhase => Announces(c, todo')
        /\ \E k \in 1 .. Len(todo') : todo'[k][1] = "status"
        /\ \A k \in 1 .. Len(todo') : todo'[k][1] = "status" => todo'[k][2] = x
    <3> DEFINE Good(s) == /\ Only(s, {"stat", "status", "data", "irq"}) /\ Only(s, AnswerKinds) /\ Among(s, {{"BSY"}, StatusPhase})
                          /\ \A c : LeadsTo(c, s, StatusPhase)
                          /\ \A c : c # StatusPhase => Announces(c, s)
                          /\ \E k \in 1 .. Len(s) : s[k][1] = "status"
                          /\ \A k \in 1 .. Len(s) : s[k][1] = "status" => s[k][2] = x
    <3>1. Good(<<Stat({"BSY", "ACK"}), <<"status", x>>, <<"data", x>>, Stat(StatusPhase), Irq(TRUE)>>)
      BY AnswerPlan, Zenon
    <3> HIDE DEF Good
    <3>2. Good(todo')
      BY <2>1, <3>1
    <3>3. QED
      BY <3>2 DEF Good
  <2>5. LeadsTo(cache'.stat, todo', Forecast(e)')
    <3>1. Forecast(e)' = StatusPhase
      BY <1>11, <2>1, Requests
    <3>2. LeadsTo(cache'.stat, todo', StatusPhase)
      BY <2>4
    <3>3. QED
      BY <3>1, <3>2
  <2>6. cache'.stat = ParamPhase /\ ParamPhase # StatusPhase
    BY <1>1, <1>9, PhasesDiffer
  <2>7. (RightVerdict(x))'
    <3>1. w'.cdb = Current' /\ Executed'
      BY <1>4, <1>7, <1>8, <1>10 DEF Executed, Asks
    <3>2. QED
      BY <3>1 DEF RightVerdict
  <2>8. \A k \in 1 .. Len(todo') : todo'[k][1] = "status" => (RightVerdict(todo[k][2]))'
    <3>1. ASSUME NEW k \in 1 .. Len(todo'), todo'[k][2] = x
          PROVE  (RightVerdict(todo[k][2]))'
      <4>1. x' = x
        BY <1>10
      <4>2. QED
        BY <2>7, <3>1, <4>1 DEF RightVerdict
    <3>2. QED
      BY <2>4, <3>1
  <2>9. Answering'
    BY <1>8, <1>10, <2>1, <2>3, <2>4, <2>6, <2>8 DEF Answering
  <2>10. 6 < n /\ n = Final'
    BY <1>2, <1>4, <1>12, <2>2
  <2>11. Taken(n)'
    BY <1>4, <1>7, <1>10, <2>9, <2>10 DEF Taken
  <2>12. Only(todo', {"stat", "irq", "line", "status", "data", "unreset"})
    BY <2>4 DEF Only
  <2>13. QED
    BY <1>10, <1>12, <2>5, <2>11, <2>12
<1>15. QED
  BY <1>13, <1>14

(* Taking an entry keeps host and worker in step: the round, ... *)
LEMMA TakeKeepsRound ==
  ASSUME TypeOK, WorkerTake, NEW e \in Nat, Round(e)
  PROVE  /\ Round(e)'
         /\ Only(todo', {"stat", "irq", "line", "status", "data", "unreset"})
         /\ pc' # "idle" =>
              /\ pc' = "route" /\ w'.cdb = Current /\ Only(todo', {"stat"}) /\ dma'.target = Mine.target
              /\ e = Block /\ issued # <<>> /\ (hp # "addr" => addr = Programmed(Current, 0))
         /\ Routed(e) => Routed(e)'
<1>1. /\ pc = "idle" /\ todo = <<>> /\ cache' = cache /\ issued' = issued /\ hp' = hp /\ addr' = addr
      /\ Len(queue) \in Nat /\ Len(queue) > 0 /\ Len(queue') = Len(queue) - 1
      /\ \A k \in 1 .. Len(queue') : k + 1 \in 1 .. Len(queue) /\ queue'[k] = queue[k + 1]
  BY TakeFrame
<1>2. /\ Block \in Nat /\ Block > 6 /\ Final >= Block /\ Final \in Nat
  BY RoundSizes
<1>3. /\ Mine' = Mine /\ Current' = Current /\ Final' = Final /\ BaseControl' = BaseControl
  BY <1>1 DEF Mine, Current, Asks, Final, BaseControl
<1>4. PICK i \in Nat : i = e - Len(queue)
  <2>1. Len(queue) <= e
    BY DEF Round
  <2>2. e - Len(queue) \in Nat
    BY <1>1, <2>1
  <2>3. QED
    BY <2>2
<1>5. Taken(i)
  BY <1>4 DEF Round
<1>6. /\ Taken(i + 1)' /\ LeadsTo(cache'.stat, todo', Forecast(e)')
      /\ pc' # "idle" =>
           /\ pc' = "route" /\ w'.cdb = Current /\ Only(todo', {"stat"}) /\ dma'.target = Mine.target
           /\ e = Block /\ i + 1 = Block
      /\ Only(todo', {"stat", "irq", "line", "status", "data", "unreset"})
  <2>1. CASE i < 6
    BY <1>4, <2>1, TakeSelection
  <2>2. CASE 6 <= i /\ i < Block
    BY <1>4, <2>2, TakeBlock
  <2>3. CASE Block <= i
    BY <1>4, <2>3, TakeParameters
  <2>4. i < 6 \/ (6 <= i /\ i < Block) \/ Block <= i
    BY <1>2
  <2>5. QED
    BY <2>1, <2>2, <2>3, <2>4, Zenon
<1>7. pc' # "idle" =>
        /\ pc' = "route" /\ w'.cdb = Current /\ Only(todo', {"stat"}) /\ dma'.target = Mine.target
        /\ e = Block /\ i < Block
  BY <1>2, <1>6
<1>8. pc' # "idle" => issued # <<>> /\ (hp # "addr" => addr = Programmed(Current, 0))
  BY <1>2, <1>4, <1>7 DEF Round
<1>9. Only(todo', {"stat", "irq", "line", "status", "data", "unreset"})
  BY <1>6
<1>10. Routed(e) => Routed(e)'
  <2> SUFFICES ASSUME Routed(e) PROVE Routed(e)'
    OBVIOUS
  <2>1. Block <= i
    BY <1>4 DEF Routed
  <2>2. pc' = "idle"
    BY <1>7, <1>2, <2>1
  <2>3. e - Len(queue') = i + 1
    BY <1>1, <1>4
  <2>4. Block <= e - Len(queue')
    BY <1>2, <2>1, <2>3
  <2>5. QED
    BY <2>2, <2>4 DEF Routed
<1>11. (Taken(e - Len(queue)))'
  <2>1. PICK p \in Nat : p = i + 1
    OBVIOUS
  <2>2. Taken(p)'
    BY <1>6, <2>1
  <2>3. p = e - Len(queue')
    BY <1>1, <1>4, <2>1
  <2>4. QED
    BY <2>2, <2>3
<1>12. (LeadsTo(cache.stat, todo, Forecast(e)))'
  BY <1>6 DEF LeadsTo
<1>13. \A k \in 1 .. Len(queue') : queue'[k] = (Entry(e - Len(queue) + k))'
  <2>1. ASSUME NEW k \in 1 .. Len(queue')
        PROVE  queue'[k] = (Entry(e - Len(queue) + k))'
    <3>1. queue[k + 1] = Entry(e - Len(queue) + (k + 1)) /\ queue'[k] = queue[k + 1]
      BY <1>1 DEF Round
    <3>2. e - Len(queue) + (k + 1) = e - Len(queue') + k
      BY <1>1
    <3>3. queue'[k] = Entry(e - Len(queue') + k)
      BY <3>1, <3>2
    <3>4. QED
      BY <1>3, <3>3 DEF Entry
  <2>2. QED
    BY <2>1
<1>14. (2 < e /\ e - Len(queue) < Block /\ hp # "addr" => addr = Programmed(Current, 0))'
  <2>1. e - Len(queue') < Block => e - Len(queue) < Block
    BY <1>1, <1>2
  <2>2. QED
    BY <1>1, <1>3, <2>1 DEF Round
<1>15. (Len(queue) <= e)' /\ (e > 2 => issued # <<>> /\ e <= Final)'
  <2>1. Len(queue) <= e /\ Len(queue') <= e
    BY <1>1 DEF Round
  <2>2. QED
    BY <1>1, <1>3, <2>1 DEF Round
<1>16. (Block < e => Routed(e))'
  BY <1>10 DEF Round
<1>17. Round(e)'
  BY <1>11, <1>12, <1>13, <1>14, <1>15, <1>16 DEF Round
<1>18. QED
  BY <1>7, <1>8, <1>9, <1>10, <1>17

(* ... the mirrored address, ... *)
LEMMA TakeKeepsMirroring ==
  ASSUME TypeOK, WorkerTake, Mirroring(cache.addr, todo),
         Only(todo', {"stat", "irq", "line", "status", "data", "unreset"})
  PROVE  (Mirroring(cache.addr, todo))'
<1>1. todo = <<>> /\ cache' = cache /\ addr' = addr
  BY TakeFrame
<1>2. \A l \in Lane : cache.addr[l] = addr[l]
  <2>1. ASSUME NEW l \in Lane PROVE cache.addr[l] = addr[l]
    <3>1. ~\E i \in 1 .. Len(todo) : todo[i] = <<"sync", l>>
      BY <1>1
    <3>2. QED
      BY <3>1 DEF Mirroring
  <2>2. QED
    BY <2>1
<1>3. \A i \in 1 .. Len(todo') : todo'[i][1] # "sync" /\ todo'[i][1] # "addr"
  BY DEF Only
<1>4. QED
  BY <1>1, <1>2, <1>3 DEF Mirroring

(* ... what the host has seen, ... *)
LEMMA TakeKeepsObserved ==
  ASSUME TypeOK, WorkerTake, hp \notin {"reset", "unreset", "settle"}, Round(Sent), Observed
  PROVE  Observed'
<1>1. UNCHANGED <<cache, status, addr, hp, latch, step, issued>> /\ Len(queue) \in Nat /\ Len(queue) > 0
  BY TakeFrame
<1>2. /\ Mine' = Mine /\ Current' = Current /\ Sent' = Sent /\ (Asks' <=> Asks)
  <2>1. Mine' = Mine /\ Current' = Current /\ (Asks' <=> Asks)
    BY <1>1 DEF Mine, Current, Asks
  <2>2. Sent' = Sent
    BY <1>1, <2>1 DEF Sent, Final
  <2>3. QED
    BY <2>1, <2>2
<1>3. hp # "readstat"
  <2>1. hp = "readstat" => Sent = 0
    BY DEF Sent
  <2>2. QED
    BY <1>1, <2>1 DEF Round
<1>4. Routed(Sent) => Routed(Sent)'
  <2>1. Sent \in Nat
    BY RoundSizes DEF Sent, TypeOK, HostType
  <2>2. PICK p \in Nat : p = Sent
    BY <2>1
  <2>3. Routed(p) => Routed(p)'
    BY <2>2, TakeKeepsRound
  <2>4. QED
    BY <1>2, <2>2, <2>3 DEF Routed
<1>5. QED
  BY <1>1, <1>2, <1>3, <1>4 DEF Observed

(* ... the way out of a reset: the answer to it clears the cache ... *)
LEMMA ResetPlan ==
  /\ Only(ResetStores, {"stat", "irq", "line", "status", "data", "unreset"})
  /\ \A c : LeadsTo(c, ResetStores, BusFree)
<1> DEFINE s == ResetStores
<1>1. /\ Len(s) = 5
      /\ s[1][1] = "status" /\ s[2][1] = "unreset" /\ s[3][1] = "irq"
      /\ s[4][1] = "stat" /\ s[4][2] = BusFree /\ s[5][1] = "data"
  BY DEF ResetStores, Irq, Stat, BusFree
<1>2. \A i \in 1 .. 5 : i = 1 \/ i = 2 \/ i = 3 \/ i = 4 \/ i = 5
  OBVIOUS
<1> HIDE DEF s
<1>3. Only(s, {"stat", "irq", "line", "status", "data", "unreset"})
  BY <1>1, <1>2 DEF Only
<1>4. \A c : LeadsTo(c, s, BusFree)
  <2>1. 4 \in 1 .. 5
    OBVIOUS
  <2>2. QED
    BY <1>1, <1>2, <2>1 DEF LeadsTo
<1>5. QED
  BY <1>3, <1>4 DEF s

(* ... and the worker, which meets at most a read before it (dma_device_reset), ... *)
LEMMA TakeKeepsClearing ==
  ASSUME TypeOK, WorkerTake, Clearing, hp \in {"unreset", "settle"}
  PROVE  /\ Clearing' /\ pc' = "idle"
         /\ Only(todo', {"stat", "irq", "line", "status", "data", "unreset"})
<1>1. /\ pc = "idle" /\ todo = <<>> /\ cache' = cache /\ hp' = hp
      /\ Len(queue) \in Nat /\ Len(queue) > 0 /\ Len(queue') = Len(queue) - 1
      /\ queue \in Seq(QueueEntry) /\ queue' = Tail(queue)
      /\ queue[1] = <<"read", 0>> => DeferRead
      /\ \A c : queue[1] = <<"control", c>> =>
           ("RESET" \in c /\ DeferReset(c)) \/ ("RESET" \notin c /\ DeferControl(c))
  BY TakeFrame, QueueSizes
<1>2. dma \in DmaType /\ w \in LocalsType
  BY DEF TypeOK, WorkerType
<1>3. Released' = Released /\ (Released = <<>> \/ Released = <<<<"control", {}>>>>)
  BY <1>1 DEF Released
<1>4. CASE queue = <<ResetWrite>> \o Released
  <2>1. queue[1] = ResetWrite /\ queue' = Released
    BY <1>1, <1>3, <1>4
  <2>2. DeferReset({"RESET"})
    BY <1>1, <2>1 DEF ResetWrite
  <2>3. /\ dma'.bus = {} /\ dma'.nonDmaReq = FALSE /\ dma'.statusPending = FALSE /\ dma'.dataOut = 0
        /\ dma'.select = FALSE
    <3>1. ("SEL" \in {"RESET"}) = FALSE
      OBVIOUS
    <3>2. dma' = [dma EXCEPT !.bus = {}, !.nonDmaReq = FALSE, !.statusPending = FALSE,
                        !.dataOut = 0, !.dmaEnabled = FALSE, !.select = FALSE,
                        !.command = <<"fill", 0>>, !.target = 0]
      BY <2>2, <3>1 DEF DeferReset
    <3> DEFINE n == <<"fill", 0>>
    <3> HIDE DEF n
    <3>3. dma' = [dma EXCEPT !.bus = {}, !.nonDmaReq = FALSE, !.statusPending = FALSE,
                        !.dataOut = 0, !.dmaEnabled = FALSE, !.select = FALSE,
                        !.command = n, !.target = 0]
      BY <3>2 DEF n
    <3>4. QED
      BY <1>2, <3>3 DEF DmaType
  <2>4. w'.index = 0 /\ todo' = ResetStores /\ pc' = "idle"
    BY <1>1, <1>2, <2>2 DEF DeferReset, LocalsType
  <2>5. (LeadsTo(cache.stat, todo, BusFree))'
    <3>1. LeadsTo(cache'.stat, todo', BusFree)
      BY <2>4, ResetPlan
    <3>2. QED
      BY <3>1 DEF LeadsTo, BusFree
  <2>6. Only(todo', {"stat", "irq", "line", "status", "data", "unreset"})
    BY <2>4, ResetPlan
  <2>7. Cleared'
    BY <1>3, <2>1, <2>3, <2>4, <2>5, <2>6 DEF Cleared
  <2>8. QED
    BY <2>4, <2>6, <2>7 DEF Clearing
<1>5. CASE queue = <<<<"read", 0>>, ResetWrite>> \o Released
  <2>1. queue[1] = <<"read", 0>> /\ queue' = <<ResetWrite>> \o Released
    BY <1>1, <1>3, <1>5
  <2>2. DeferRead
    BY <1>1, <2>1
  <2>3. pc' = "idle" /\ (todo' = <<>> \/ todo' = <<Irq(TRUE)>> \/ todo' = <<Irq(FALSE)>>)
    BY <1>1, <2>2, Zenon DEF DeferRead
  <2>4. Only(todo', {"stat", "irq", "line", "status", "data", "unreset"})
    <3>1. Only(todo', {"irq", "line"})
      BY <2>3, PlanKinds, Zenon DEF Silent
    <3>2. QED
      BY <3>1 DEF Only
  <2>5. Clearing'
    <3>1. queue' = <<ResetWrite>> \o Released'
      BY <1>3, <2>1
    <3>2. QED
      BY <3>1 DEF Clearing, ResetWrite
  <2>6. QED
    BY <2>3, <2>4, <2>5
<1>6. CASE Cleared
  <2>1. queue = <<<<"control", {}>>>>
    BY <1>1, <1>3, <1>6 DEF Cleared
  <2>2. queue[1] = <<"control", {}>> /\ queue' = <<>>
    BY <1>1, <2>1
  <2>3. DeferControl({})
    BY <1>1, <2>2
  <2>4. /\ dma.bus = {} /\ ~dma.nonDmaReq /\ ~dma.statusPending /\ dma.dataOut = 0 /\ ~dma.select
        /\ w.index = 0 /\ cache.stat = BusFree
    BY <1>1, <1>6 DEF Cleared, LeadsTo
  <2>5. dma' = [dma EXCEPT !.select = FALSE, !.dmaEnabled = dma.dmaEnabled] /\ todo' = <<>>
        /\ pc' = pc /\ w' = w
    <3>1. "SEL" \notin {} /\ "LATCH" \notin {} /\ ("SEL" \in {}) = FALSE
      OBVIOUS
    <3>2. QED
      BY <2>3, <2>4, <3>1 DEF DeferControl, EdgeStores
  <2>6. /\ dma'.bus = {} /\ ~dma'.nonDmaReq /\ ~dma'.statusPending /\ dma'.dataOut = 0 /\ ~dma'.select
    BY <1>2, <2>4, <2>5 DEF DmaType
  <2>7. Only(todo', {"stat", "irq", "line", "status", "data", "unreset"})
    BY <2>5 DEF Only
  <2>8. (LeadsTo(cache.stat, todo, BusFree))'
    <3>1. cache'.stat = BusFree /\ todo' = <<>>
      BY <1>1, <2>4, <2>5
    <3>2. QED
      BY <3>1 DEF LeadsTo, BusFree
  <2>9. Cleared'
    BY <1>1, <2>2, <2>4, <2>5, <2>6, <2>7, <2>8 DEF Cleared
  <2>10. QED
    BY <1>1, <2>5, <2>7, <2>9 DEF Clearing
<1>7. QED
  BY <1>4, <1>5, <1>6 DEF Clearing

(* ... and all of it. *)
LEMMA TakeKeepsInStep ==
  ASSUME TypeOK, WorkerTake, InStep
  PROVE  InStep'
<1>1. /\ pc = "idle" /\ todo = <<>>
      /\ UNCHANGED <<cache, drops, addr, hp, latch, step, issued>> /\ Len(queue) \in Nat /\ Len(queue) > 0
      /\ Len(queue') = Len(queue) - 1 /\ queue' = Tail(queue)
  BY TakeFrame
<1>2. Sent' = Sent /\ Mine' = Mine /\ Current' = Current
  BY <1>1 DEF Sent, Final, Asks, Mine, Current
<1>3. ASSUME NEW e \in Nat, Round(e), hp = "addr" => e = 3, hp \notin {"unreset", "settle"}
      PROVE  /\ Round(e)' /\ (Mirroring(cache.addr, todo))' /\ (pc' # "idle" => Handling')
  <2>1. /\ Round(e)'
        /\ Only(todo', {"stat", "irq", "line", "status", "data", "unreset"})
        /\ pc' # "idle" =>
             /\ pc' = "route" /\ w'.cdb = Current /\ Only(todo', {"stat"}) /\ dma'.target = Mine.target
             /\ e = Block /\ issued # <<>> /\ (hp # "addr" => addr = Programmed(Current, 0))
    BY <1>3, TakeKeepsRound
  <2>2. (Mirroring(cache.addr, todo))'
    BY <2>1, TakeKeepsMirroring DEF InStep
  <2>3. ASSUME pc' # "idle" PROVE Handling'
    <3>1. hp # "addr"
      BY <1>3, <2>1, <2>3, RoundSizes
    <3>2. QED
      BY <1>1, <1>2, <2>1, <2>3, <3>1 DEF Handling
  <2>4. QED
    BY <2>1, <2>2, <2>3
<1>4. CASE hp \notin {"reset", "unreset", "settle"}
  <2>1. Sent \in Nat /\ (hp = "addr" => Sent = 3)
    BY <1>4, RoundSizes DEF Sent, TypeOK, HostType
  <2>2. PICK p \in Nat : p = Sent
    BY <2>1
  <2>3. Round(p)' /\ (Mirroring(cache.addr, todo))' /\ (pc' # "idle" => Handling')
    BY <1>3, <1>4, <2>1, <2>2 DEF InStep
  <2>4. (Round(Sent))'
    BY <1>2, <2>2, <2>3
  <2>5. Observed'
    BY <1>4, TakeKeepsObserved DEF InStep
  <2>6. QED
    BY <1>1, <1>4, <2>3, <2>4, <2>5 DEF InStep
<1>5. CASE hp = "reset"
  <2>1. PICK e \in 0 .. Block + ParamLen : Round(e) /\ (queue = <<>> \/ e = 1)
    BY <1>5 DEF InStep
  <2>2. e = 1 /\ e \in Nat
    BY <1>1, <2>1
  <2>3. Round(e)' /\ (Mirroring(cache.addr, todo))' /\ (pc' # "idle" => Handling')
    BY <1>3, <1>5, <2>1, <2>2
  <2>4. QED
    BY <1>1, <1>5, <2>1, <2>2, <2>3 DEF InStep
<1>6. CASE hp \in {"unreset", "settle"}
  <2>1. /\ Clearing' /\ pc' = "idle"
        /\ Only(todo', {"stat", "irq", "line", "status", "data", "unreset"})
    BY <1>6, TakeKeepsClearing DEF InStep
  <2>2. (Mirroring(cache.addr, todo))'
    BY <2>1, TakeKeepsMirroring DEF InStep
  <2>3. QED
    BY <1>1, <1>6, <2>1, <2>2 DEF InStep
<1>7. QED
  BY <1>4, <1>5, <1>6

(* A step of a command handler. *)
Handler ==
  \/ Route \/ Burst \/ BurstDone \/ Snapshot \/ SectorBegin \/ FetchSector \/ Transfer
  \/ StoreSector \/ CheckReset \/ Sync \/ Finish

(* A block further is one block more behind the programmed address (Advanced). *)
LEMMA AdvanceProgrammed ==
  ASSUME NEW k, NEW n \in Nat
  PROVE  Advance(Programmed(k, n)) = Programmed(k, n + 1)
BY DEF Advance, Programmed

(* What a step of a handler leaves alone: everything the ISR and the host have, the
   command and its block (handle_read_sectors, handle_write_sectors and the others). *)
LEMMA HandlerFrameAll ==
  ASSUME TypeOK, Handler, Handling
  PROVE  /\ pc # "idle" /\ todo = <<>>
         /\ UNCHANGED <<cache, queue, drops, status, addr, resetReq, irqPending, irqLine>>
         /\ UNCHANGED <<hp, latch, step, issued, resets>>
         /\ w'.index = w.index /\ w'.cdb = w.cdb
         /\ Running = Mine /\ Mine' = Mine /\ Current' = Current
<1>1. /\ pc # "idle" /\ todo = <<>>
      /\ UNCHANGED <<cacheVars, sharedVars, hostVars>>
  BY DEF Handler, Route, Burst, BurstDone, Snapshot, SectorBegin, FetchSector, Transfer, StoreSector, CheckReset,
         Sync, Finish, WorkerAt
<1>2. w \in LocalsType
  BY DEF TypeOK, WorkerType
<1>3. w'.index = w.index /\ w'.cdb = w.cdb
  <2>1. CASE Route
    BY <1>2, <2>1 DEF Route, Fresh, LocalsType
  <2>2. CASE Burst \/ Snapshot
    BY <1>2, <2>2 DEF Burst, Snapshot, LocalsType
  <2>3. CASE BurstDone \/ Finish
    BY <1>2, <2>3 DEF BurstDone, Finish, LocalsType
  <2>4. CASE SectorBegin \/ FetchSector
    BY <1>2, <2>4 DEF SectorBegin, FetchSector, Fail, LocalsType
  <2>5. CASE Transfer
    BY <1>2, <2>5 DEF Transfer, Fail, Advanced, LocalsType
  <2>6. CASE StoreSector
    BY <1>2, <2>6 DEF StoreSector, Fail, Advanced, LocalsType
  <2>7. CASE CheckReset
    BY <2>7 DEF CheckReset
  <2>8. CASE Sync
    BY <1>2, <2>8 DEF Sync, LocalsType
  <2>9. QED
    BY <2>1, <2>2, <2>3, <2>4, <2>5, <2>6, <2>7, <2>8 DEF Handler
<1>4. Running = Mine
  <2>1. w.cdb = Current /\ Current # NoCommand
    BY DEF Handling, Current, NoCommand, TypeOK, HostType
  <2>2. QED
    BY <2>1 DEF Running, Mine
<1>5. Mine' = Mine /\ Current' = Current
  BY <1>1 DEF Mine, Current, hostVars
<1>6. QED
  BY <1>1, <1>3, <1>4, <1>5 DEF cacheVars, sharedVars, hostVars

(* Where the handler goes on, ... *)
LEMMA HandlerMoves ==
  ASSUME TypeOK, Handler, Handling
  PROVE  /\ dma'.target = dma.target /\ dma'.dmaEnabled = dma.dmaEnabled /\ dma'.select = dma.select
         /\ \/ /\ todo' = <<>> /\ dma' = dma
               /\ pc' = "idle" => resetReq
               /\ pc' \in {"burst", "bursting"} => pc = "burst"
            \/ /\ pc' # "idle" /\ dma'.dataOut = dma.dataOut
               /\ \E b : /\ dma'.bus = b /\ todo' = <<Stat(b)>>
                         /\ b \in {Busy(dma.bus), DataIn(dma.bus), DataOut(dma.bus),
                                   DataIn(dma.bus) \cup (dma.bus \cap {"ACK"}),
                                   DataOut(dma.bus) \cup (dma.bus \cap {"ACK"})}
               /\ pc' \in {"burst", "bursting"} => Mine.op # "PARAMS" \/ dma.dmaEnabled
            \/ /\ pc = "route" /\ pc' = "idle" /\ Mine.op = "PARAMS" /\ ~dma.dmaEnabled
               /\ dma'.bus = ReqParam(dma.bus) /\ dma'.dataOut = ParamLen /\ dma'.nonDmaReq
               /\ todo' = <<Stat(ReqParam(dma.bus)), Irq(TRUE)>>
            \/ /\ pc' = "idle" /\ dma'.dataOut = dma.dataOut
               /\ dma'.bus = ReqStatus(dma.bus) /\ dma'.nonDmaReq /\ dma'.statusPending
               /\ \E t, g : /\ Complete(t, g) /\ (t = <<>> \/ \E a : t = WriteBack(a))
                            /\ RightVerdict(Verdict(g))'
               /\ pc = "route" => Mine.op = "NONE"
               /\ pc # "route" => pc = "bursting" \/ Mine.op \in {"READ", "WRITE"}
<1> DEFINE Keeps == dma'.target = dma.target /\ dma'.dmaEnabled = dma.dmaEnabled /\ dma'.select = dma.select
           B == {Busy(dma.bus), DataIn(dma.bus), DataOut(dma.bus),
                 DataIn(dma.bus) \cup (dma.bus \cap {"ACK"}),
                 DataOut(dma.bus) \cup (dma.bus \cap {"ACK"})}
           M1 == /\ todo' = <<>> /\ dma' = dma
                 /\ pc' = "idle" => resetReq
                 /\ pc' \in {"burst", "bursting"} => pc = "burst"
           M2 == /\ pc' # "idle" /\ dma'.dataOut = dma.dataOut
                 /\ \E b : dma'.bus = b /\ todo' = <<Stat(b)>> /\ b \in B
                 /\ pc' \in {"burst", "bursting"} => Mine.op # "PARAMS" \/ dma.dmaEnabled
           M3 == /\ pc = "route" /\ pc' = "idle" /\ Mine.op = "PARAMS" /\ ~dma.dmaEnabled
                 /\ dma'.bus = ReqParam(dma.bus) /\ dma'.dataOut = ParamLen /\ dma'.nonDmaReq
                 /\ todo' = <<Stat(ReqParam(dma.bus)), Irq(TRUE)>>
           M4 == /\ pc' = "idle" /\ dma'.dataOut = dma.dataOut
                 /\ dma'.bus = ReqStatus(dma.bus) /\ dma'.nonDmaReq /\ dma'.statusPending
                 /\ \E t, g : /\ Complete(t, g) /\ (t = <<>> \/ \E a : t = WriteBack(a))
                              /\ RightVerdict(Verdict(g))'
                 /\ pc = "route" => Mine.op = "NONE"
                 /\ pc # "route" => pc = "bursting" \/ Mine.op \in {"READ", "WRITE"}
           Goal == Keeps /\ (M1 \/ M2 \/ M3 \/ M4)
<1>1. /\ todo = <<>> /\ Running = Mine /\ Mine' = Mine /\ Current' = Current
      /\ dma \in DmaType /\ w \in LocalsType /\ w.cdb = Current /\ w'.cdb = w.cdb
  BY HandlerFrameAll DEF TypeOK, WorkerType, Handling
<1>2. ASSUME dma' = dma, todo' = todo, pc' = "idle" => resetReq,
             pc' \in {"burst", "bursting"} => pc = "burst"
      PROVE  Goal
  BY <1>1, <1>2
<1>3. Busy(dma.bus) \in B /\ DataIn(dma.bus) \in B /\ DataOut(dma.bus) \in B
      /\ DataIn(dma.bus) \cup (dma.bus \cap {"ACK"}) \in B
      /\ DataOut(dma.bus) \cup (dma.bus \cap {"ACK"}) \in B
  OBVIOUS
<1> HIDE DEF B
<1>4. ASSUME NEW b \in B, NEW p \in {"snapshot", "loop", "transfer", "burst"}, Phase(b, p),
             p = "burst" => Mine.op # "PARAMS" \/ dma.dmaEnabled
      PROVE  Goal
  <2>1. /\ dma'.bus = b /\ dma'.dataOut = dma.dataOut /\ Keeps
        /\ pc' = p /\ todo' = <<Stat(b)>>
    BY <1>1, <1>4 DEF Phase, DmaType
  <2>2. pc' # "idle" /\ (pc' \in {"burst", "bursting"} => Mine.op # "PARAMS" \/ dma.dmaEnabled)
    BY <1>4, <2>1
  <2>3. M2
    BY <2>1, <2>2
  <2>4. QED
    BY <2>1, <2>3
<1>5. \A b \in B : /\ Phase(b, "snapshot") => Goal
                   /\ Phase(b, "loop") => Goal
                   /\ Phase(b, "transfer") => Goal
                   /\ Phase(b, "burst") /\ (Mine.op # "PARAMS" \/ dma.dmaEnabled) => Goal
  <2> HIDE DEF Goal
  <2>1. QED
    BY <1>4
<1>6. ASSUME NEW t, NEW g, Complete(t, g), t = <<>> \/ \E a : t = WriteBack(a),
             g => Executed', pc = "route" => Mine.op = "NONE",
             pc # "route" => pc = "bursting" \/ Mine.op \in {"READ", "WRITE"}
      PROVE  Goal
  <2>1. /\ dma'.bus = ReqStatus(dma.bus) /\ dma'.nonDmaReq /\ dma'.statusPending
        /\ dma'.dataOut = dma.dataOut /\ Keeps /\ pc' = "idle"
    BY <1>1, <1>6 DEF Complete, AwaitStatus, DmaType
  <2>2. RightVerdict(Verdict(g))'
    <3>1. (Verdict(g))' = [id |-> Current', good |-> g]
      BY <1>1 DEF Verdict
    <3>2. QED
      BY <1>6, <3>1 DEF RightVerdict
  <2>3. \E tt, gg : /\ Complete(tt, gg) /\ (tt = <<>> \/ \E a : tt = WriteBack(a))
                    /\ RightVerdict(Verdict(gg))'
    BY <1>6, <2>2
  <2>4. M4
    BY <1>6, <2>1, <2>3
  <2>5. QED
    BY <2>1, <2>4
<1> HIDE DEF Keeps, M1, M2, M3, M4
<1>7. ASSUME SectorEnd, pc = "transfer" \/ pc = "store" PROVE Goal
  <2>1. CASE w.block + 1 < Running.blocks
    <3>1. Phase(Busy(dma.bus), "loop")
      BY <1>7, <2>1 DEF SectorEnd
    <3>2. QED
      BY <1>3, <1>5, <3>1
  <2>2. CASE ~(w.block + 1 < Running.blocks)
    <3>1. pc' = "loop" /\ dma' = dma /\ todo' = todo
      BY <1>7, <2>2 DEF SectorEnd
    <3>2. pc' # "idle" /\ pc' \notin {"burst", "bursting"}
      BY <3>1
    <3> HIDE DEF Goal
    <3>3. QED
      BY <1>2, <3>1, <3>2
  <2>3. QED
    BY <2>1, <2>2
<1> HIDE DEF Goal
<1>8. ASSUME dma' = dma, todo' = todo, pc' \notin {"idle", "burst", "bursting"} PROVE Goal
  BY <1>2, <1>8
<1>9. ASSUME Fail PROVE Goal
  BY <1>8, <1>9 DEF Fail
<1>10. ASSUME Route PROVE Goal
  <2>1. pc = "route" /\ Running = Mine
    BY <1>1, <1>10 DEF Route, WorkerAt
  <2>2. ASSUME Mine.op = "NONE", Complete(<<>>, TRUE) PROVE Goal
    <3>1. Executed'
      BY <1>1, <2>2 DEF Executed
    <3>2. QED
      BY <1>6, <2>1, <2>2, <3>1
  <2>3. ASSUME Phase(Busy(dma.bus), "snapshot") PROVE Goal
    BY <1>3, <1>5, <2>3
  <2>4. ASSUME Mine.op # "PARAMS", Phase(DataIn(dma.bus) \cup (dma.bus \cap {"ACK"}), "burst") PROVE Goal
    BY <1>3, <1>5, <2>4
  <2>5. ASSUME Mine.op # "PARAMS", Phase(DataOut(dma.bus) \cup (dma.bus \cap {"ACK"}), "burst") PROVE Goal
    BY <1>3, <1>5, <2>5
  <2>6. ASSUME dma.dmaEnabled, Phase(DataOut(dma.bus), "burst") PROVE Goal
    BY <1>3, <1>5, <2>6
  <2>7. ASSUME Mine.op = "PARAMS", ~dma.dmaEnabled, pc' = "idle",
               dma' = [dma EXCEPT !.bus = ReqParam(@), !.dataOut = ParamLen, !.nonDmaReq = TRUE],
               todo' = <<Stat(ReqParam(dma.bus)), Irq(TRUE)>>
        PROVE  Goal
    <3>1. /\ dma'.bus = ReqParam(dma.bus) /\ dma'.dataOut = ParamLen /\ dma'.nonDmaReq
          /\ dma'.target = dma.target /\ dma'.dmaEnabled = dma.dmaEnabled /\ dma'.select = dma.select
      BY <1>1, <2>7 DEF DmaType
    <3>2. Keeps /\ M3
      BY <2>1, <2>7, <3>1 DEF Keeps, M3
    <3>3. QED
      BY <3>2 DEF Goal
  <2>8. \/ Mine.op = "NONE" /\ Complete(<<>>, TRUE)
        \/ Phase(Busy(dma.bus), "snapshot")
        \/ Mine.op = "SENSE" /\ Phase(DataIn(dma.bus) \cup (dma.bus \cap {"ACK"}), "burst")
        \/ Mine.op = "MODE" /\ Phase(DataOut(dma.bus) \cup (dma.bus \cap {"ACK"}), "burst")
        \/ dma.dmaEnabled /\ Phase(DataOut(dma.bus), "burst")
        \/ /\ Mine.op = "PARAMS" /\ ~dma.dmaEnabled /\ pc' = "idle"
           /\ dma' = [dma EXCEPT !.bus = ReqParam(@), !.dataOut = ParamLen, !.nonDmaReq = TRUE]
           /\ todo' = <<Stat(ReqParam(dma.bus)), Irq(TRUE)>>
    BY <1>10, <2>1, Zenon DEF Route
  <2>9. (Mine.op = "SENSE" => Mine.op # "PARAMS") /\ (Mine.op = "MODE" => Mine.op # "PARAMS")
    OBVIOUS
  <2>10. QED
    BY <2>2, <2>3, <2>4, <2>5, <2>6, <2>7, <2>8, <2>9, Zenon
<1>11. ASSUME Burst PROVE Goal
  BY <1>2, <1>11 DEF Burst, WorkerAt
<1>12. ASSUME Snapshot PROVE Goal
  BY <1>8, <1>12 DEF Snapshot, WorkerAt
<1>13. ASSUME BurstDone PROVE Goal
  <2>1. pc = "bursting" /\ Mine.op \notin {"READ", "WRITE"}
    BY <1>13 DEF BurstDone, WorkerAt, Handling
  <2>2. Executed'
    BY <1>1, <2>1 DEF Executed
  <2>3. Complete(WriteBack(Advance(w.loc)), TRUE) \/ Complete(<<>>, FALSE)
    BY <1>13 DEF BurstDone
  <2>4. pc # "route"
    BY <2>1
  <2>5. QED
    BY <1>6, <2>1, <2>2, <2>3, <2>4, Zenon
<1>14. ASSUME SectorBegin \/ FetchSector PROVE Goal
  <2>1. \/ pc' \in {"check", "fetch"} /\ dma' = dma /\ todo' = todo
        \/ Fail
        \/ Phase(DataIn(dma.bus), "transfer")
        \/ Phase(DataOut(dma.bus), "transfer")
    BY <1>14 DEF SectorBegin, FetchSector
  <2>2. pc' \in {"check", "fetch"} => pc' \notin {"idle", "burst", "bursting"}
    OBVIOUS
  <2>3. QED
    BY <1>3, <1>5, <1>8, <1>9, <2>1, <2>2, Zenon
<1>15. ASSUME Transfer PROVE Goal
  <2>1. pc = "transfer"
    BY <1>15 DEF Transfer, WorkerAt
  <2>2. \/ SectorEnd
        \/ pc' = "store" /\ dma' = dma /\ todo' = todo
        \/ pc' = pc /\ dma' = dma /\ todo' = todo
        \/ Fail
    BY <1>15 DEF Transfer
  <2>3. pc' = "store" \/ pc' = "transfer" => pc' \notin {"idle", "burst", "bursting"}
    OBVIOUS
  <2>4. QED
    BY <1>7, <1>8, <1>9, <2>1, <2>2, <2>3, Zenon
<1>16. ASSUME StoreSector PROVE Goal
  <2>1. (SectorEnd \/ Fail) /\ pc = "store"
    BY <1>16 DEF StoreSector, WorkerAt
  <2>2. QED
    BY <1>7, <1>9, <2>1, Zenon
<1>17. ASSUME CheckReset PROVE Goal
  <2>1. /\ dma' = dma /\ todo' = todo /\ (pc' = "idle" => resetReq)
        /\ pc' \in {"idle", "sync", "finish"}
    BY <1>17 DEF CheckReset, WorkerAt
  <2>2. pc' \notin {"burst", "bursting"}
    BY <2>1
  <2>3. QED
    BY <1>2, <2>1, <2>2
<1>18. ASSUME Sync PROVE Goal
  BY <1>8, <1>18 DEF Sync, WorkerAt
<1>19. ASSUME Finish PROVE Goal
  <2>1. pc = "finish" /\ Mine.op \in {"READ", "WRITE"} /\ (w.ok => Executed)
    BY <1>19 DEF Finish, WorkerAt, Handling
  <2>2. w'.block = w.block /\ w'.synced = w.synced
    BY <1>1, <1>19 DEF Finish, LocalsType
  <2>3. Executed' <=> Executed
    BY <1>1, <2>2 DEF Executed
  <2>4. Complete(WriteBack(w.loc), w.ok) /\ pc # "route"
    BY <1>19, <2>1 DEF Finish
  <2>5. \E a : WriteBack(w.loc) = WriteBack(a)
    OBVIOUS
  <2>6. w.ok => Executed'
    BY <2>1, <2>3
  <2>7. pc = "route" => Mine.op = "NONE"
    BY <2>4
  <2>8. QED
    BY <1>6, <2>1, <2>4, <2>5, <2>6, <2>7
<1>20. Goal
  BY <1>10, <1>11, <1>12, <1>13, <1>14, <1>15, <1>16, <1>17, <1>18, <1>19, Zenon DEF Handler
<1>21. QED
  BY <1>20, Zenon DEF Goal, Keeps, M1, M2, M3, M4, B

(* ... and what it knows there. *)
LEMMA HandlerKeepsHandling ==
  ASSUME TypeOK, Handler, Handling, pc' # "idle"
  PROVE  Handling'
<1>1. /\ UNCHANGED <<addr, resetReq, issued>> /\ w'.cdb = w.cdb
      /\ Running = Mine /\ Mine' = Mine /\ Current' = Current
  BY HandlerFrameAll
<1>2. dma'.target = dma.target /\ Only(todo', {"stat"})
  <2>1. todo' = <<>> \/ \E b : todo' = <<Stat(b)>>
    BY HandlerMoves
  <2>2. Only(todo', {"stat"})
    BY <2>1, PlanKinds
  <2>3. QED
    BY <2>2, HandlerMoves
<1>3. w \in LocalsType /\ w.block \in Nat /\ Mine.blocks \in Nat
      /\ (Mine.op \in {"READ", "WRITE"} => Mine.blocks > 0) /\ resetReq \in BOOLEAN
  BY ControlValues DEF Handling, TypeOK, WorkerType, SharedType, LocalsType
<1> DEFINE Common == /\ issued # <<>> /\ w.cdb = Current /\ dma.target = Mine.target
                     /\ Only(todo, {"stat"})
<1>4. Common'
  BY <1>1, <1>2 DEF Handling
<1>6. ASSUME Route PROVE Handling'
  <2>1. w'.block = 0 /\ w'.ok = TRUE /\ w'.synced = FALSE
    BY <1>3, <1>6 DEF Route, Fresh, LocalsType
  <2>2. /\ addr' = Programmed(Current, 0)
        /\ \/ pc' = "snapshot" /\ Mine.op \in {"READ", "WRITE"}
           \/ pc' = "burst" /\ Mine.op \notin {"NONE", "READ", "WRITE"}
    <3>1. pc = "route" /\ Running = Mine
      BY <1>1, <1>6 DEF Route, WorkerAt
    <3>2. \/ Mine.op \in {"READ", "WRITE"} /\ pc' = "snapshot"
          \/ Mine.op \in {"SENSE", "MODE", "PARAMS"} /\ pc' = "burst"
          \/ pc' = "idle"
      BY <1>6, <3>1 DEF Route, Phase, Complete
    <3>3. QED
      BY <1>1, <3>1, <3>2 DEF Handling
  <2>3. QED
    BY <1>1, <1>4, <2>1, <2>2 DEF Handling
<1>7. ASSUME Burst PROVE Handling'
  <2>1. pc = "burst" /\ pc' = "bursting" /\ w'.loc = addr /\ w'.synced = w.synced
    BY <1>3, <1>7 DEF Burst, WorkerAt, LocalsType
  <2>2. QED
    BY <1>1, <1>4, <2>1 DEF Handling
<1>8. ASSUME Snapshot PROVE Handling'
  <2>1. pc = "snapshot" /\ pc' = "loop" /\ w'.loc = addr /\ w'.block = w.block /\ w'.ok = w.ok
        /\ w'.synced = w.synced
    BY <1>3, <1>8 DEF Snapshot, WorkerAt, LocalsType
  <2>2. w.block = 0 /\ w.ok /\ addr = Programmed(Current, 0) /\ Mine.op \in {"READ", "WRITE"} /\ ~w.synced
    BY <2>1 DEF Handling
  <2>3. QED
    BY <1>1, <1>3, <1>4, <2>1, <2>2 DEF Handling
<1>9. ASSUME w'.block = w.block, w'.wrote = w.wrote, w'.ok = FALSE, pc' = "check",
             w'.synced = w.synced, pc \in {"loop", "fetch", "transfer", "store"}
      PROVE  Handling'
  <2>1. /\ Mine.op \in {"READ", "WRITE"}
        /\ Mine.op = "WRITE" /\ w.block > 0 => w.wrote
        /\ ~w.synced
    BY <1>9 DEF Handling
  <2>2. QED
    BY <1>1, <1>4, <1>9, <2>1 DEF Handling
<1>10. ASSUME Fail, pc \in {"loop", "fetch", "transfer", "store"} PROVE Handling'
  <2>1. pc' = "check" /\ w'.ok = FALSE /\ w'.block = w.block /\ w'.wrote = w.wrote
        /\ w'.synced = w.synced
    BY <1>3, <1>10 DEF Fail, LocalsType
  <2>2. QED
    BY <1>9, <1>10, <2>1
<1>11. ASSUME SectorBegin \/ FetchSector PROVE Handling'
  <2>1. /\ pc \in {"loop", "fetch"} /\ Mine.op \in {"READ", "WRITE"} /\ w.ok /\ w.block <= Mine.blocks
        /\ w.loc = Programmed(Current, w.block)
        /\ Mine.op = "WRITE" /\ w.block > 0 => w.wrote
        /\ ~w.synced
    BY <1>11 DEF SectorBegin, FetchSector, WorkerAt, Handling
  <2>2. CASE pc' = "check" /\ UNCHANGED w /\ (resetReq \/ w.block = Mine.blocks)
    BY <1>1, <1>4, <2>1, <2>2 DEF Handling
  <2>3. CASE Fail
    BY <1>10, <2>1, <2>3
  <2>4. CASE pc' = "transfer" /\ w' = [w EXCEPT !.try = 1] /\ w.block < Mine.blocks
    <3>1. w'.ok = w.ok /\ w'.block = w.block /\ w'.wrote = w.wrote /\ w'.loc = w.loc
          /\ w'.synced = w.synced
      BY <1>3, <2>4 DEF LocalsType
    <3>2. QED
      BY <1>1, <1>4, <2>1, <2>4, <3>1 DEF Handling
  <2>5. CASE pc' = "fetch" /\ UNCHANGED w /\ w.block < Mine.blocks /\ Mine.op = "READ"
    BY <1>1, <1>4, <2>1, <2>5 DEF Handling
  <2>6. FetchSector => w.block < Mine.blocks
    BY DEF FetchSector, WorkerAt, Handling
  <2>7. QED
    BY <1>1, <1>11, <2>2, <2>3, <2>4, <2>5, <2>6 DEF SectorBegin, FetchSector, Phase
<1>12. ASSUME SectorEnd, w'.ok = w.ok, w'.block = w.block + 1, w'.loc = Advance(w.loc),
              Mine.op = "WRITE" => w'.wrote, w'.synced = w.synced, pc \in {"transfer", "store"}
       PROVE  Handling'
  <2>1. pc' = "loop"
    BY <1>12 DEF SectorEnd, Phase
  <2>2. /\ Mine.op \in {"READ", "WRITE"} /\ w.ok /\ w.block < Mine.blocks
        /\ w.loc = Programmed(Current, w.block) /\ ~w.synced
    BY <1>12 DEF Handling
  <2>3. w'.loc = Programmed(Current, w.block + 1) /\ w.block + 1 <= Mine.blocks
    BY <1>3, <1>12, <2>2, AdvanceProgrammed
  <2>4. QED
    BY <1>1, <1>4, <1>12, <2>1, <2>2, <2>3 DEF Handling
<1>13. ASSUME Transfer PROVE Handling'
  <2>1. /\ pc = "transfer" /\ Mine.op \in {"READ", "WRITE"} /\ w.ok /\ w.block < Mine.blocks
        /\ w.block <= Mine.blocks
        /\ w.loc = Programmed(Current, w.block)
        /\ Mine.op = "WRITE" /\ w.block > 0 => w.wrote
        /\ ~w.synced
    BY <1>3, <1>13 DEF Transfer, WorkerAt, Handling
  <2>2. CASE Mine.op = "READ" /\ SectorEnd /\ w' = Advanced
    <3>1. w'.ok = w.ok /\ w'.block = w.block + 1 /\ w'.loc = Advance(w.loc)
          /\ w'.synced = w.synced
      BY <1>3, <2>2 DEF Advanced, LocalsType
    <3>2. QED
      BY <1>12, <2>1, <2>2, <3>1
  <2>3. CASE Mine.op = "WRITE" /\ pc' = "store" /\ UNCHANGED w
    BY <1>1, <1>4, <2>1, <2>3 DEF Handling
  <2>4. CASE w' = [w EXCEPT !.try = @ + 1] /\ UNCHANGED pc
    <3>1. w'.ok = w.ok /\ w'.block = w.block /\ w'.wrote = w.wrote /\ w'.loc = w.loc
          /\ w'.synced = w.synced
      BY <1>3, <2>4 DEF LocalsType
    <3>2. QED
      BY <1>1, <1>4, <2>1, <2>4, <3>1 DEF Handling
  <2>5. CASE Fail
    BY <1>10, <2>1, <2>5
  <2>6. QED
    BY <1>1, <1>13, <2>2, <2>3, <2>4, <2>5 DEF Transfer
<1>14. ASSUME StoreSector PROVE Handling'
  <2>1. pc = "store"
    BY <1>14 DEF StoreSector, WorkerAt
  <2>2. CASE SectorEnd /\ w' = [Advanced EXCEPT !.wrote = TRUE]
    <3>1. w'.ok = w.ok /\ w'.block = w.block + 1 /\ w'.loc = Advance(w.loc) /\ w'.wrote = TRUE
          /\ w'.synced = w.synced
      BY <1>3, <2>2 DEF Advanced, LocalsType
    <3>2. QED
      BY <1>12, <2>1, <2>2, <3>1
  <2>3. CASE Fail
    BY <1>10, <2>1, <2>3
  <2>4. QED
    BY <1>14, <2>2, <2>3 DEF StoreSector
<1>15. ASSUME CheckReset PROVE Handling'
  <2>1. pc = "check" /\ w' = w /\ ~resetReq
    BY <1>3, <1>15 DEF CheckReset, WorkerAt
  <2>2. /\ Mine.op \in {"READ", "WRITE"}
        /\ Mine.op = "WRITE" /\ w.block > 0 => w.wrote
        /\ w.ok => w.block = Mine.blocks
        /\ ~w.synced
    BY <2>1 DEF Handling
  <2>3. \/ pc' = "sync" /\ w.ok /\ Mine.op = "WRITE"
        \/ pc' = "finish" /\ ~(Mine.op = "WRITE" /\ w.wrote /\ w.ok)
    BY <1>1, <1>15, <2>1 DEF CheckReset
  <2>4. CASE pc' = "sync" /\ w.ok /\ Mine.op = "WRITE"
    BY <1>1, <1>4, <2>1, <2>2, <2>4 DEF Handling
  <2>5. CASE pc' = "finish" /\ ~(Mine.op = "WRITE" /\ w.wrote /\ w.ok)
    <3>1. w.ok => Mine.op = "READ" /\ w.block = Mine.blocks
      BY <1>3, <2>2, <2>5
    <3>2. w'.ok => Executed'
      BY <1>1, <2>1, <3>1 DEF Executed
    <3>3. QED
      BY <1>1, <1>4, <2>1, <2>2, <2>5, <3>2 DEF Handling
  <2>6. QED
    BY <2>3, <2>4, <2>5
<1>16. ASSUME Sync PROVE Handling'
  <2>1. pc = "sync" /\ pc' = "finish" /\ w'.ok = w'.synced /\ w'.block = w.block
    BY <1>3, <1>16 DEF Sync, WorkerAt, LocalsType
  <2>2. Mine.op \in {"READ", "WRITE"} /\ w.block = Mine.blocks
    BY <2>1 DEF Handling
  <2>3. w'.ok => Executed'
    BY <1>1, <2>1, <2>2 DEF Executed
  <2>4. QED
    BY <1>1, <1>4, <2>1, <2>2, <2>3 DEF Handling
<1>17. BurstDone \/ Finish => pc' = "idle"
  BY DEF BurstDone, Finish, Complete
<1>18. QED
  BY <1>6, <1>7, <1>8, <1>11, <1>13, <1>14, <1>15, <1>16, <1>17 DEF Handler

(* A plan that raises status x: the byte before the phase that announces it. *)
Raises(s, x) ==
  /\ Only(s, AnswerKinds) /\ Among(s, {{"BSY"}, StatusPhase})
  /\ \A c : LeadsTo(c, s, StatusPhase)
  /\ \A c : c \notin {StatusPhase, ParamPhase} => Announces(c, s)
  /\ \E i \in 1 .. Len(s) : s[i][1] = "status"
  /\ \A i \in 1 .. Len(s) : s[i][1] = "status" => s[i][2] = x

(* The stores of sasi_enter_status_phase raise the verdict they are given. *)
LEMMA StatusPlan ==
  ASSUME NEW b, NEW x, b \ {"ACK"} \in PlainBus
  PROVE  /\ Raises(StatusStores(b, x), x) /\ Only(StatusStores(b, x), {"stat", "status", "data", "irq"})
         /\ Len(StatusStores(b, x)) = 4
<1> DEFINE s == StatusStores(b, x)
<1>1. ReqStatus(b) \cap StatusBits = StatusPhase
  BY Requests
<1>2. /\ Len(s) = 4
      /\ s[1] = <<"status", x>> /\ s[2] = <<"data", x>>
      /\ s[3] = <<"stat", StatusPhase>> /\ s[4] = <<"irq", TRUE>>
  BY <1>1 DEF StatusStores, Stat, Irq
<1>3. \A i \in 1 .. 4 : i = 1 \/ i = 2 \/ i = 3 \/ i = 4
  OBVIOUS
<1> HIDE DEF s
<1>4. /\ s[1][1] = "status" /\ s[1][2] = x /\ s[2][1] = "data"
      /\ s[3][1] = "stat" /\ s[3][2] = StatusPhase /\ s[4][1] = "irq"
  BY <1>2
<1>5. Only(s, {"stat", "status", "data", "irq"}) /\ Only(s, AnswerKinds)
  BY <1>2, <1>3, <1>4 DEF Only, AnswerKinds
<1>6. Among(s, {{"BSY"}, StatusPhase})
  BY <1>2, <1>3, <1>4 DEF Among
<1>7. \A c : LeadsTo(c, s, StatusPhase)
  <2>1. 3 \in 1 .. 4
    OBVIOUS
  <2>2. QED
    BY <1>2, <1>3, <1>4, <2>1 DEF LeadsTo
<1>8. ASSUME NEW c, c \notin {StatusPhase, ParamPhase} PROVE Announces(c, s)
  <2>1. \A i \in 1 .. 4 : s[i] = <<"stat", StatusPhase>> => i = 3
    BY <1>3, <1>4
  <2>2. \A i, j \in 1 .. 4 : i < j /\ s[i] = <<"stat", StatusPhase>> => s[j][1] \in {"irq", "line"}
    <3>1. \A j \in 1 .. 4 : 3 < j => j = 4
      OBVIOUS
    <3>2. QED
      BY <1>4, <2>1, <3>1
  <2>3. QED
    BY <1>2, <1>8, <2>2 DEF Announces
<1>9. (\E i \in 1 .. Len(s) : s[i][1] = "status") /\ \A i \in 1 .. Len(s) : s[i][1] = "status" => s[i][2] = x
  <2>1. 1 \in 1 .. 4
    OBVIOUS
  <2>2. QED
    BY <1>2, <1>3, <1>4, <2>1
<1>10. Raises(s, x)
  BY <1>5, <1>6, <1>7, <1>8, <1>9 DEF Raises
<1>11. QED
  BY <1>2, <1>5, <1>10 DEF s

(* The address, if it is written back, comes first and is mirrored lane by lane. *)
LEMMA WriteBackPlan ==
  ASSUME NEW a
  PROVE  LET t == WriteBack(a)
         IN  /\ Len(t) = 7 /\ Only(t, {"addr", "load", "sync"})
             /\ t[1] = <<"addr", a>> /\ t[2] = <<"load", "L">> /\ t[3] = <<"sync", "L">>
             /\ t[4] = <<"load", "M">> /\ t[5] = <<"sync", "M">>
             /\ t[6] = <<"load", "H">> /\ t[7] = <<"sync", "H">>
<1> DEFINE t == WriteBack(a)
<1>1. /\ Len(t) = 7
      /\ t[1] = <<"addr", a>> /\ t[2] = <<"load", "L">> /\ t[3] = <<"sync", "L">>
      /\ t[4] = <<"load", "M">> /\ t[5] = <<"sync", "M">>
      /\ t[6] = <<"load", "H">> /\ t[7] = <<"sync", "H">>
  BY DEF WriteBack
<1>2. \A i \in 1 .. 7 : i = 1 \/ i = 2 \/ i = 3 \/ i = 4 \/ i = 5 \/ i = 6 \/ i = 7
  OBVIOUS
<1> HIDE DEF t
<1>3. t[1][1] = "addr" /\ t[2][1] = "load" /\ t[3][1] = "sync" /\ t[4][1] = "load"
      /\ t[5][1] = "sync" /\ t[6][1] = "load" /\ t[7][1] = "sync"
  BY <1>1
<1>4. Only(t, {"addr", "load", "sync"})
  BY <1>1, <1>2, <1>3 DEF Only
<1>5. QED
  BY <1>1, <1>4 DEF t

(* A plan raises its status behind the write-back of the address, too. *)
LEMMA PrefixedPlan ==
  ASSUME NEW S, NEW t \in Seq(S), NEW s \in Seq(S), NEW x,
         Only(t, {"addr", "load", "sync"}), Raises(s, x)
  PROVE  Raises(t \o s, x)
<1> DEFINE u == t \o s
           n == Len(t)
           m == Len(s)
<1>1. n \in Nat /\ m \in Nat
  OBVIOUS
<1>2. Len(u) = n + m
  BY ConcatProperties
<1>3. \A i \in 1 .. n + m : u[i] = IF i <= n THEN t[i] ELSE s[i - n]
  BY ConcatProperties
<1> HIDE DEF u, n, m
<1>4. ASSUME NEW i \in 1 .. n + m
      PROVE  \/ i <= n /\ i \in 1 .. n /\ u[i] = t[i] /\ t[i][1] \in {"addr", "load", "sync"}
             \/ i > n /\ i - n \in 1 .. m /\ u[i] = s[i - n]
  <2>1. CASE i <= n
    <3>1. i \in 1 .. n /\ u[i] = t[i]
      BY <1>1, <1>3, <2>1
    <3>2. QED
      BY <2>1, <3>1 DEF Only, n
  <2>2. CASE ~(i <= n)
    BY <1>1, <1>3, <2>2
  <2>3. QED
    BY <2>1, <2>2
<1>5. ASSUME NEW j \in 1 .. m PROVE j + n \in 1 .. n + m /\ u[j + n] = s[j]
  <2>1. j + n \in 1 .. n + m /\ ~(j + n <= n) /\ (j + n) - n = j
    BY <1>1
  <2>2. QED
    BY <1>3, <2>1
<1>6. Only(u, AnswerKinds)
  BY <1>2, <1>4 DEF Only, AnswerKinds, Raises, m
<1>7. Among(u, {{"BSY"}, StatusPhase})
  BY <1>2, <1>4 DEF Among, Raises, m
<1>8. ASSUME NEW c PROVE LeadsTo(c, u, StatusPhase)
  <2>1. LeadsTo(c, s, StatusPhase)
    BY DEF Raises
  <2>2. (\A i \in 1 .. n + m : u[i][1] # "stat") => c = StatusPhase
    <3>1. ASSUME \A i \in 1 .. n + m : u[i][1] # "stat" PROVE c = StatusPhase
      <4>1. \A j \in 1 .. m : s[j][1] # "stat"
        BY <1>5, <3>1
      <4>2. QED
        BY <2>1, <4>1 DEF LeadsTo, m
    <3>2. QED
      BY <3>1
  <2>3. ASSUME NEW i \in 1 .. n + m, u[i][1] = "stat",
               \A j \in 1 .. n + m : i < j => u[j][1] # "stat"
        PROVE  u[i][2] = StatusPhase
    <3>1. i > n /\ i - n \in 1 .. m /\ u[i] = s[i - n]
      BY <1>4, <2>3
    <3>2. PICK k \in 1 .. m : k = i - n
      BY <3>1
    <3>3. ASSUME NEW j \in 1 .. m, k < j PROVE s[j][1] # "stat"
      <4>1. j + n \in 1 .. n + m /\ u[j + n] = s[j] /\ i < j + n
        BY <1>1, <1>5, <3>2, <3>3
      <4>2. QED
        BY <2>3, <4>1
    <3>4. s[k][1] = "stat" /\ u[i] = s[k]
      BY <2>3, <3>1, <3>2
    <3>5. QED
      BY <2>1, <3>3, <3>4 DEF LeadsTo, m
  <2>4. QED
    BY <1>2, <2>2, <2>3 DEF LeadsTo
<1>9. ASSUME NEW c, c \notin {StatusPhase, ParamPhase} PROVE Announces(c, u)
  <2>1. \A i, j \in 1 .. m : i < j /\ s[i] = <<"stat", StatusPhase>> => s[j][1] \in {"irq", "line"}
    BY <1>9 DEF Raises, Announces, m
  <2>2. ASSUME NEW i \in 1 .. n + m, NEW j \in 1 .. n + m, i < j, u[i] = <<"stat", StatusPhase>>
        PROVE  u[j][1] \in {"irq", "line"}
    <3>1. u[i][1] = "stat"
      BY <2>2
    <3>2. i > n /\ i - n \in 1 .. m /\ u[i] = s[i - n]
      BY <1>4, <3>1
    <3>3. ~(j <= n) /\ i - n < j - n
      BY <1>1, <2>2, <3>2
    <3>4. j - n \in 1 .. m /\ u[j] = s[j - n]
      BY <1>4, <3>3
    <3>5. QED
      BY <2>1, <2>2, <3>2, <3>3, <3>4
  <2>3. QED
    BY <1>2, <1>9, <2>2 DEF Announces
<1>10. \E i \in 1 .. Len(u) : u[i][1] = "status"
  <2>1. PICK j \in 1 .. m : s[j][1] = "status"
    BY DEF Raises, m
  <2>2. QED
    BY <1>2, <1>5, <2>1
<1>11. \A i \in 1 .. Len(u) : u[i][1] = "status" => u[i][2] = x
  <2>1. ASSUME NEW i \in 1 .. n + m, u[i][1] = "status" PROVE u[i][2] = x
    <3>1. i - n \in 1 .. m /\ u[i] = s[i - n]
      BY <1>4, <2>1
    <3>2. QED
      BY <2>1, <3>1 DEF Raises, m
  <2>2. QED
    BY <1>2, <2>1
<1>12. Raises(u, x)
  BY <1>6, <1>7, <1>8, <1>9, <1>10, <1>11 DEF Raises
<1>13. QED
  BY <1>12 DEF u

(* While a handler runs, the host waits for it: it has sent the command block and
   nothing more, and it reads the phase the handler drives. *)
LEMMA HandlerRound ==
  ASSUME TypeOK, Handler, Handling, NEW e \in Nat, Round(e)
  PROVE  /\ e = Block /\ queue = <<>> /\ Len(queue) = 0
         /\ ~dma.select /\ dma.dmaEnabled = Mine.dma /\ dma.target = Mine.target
         /\ Executing /\ cache.stat = dma.bus \ {"ACK"} /\ cache.stat \in PlainBus
<1>1. pc # "idle" /\ todo = <<>>
  BY HandlerFrameAll
<1>2. Block \in Nat /\ Block > 6
  BY RoundSizes
<1>3. /\ e - Len(queue) = Block /\ Executing
      /\ ~dma.select /\ dma.dmaEnabled = Mine.dma /\ dma.target = Mine.target
  <2>1. Taken(e - Len(queue))
    BY DEF Round
  <2>2. QED
    BY <1>1, <2>1 DEF Taken, Preparing, Receiving, Asking, Answering
<1>4. queue = <<>> /\ Len(queue) = 0 /\ e = Block
  <2>1. queue = <<>>
    BY <1>3 DEF Executing
  <2>2. Len(queue) = 0
    BY <2>1
  <2>3. QED
    BY <1>2, <1>3, <2>1, <2>2
<1>5. cache.stat = dma.bus \cap StatusBits
  <2>1. ~(e - Len(queue) <= 6)
    BY <1>2, <1>3
  <2>2. LeadsTo(cache.stat, todo, dma.bus \cap StatusBits)
    BY <2>1 DEF Round, Forecast
  <2>3. QED
    BY <1>1, <2>2 DEF LeadsTo
<1>6. dma.bus \ {"ACK"} \in PlainBus
  BY <1>3 DEF Executing
<1>7. dma.bus \cap StatusBits = dma.bus \ {"ACK"}
  BY <1>6, Requests
<1>8. QED
  BY <1>3, <1>4, <1>5, <1>6, <1>7

(* The phases a handler drives are plain ones, whatever the acknowledge. *)
LEMMA HandlerPhases ==
  ASSUME NEW b, NEW c, b \ {"ACK"} \in PlainBus,
         c \in {Busy(b), DataIn(b), DataOut(b),
                DataIn(b) \cup (b \cap {"ACK"}), DataOut(b) \cup (b \cap {"ACK"})}
  PROVE  c \ {"ACK"} \in PlainBus /\ c \cap StatusBits = c \ {"ACK"}
<1>1. /\ Busy(b) \ {"ACK"} \in PlainBus /\ DataIn(b) \ {"ACK"} \in PlainBus
      /\ DataOut(b) \ {"ACK"} \in PlainBus
  BY Requests
<1>2. ASSUME NEW x PROVE (x \cup (b \cap {"ACK"})) \ {"ACK"} = x \ {"ACK"}
  OBVIOUS
<1>3. c \ {"ACK"} \in PlainBus
  BY <1>1, <1>2
<1>4. QED
  BY <1>3, Requests

(* A step of a handler keeps host and worker in step: the worker's side, ... *)
LEMMA HandlerKeepsTaken ==
  ASSUME TypeOK, Handler, Handling, ResetFlagBacked, ~drops, NEW e \in Nat, Round(e)
  PROVE  Taken(e)' /\ LeadsTo(cache'.stat, todo', dma'.bus \cap StatusBits)
<1>1. /\ pc # "idle" /\ todo = <<>>
      /\ UNCHANGED <<cache, queue, drops, status, addr, resetReq, hp, latch, step, issued>>
      /\ w'.index = w.index /\ w'.cdb = w.cdb
      /\ Mine' = Mine /\ Current' = Current
  BY HandlerFrameAll
<1>2. /\ e = Block /\ queue = <<>> /\ Len(queue) = 0
      /\ ~dma.select /\ dma.dmaEnabled = Mine.dma /\ dma.target = Mine.target
      /\ Executing /\ cache.stat = dma.bus \ {"ACK"} /\ cache.stat \in PlainBus
  BY HandlerRound
<1>3. Asks' = Asks /\ Final' = Final /\ Block \in Nat /\ Block > 6 /\ w.cdb = Current
  BY <1>1, RoundSizes DEF Asks, Final, Handling
<1>4. /\ dma.dataOut = 0 /\ w.index = 0 /\ dma.bus \ {"ACK"} \in PlainBus
      /\ pc \in {"burst", "bursting"} => ~Asks
  BY <1>2 DEF Executing
<1>5. dma'.target = dma.target /\ dma'.dmaEnabled = dma.dmaEnabled /\ dma'.select = dma.select
  BY HandlerMoves
<1>6. cache.stat \notin {CommandPhase, ParamPhase, StatusPhase}
  BY <1>2, PhasesDiffer
<1>7. ASSUME Executing' PROVE Taken(e)'
  BY <1>1, <1>2, <1>3, <1>5, <1>7 DEF Taken
<1>8. CASE /\ todo' = <<>> /\ dma' = dma
           /\ pc' = "idle" => resetReq
           /\ pc' \in {"burst", "bursting"} => pc = "burst"
  <2>1. ~resetReq
    BY <1>1, <1>2 DEF ResetFlagBacked, ResetQueued, ResetUnderWay
  <2>2. Executing'
    <3>1. Only(todo', {"stat"}) /\ Among(todo', PlainBus)
      BY <1>8 DEF Only, Among
    <3>2. pc' # "idle" /\ (pc' \in {"burst", "bursting"} => ~Asks')
      BY <1>3, <1>4, <1>8, <2>1
    <3>3. QED
      BY <1>1, <1>2, <1>4, <1>6, <1>8, <3>1, <3>2 DEF Executing
  <2>3. LeadsTo(cache'.stat, todo', dma'.bus \cap StatusBits)
    <3>1. dma.bus \cap StatusBits = dma.bus \ {"ACK"}
      BY <1>4, Requests
    <3>2. QED
      BY <1>1, <1>2, <1>8, <3>1 DEF LeadsTo
  <2>4. QED
    BY <1>7, <2>2, <2>3
<1>9. CASE /\ pc' # "idle" /\ dma'.dataOut = dma.dataOut
           /\ \E b : /\ dma'.bus = b /\ todo' = <<Stat(b)>>
                     /\ b \in {Busy(dma.bus), DataIn(dma.bus), DataOut(dma.bus),
                               DataIn(dma.bus) \cup (dma.bus \cap {"ACK"}),
                               DataOut(dma.bus) \cup (dma.bus \cap {"ACK"})}
           /\ pc' \in {"burst", "bursting"} => Mine.op # "PARAMS" \/ dma.dmaEnabled
  <2>1. PICK b : /\ dma'.bus = b /\ todo' = <<Stat(b)>>
                 /\ b \in {Busy(dma.bus), DataIn(dma.bus), DataOut(dma.bus),
                           DataIn(dma.bus) \cup (dma.bus \cap {"ACK"}),
                           DataOut(dma.bus) \cup (dma.bus \cap {"ACK"})}
    BY <1>9
  <2>2. b \ {"ACK"} \in PlainBus /\ b \cap StatusBits = b \ {"ACK"}
    <3> DEFINE B == {Busy(dma.bus), DataIn(dma.bus), DataOut(dma.bus),
                     DataIn(dma.bus) \cup (dma.bus \cap {"ACK"}),
                     DataOut(dma.bus) \cup (dma.bus \cap {"ACK"})}
    <3>1. b \in B
      BY <2>1, Zenon
    <3>2. \A c \in B : c \ {"ACK"} \in PlainBus /\ c \cap StatusBits = c \ {"ACK"}
      BY <1>4, HandlerPhases, Zenon
    <3> HIDE DEF B
    <3>3. QED
      BY <3>1, <3>2
  <2>3. Only(todo', {"stat"}) /\ Among(todo', PlainBus)
    <3>1. b \cap StatusBits \in PlainBus
      BY <2>2
    <3>2. Only(<<Stat(b)>>, {"stat"}) /\ Among(<<Stat(b)>>, PlainBus)
      BY <3>1, PlanKinds, PlanPhases, Zenon
    <3>3. QED
      BY <2>1, <3>2
  <2>4. LeadsTo(cache'.stat, todo', dma'.bus \cap StatusBits)
    BY <2>1, PlanPhases
  <2>5. pc' \in {"burst", "bursting"} => ~Asks'
    BY <1>2, <1>3, <1>9 DEF Asks
  <2>6. Executing'
    BY <1>1, <1>2, <1>4, <1>6, <1>9, <2>1, <2>2, <2>3, <2>5 DEF Executing
  <2>7. QED
    BY <1>7, <2>4, <2>6
<1>10. CASE /\ pc = "route" /\ pc' = "idle" /\ Mine.op = "PARAMS" /\ ~dma.dmaEnabled
            /\ dma'.bus = ReqParam(dma.bus) /\ dma'.dataOut = ParamLen /\ dma'.nonDmaReq
            /\ todo' = <<Stat(ReqParam(dma.bus)), Irq(TRUE)>>
  <2>1. ReqParam(dma.bus) = ParamPhase /\ ParamPhase \cap StatusBits = ParamPhase
    BY <1>4, Requests
  <2>2. Asks /\ Asks' /\ Final = Block + ParamLen /\ ParamLen \in Nat \ {0}
    <3>1. Asks
      BY <1>2, <1>10 DEF Asks
    <3>2. QED
      BY <1>3, <3>1, RoundSizes
  <2>3. Only(todo', {"stat", "irq", "line"}) /\ Among(todo', {{"BSY"}, ParamPhase})
    <3> DEFINE X == {{"BSY"}, ParamPhase}
               s == <<Stat(ParamPhase), Irq(TRUE)>>
    <3>1. ParamPhase \cap StatusBits \in X
      BY <2>1
    <3> HIDE DEF X
    <3>2. Only(s, {"stat", "irq", "line"}) /\ Among(s, X)
      BY <3>1, PlanKinds, PlanPhases, Zenon
    <3>3. todo' = s
      BY <1>10, <2>1
    <3>4. QED
      BY <3>2, <3>3 DEF X
  <2>4. LeadsTo(cache'.stat, todo', dma'.bus \cap StatusBits)
    BY <1>10, <2>1, PlanPhases
  <2>5. dma'.dataOut = Final' - e /\ e < Final'
    BY <1>2, <1>3, <1>10, <2>2
  <2>6. Asking(e)'
    BY <1>1, <1>2, <1>4, <1>10, <2>1, <2>2, <2>3, <2>5 DEF Asking
  <2>7. (Block <= e /\ e < Final /\ Asking(e))'
    BY <1>2, <1>3, <2>5, <2>6
  <2>8. QED
    BY <1>1, <1>2, <1>3, <1>5, <2>4, <2>7 DEF Taken
<1>11. CASE /\ pc' = "idle" /\ dma'.dataOut = dma.dataOut
            /\ dma'.bus = ReqStatus(dma.bus) /\ dma'.nonDmaReq /\ dma'.statusPending
            /\ \E t, g : /\ Complete(t, g) /\ (t = <<>> \/ \E a : t = WriteBack(a))
                         /\ RightVerdict(Verdict(g))'
            /\ pc = "route" => Mine.op = "NONE"
            /\ pc # "route" => pc = "bursting" \/ Mine.op \in {"READ", "WRITE"}
  <2>1. ReqStatus(dma.bus) = StatusPhase /\ StatusPhase \cap StatusBits = StatusPhase
    BY <1>4, Requests
  <2>2. ~Asks' /\ e = Final'
    <3>1. ~Asks
      BY <1>4, <1>11 DEF Asks
    <3>2. QED
      BY <1>2, <1>3, <3>1, RoundSizes
  <2>3. PICK t, g : /\ Complete(t, g) /\ (t = <<>> \/ \E a : t = WriteBack(a))
                    /\ RightVerdict(Verdict(g))'
    BY <1>11
  <2> DEFINE x == Verdict(g)
             s == StatusStores(dma.bus, x)
  <2>4. todo' = t \o s /\ Raises(s, x)
    BY <1>4, <2>3, StatusPlan DEF Complete
  <2>5. Raises(todo', x)
    <3>1. CASE t = <<>>
      <4>1. todo' = s
        BY <2>4, <3>1 DEF StatusStores
      <4>2. QED
        BY <2>4, <4>1
    <3>2. CASE \E a : t = WriteBack(a)
      <4> DEFINE A(a) == <<"addr", a>>
                 S == {t[i] : i \in 1 .. 7} \cup {s[i] : i \in 1 .. 4}
      <4>1. PICK a : t = WriteBack(a)
        BY <3>2
      <4>2. Len(t) = 7 /\ Only(t, {"addr", "load", "sync"}) /\ Len(s) = 4
        BY <1>4, <4>1, WriteBackPlan, StatusPlan
      <4>3. t \in Seq(S)
        <5>1. \A i \in 1 .. 7 : t[i] \in S
          OBVIOUS
        <5>2. t = [i \in 1 .. 7 |-> t[i]]
          BY <4>1, <4>2 DEF WriteBack
        <5>3. QED
          BY <5>1, <5>2, <4>2
      <4>4. s \in Seq(S)
        <5>1. \A i \in 1 .. 4 : s[i] \in S
          OBVIOUS
        <5>2. s = [i \in 1 .. 4 |-> s[i]]
          BY <4>2 DEF StatusStores
        <5>3. QED
          BY <5>1, <5>2, <4>2
      <4> HIDE DEF S, s, x
      <4>5. Raises(t \o s, x)
        BY <2>4, <4>2, <4>3, <4>4, PrefixedPlan
      <4>6. QED
        BY <2>4, <4>5
    <3>3. QED
      BY <2>3, <3>1, <3>2
  <2> HIDE DEF s
  <2>6. LeadsTo(cache'.stat, todo', dma'.bus \cap StatusBits)
    BY <1>11, <2>1, <2>5 DEF Raises
  <2>7. \A k \in 1 .. Len(todo') : todo'[k][1] = "status" => (RightVerdict(todo[k][2]))'
    <3>1. ASSUME NEW k \in 1 .. Len(todo'), todo'[k][1] = "status"
          PROVE  (RightVerdict(todo[k][2]))'
      <4>1. todo'[k][2] = x
        BY <2>5, <3>1 DEF Raises
      <4>2. x' = x
        BY <1>1, <2>3 DEF Verdict
      <4>3. QED
        BY <2>3, <4>1, <4>2 DEF RightVerdict
    <3>2. QED
      BY <3>1
  <2>8. Announces(cache'.stat, todo') /\ Only(todo', AnswerKinds)
        /\ Among(todo', {{"BSY"}, StatusPhase})
        /\ \E i \in 1 .. Len(todo') : todo'[i][1] = "status"
    BY <1>1, <1>6, <2>5 DEF Raises
  <2>9. Answering'
    BY <1>1, <1>2, <1>4, <1>11, <2>1, <2>7, <2>8 DEF Answering
  <2>10. QED
    BY <1>1, <1>2, <1>3, <1>5, <2>2, <2>6, <2>9 DEF Taken
<1>12. QED
  BY <1>8, <1>9, <1>10, <1>11, HandlerMoves

(* The plan that writes the address back mirrors it before it is over. *)
Mirrors(u) ==
  /\ \A i \in 1 .. Len(u) : u[i][1] = "sync" => i # 1 /\ u[i - 1] = <<"load", u[i][2]>>
  /\ \A i \in 1 .. Len(u) : u[i][1] = "addr" => i = 1
  /\ \A l \in Lane : \E j \in 1 .. Len(u) : 1 < j /\ u[j] = <<"sync", l>>

(* signal_command_complete behind the write-back mirrors the address. *)
LEMMA MirrorPlan ==
  ASSUME NEW a, NEW b, NEW x
  PROVE  Mirrors(WriteBack(a) \o StatusStores(b, x))
<1> DEFINE t == WriteBack(a)
           s == StatusStores(b, x)
           S == {t[i] : i \in 1 .. 7} \cup {s[i] : i \in 1 .. 4}
           u == t \o s
<1>1. /\ Len(t) = 7
      /\ t[1] = <<"addr", a>> /\ t[2] = <<"load", "L">> /\ t[3] = <<"sync", "L">>
      /\ t[4] = <<"load", "M">> /\ t[5] = <<"sync", "M">>
      /\ t[6] = <<"load", "H">> /\ t[7] = <<"sync", "H">>
  BY WriteBackPlan
<1>2. /\ Len(s) = 4
      /\ s[1][1] = "status" /\ s[2][1] = "data" /\ s[3][1] = "stat" /\ s[4][1] = "irq"
  BY DEF StatusStores, Stat, Irq
<1>3. t \in Seq(S)
  <2>1. \A i \in 1 .. 7 : t[i] \in S
    OBVIOUS
  <2>2. t = [i \in 1 .. 7 |-> t[i]]
    BY <1>1 DEF WriteBack
  <2>3. QED
    BY <1>1, <2>1, <2>2
<1>4. s \in Seq(S)
  <2>1. \A i \in 1 .. 4 : s[i] \in S
    OBVIOUS
  <2>2. s = [i \in 1 .. 4 |-> s[i]]
    BY <1>2 DEF StatusStores
  <2>3. QED
    BY <1>2, <2>1, <2>2
<1> HIDE DEF t, s, S
<1>5. Len(u) = 11 /\ \A i \in 1 .. 11 : u[i] = IF i <= 7 THEN t[i] ELSE s[i - 7]
  <2>1. Len(u) = Len(t) + Len(s)
    BY <1>3, <1>4, ConcatProperties
  <2>2. \A i \in 1 .. Len(t) + Len(s) : u[i] = IF i <= Len(t) THEN t[i] ELSE s[i - Len(t)]
    BY <1>3, <1>4, ConcatProperties
  <2>3. Len(t) + Len(s) = 11
    BY <1>1, <1>2
  <2> HIDE DEF u
  <2>4. \A i \in 1 .. 11 : u[i] = IF i <= Len(t) THEN t[i] ELSE s[i - Len(t)]
    BY <2>2, <2>3
  <2>5. QED
    BY <1>1, <2>1, <2>3, <2>4
<1> HIDE DEF u
<1>6. /\ u[1] = t[1] /\ u[2] = t[2] /\ u[3] = t[3] /\ u[4] = t[4]
      /\ u[5] = t[5] /\ u[6] = t[6] /\ u[7] = t[7]
      /\ u[8] = s[1] /\ u[9] = s[2] /\ u[10] = s[3] /\ u[11] = s[4]
  BY <1>5
<1>7. /\ u[1] = <<"addr", a>> /\ u[2] = <<"load", "L">> /\ u[3] = <<"sync", "L">>
      /\ u[4] = <<"load", "M">> /\ u[5] = <<"sync", "M">>
      /\ u[6] = <<"load", "H">> /\ u[7] = <<"sync", "H">>
      /\ u[8][1] = "status" /\ u[9][1] = "data" /\ u[10][1] = "stat" /\ u[11][1] = "irq"
  BY <1>1, <1>2, <1>6
<1>8. \A i \in 1 .. 11 : i \in 1 .. 7 \/ i \in 8 .. 11
  OBVIOUS
<1>9. ASSUME NEW i \in 1 .. 11, u[i][1] \in {"sync", "addr"}
      PROVE  i = 1 \/ i = 3 \/ i = 5 \/ i = 7
  <2>1. \/ i = 1 \/ i = 2 \/ i = 3 \/ i = 4 \/ i = 5 \/ i = 6 \/ i = 7
        \/ i = 8 \/ i = 9 \/ i = 10 \/ i = 11
    OBVIOUS
  <2>2. QED
    BY <1>7, <1>9, <2>1
<1>10. \A i \in 1 .. 11 : u[i][1] = "sync" => i # 1 /\ u[i - 1] = <<"load", u[i][2]>>
  BY <1>7, <1>9
<1>11. \A i \in 1 .. 11 : u[i][1] = "addr" => i = 1
  BY <1>7, <1>9
<1>12. \A l \in Lane : \E j \in 1 .. 11 : 1 < j /\ u[j] = <<"sync", l>>
  <2>1. 3 \in 1 .. 11 /\ 5 \in 1 .. 11 /\ 7 \in 1 .. 11
    OBVIOUS
  <2>2. QED
    BY <1>7, <2>1 DEF Lane
<1>13. QED
  BY <1>5, <1>10, <1>11, <1>12 DEF u, t, s, Mirrors

(* ... the mirrored address, ... *)
LEMMA HandlerKeepsMirroring ==
  ASSUME TypeOK, Handler, Handling, Mirroring(cache.addr, todo)
  PROVE  (Mirroring(cache.addr, todo))'
<1>1. todo = <<>> /\ cache' = cache /\ addr' = addr
  BY HandlerFrameAll
<1>2. \A l \in Lane : cache.addr[l] = addr[l]
  <2>1. ASSUME NEW l \in Lane PROVE cache.addr[l] = addr[l]
    <3>1. ~\E i \in 1 .. Len(todo) : todo[i] = <<"sync", l>>
      BY <1>1
    <3>2. QED
      BY <3>1 DEF Mirroring
  <2>2. QED
    BY <2>1
<1>3. ASSUME Only(todo', {"stat", "irq", "line", "status", "data"}) PROVE (Mirroring(cache.addr, todo))'
  <2>1. \A i \in 1 .. Len(todo') : todo'[i][1] # "sync" /\ todo'[i][1] # "addr"
    BY <1>3 DEF Only
  <2>2. QED
    BY <1>1, <1>2, <2>1 DEF Mirroring
<1>4. ASSUME NEW t, NEW g, Complete(t, g), t = <<>> \/ \E a : t = WriteBack(a)
      PROVE  (Mirroring(cache.addr, todo))'
  <2> DEFINE s == StatusStores(dma.bus, Verdict(g))
  <2>1. todo' = t \o s
    BY <1>4 DEF Complete
  <2>2. CASE t = <<>>
    <3>1. todo' = s
      BY <2>1, <2>2 DEF StatusStores
    <3>2. Len(s) = 4 /\ s[1][1] = "status" /\ s[2][1] = "data" /\ s[3][1] = "stat" /\ s[4][1] = "irq"
      BY DEF StatusStores, Stat, Irq
    <3>3. \A i \in 1 .. 4 : i = 1 \/ i = 2 \/ i = 3 \/ i = 4
      OBVIOUS
    <3> HIDE DEF s
    <3>4. Only(s, {"stat", "irq", "line", "status", "data"})
      BY <3>2, <3>3 DEF Only
    <3>5. QED
      BY <1>3, <3>1, <3>4
  <2>3. CASE \E a : t = WriteBack(a)
    <3>1. PICK a : t = WriteBack(a)
      BY <2>3
    <3>2. Mirrors(todo')
      BY <2>1, <3>1, MirrorPlan
    <3>3. \A l \in Lane : cache'.addr[l] = addr'[l]
      BY <1>1, <1>2
    <3>4. \A i \in 1 .. Len(todo') : todo'[i][1] = "sync" =>
            IF i = 1 THEN w'.byte = addr'[todo'[i][2]] ELSE todo'[i - 1] = <<"load", todo'[i][2]>>
      BY <3>2 DEF Mirrors
    <3>5. \A i \in 1 .. Len(todo') : todo'[i][1] = "addr" =>
            \A l \in Lane : \E j \in 1 .. Len(todo') : i < j /\ todo'[j] = <<"sync", l>>
      BY <3>2 DEF Mirrors
    <3>6. QED
      BY <3>3, <3>4, <3>5 DEF Mirroring
  <2>4. QED
    BY <1>4, <2>2, <2>3
<1>5. CASE todo' = <<>>
  BY <1>3, <1>5 DEF Only
<1>6. ASSUME NEW b, todo' = <<Stat(b)>> \/ todo' = <<Stat(b), Irq(TRUE)>>
      PROVE  (Mirroring(cache.addr, todo))'
  <2>1. Only(todo', {"stat", "irq", "line"})
    <3>1. Only(<<Stat(b)>>, {"stat"}) /\ Only(<<Stat(b), Irq(TRUE)>>, {"stat", "irq", "line"})
      BY PlanKinds, Zenon
    <3>2. Only(<<Stat(b)>>, {"stat", "irq", "line"})
      BY <3>1 DEF Only
    <3>3. QED
      BY <1>6, <3>1, <3>2, Zenon
  <2>2. QED
    BY <1>3, <2>1 DEF Only
<1>7. \/ todo' = <<>>
      \/ \E b : todo' = <<Stat(b)>> \/ todo' = <<Stat(b), Irq(TRUE)>>
      \/ \E t, g : Complete(t, g) /\ (t = <<>> \/ \E a : t = WriteBack(a))
  BY HandlerMoves, Zenon
<1>8. QED
  BY <1>4, <1>5, <1>6, <1>7

(* ... the round, ... *)
LEMMA HandlerKeepsRound ==
  ASSUME TypeOK, Handler, Handling, ResetFlagBacked, ~drops, NEW e \in Nat, Round(e)
  PROVE  Round(e)'
<1>1. /\ UNCHANGED <<cache, queue, drops, status, addr, resetReq, hp, latch, step, issued>>
      /\ Mine' = Mine /\ Current' = Current
  BY HandlerFrameAll
<1>2. e = Block /\ queue = <<>> /\ Len(queue) = 0
  BY HandlerRound
<1>3. Asks' = Asks /\ Final' = Final /\ Block \in Nat /\ Block > 6
  BY <1>1, RoundSizes DEF Asks, Final
<1>4. Taken(e)' /\ LeadsTo(cache'.stat, todo', dma'.bus \cap StatusBits)
  BY HandlerKeepsTaken
<1>5. queue' = <<>> /\ Len(queue') = 0 /\ e - Len(queue') = e
  BY <1>1, <1>2, <1>3
<1>6. (Taken(e - Len(queue)))'
  <2>1. PICK p \in Nat : p = e
    OBVIOUS
  <2>2. Taken(p)' /\ p = e - Len(queue')
    BY <1>4, <1>5, <2>1
  <2>3. QED
    BY <2>2
<1>7. (LeadsTo(cache.stat, todo, Forecast(e)))'
  <2>1. ~(e - Len(queue') <= 6)
    BY <1>2, <1>3, <1>5
  <2>2. QED
    BY <1>4, <2>1 DEF Forecast, LeadsTo
<1>8. (e > 2 => issued # <<>> /\ e <= Final)'
  BY <1>1, <1>3 DEF Round
<1>9. \A i \in 1 .. Len(queue') : queue'[i] = (Entry(e - Len(queue) + i))'
  BY <1>5
<1>10. (2 < e /\ e - Len(queue) < Block /\ hp # "addr" => addr = Programmed(Current, 0))'
  BY <1>2, <1>3, <1>5
<1>11. (Block < e => Routed(e))'
  BY <1>2, <1>3
<1>12. (Len(queue) <= e)'
  BY <1>5
<1>13. QED
  BY <1>6, <1>7, <1>8, <1>9, <1>10, <1>11, <1>12 DEF Round

(* ... what the host has seen, ... *)
LEMMA HandlerKeepsObserved ==
  ASSUME TypeOK, Handler, Handling, hp \notin {"reset", "unreset", "settle"}, Round(Sent), Observed
  PROVE  Observed'
<1>1. /\ UNCHANGED <<cache, queue, status, addr, hp, latch, step, issued>>
      /\ Mine' = Mine /\ Current' = Current /\ pc # "idle"
  BY HandlerFrameAll
<1>2. ~Routed(Sent)
  BY <1>1 DEF Routed
<1>3. hp # "readstat"
  <2>1. PICK p \in Nat : p = Sent
    BY RoundSizes DEF Sent, TypeOK, HostType
  <2>2. p = Block
    BY <2>1, HandlerRound
  <2>3. hp = "readstat" => Sent = 0
    BY DEF Sent
  <2>4. QED
    BY <2>1, <2>2, <2>3, RoundSizes
<1>4. Asks' = Asks
  BY <1>1 DEF Asks
<1>5. QED
  BY <1>1, <1>2, <1>3, <1>4 DEF Observed

(* ... and all of it. *)
LEMMA HandlerKeepsInStep ==
  ASSUME TypeOK, Handler, InStep, ResetFlagBacked
  PROVE  InStep'
<1>0. pc # "idle"
  BY DEF Handler, Route, Burst, BurstDone, Snapshot, SectorBegin, FetchSector, Transfer, StoreSector, CheckReset,
         Sync, Finish, WorkerAt
<1>1. Handling /\ ~drops
  BY <1>0 DEF InStep
<1>2. /\ UNCHANGED <<cache, queue, drops, hp, latch, step, issued>>
      /\ Mine' = Mine /\ Current' = Current
  BY <1>1, HandlerFrameAll
<1>3. Sent' = Sent
  BY <1>2 DEF Sent, Final, Asks
<1>4. /\ (Mirroring(cache.addr, todo))' /\ (pc' # "idle" => Handling') /\ ~drops'
      /\ (hp # "reset" => (cache.sel <=> hp \in {"bsy", "deselect"}))'
  BY <1>1, <1>2, HandlerKeepsMirroring, HandlerKeepsHandling DEF InStep
<1>5. CASE hp \notin {"reset", "unreset", "settle"}
  <2>1. PICK p \in Nat : p = Sent
    BY <1>5, RoundSizes DEF Sent, TypeOK, HostType
  <2>2. Round(p)'
    BY <1>1, <1>5, <2>1, HandlerKeepsRound DEF InStep
  <2>3. (Round(Sent))'
    BY <1>3, <2>1, <2>2
  <2>4. Observed'
    BY <1>1, <1>5, HandlerKeepsObserved DEF InStep
  <2>5. QED
    BY <1>2, <1>4, <1>5, <2>3, <2>4 DEF InStep
<1>6. CASE hp = "reset"
  <2>1. PICK e \in 0 .. Block + ParamLen : Round(e) /\ (queue = <<>> \/ e = 1)
    BY <1>6 DEF InStep
  <2>2. e \in Nat
    OBVIOUS
  <2>3. Round(e)'
    BY <1>1, <2>1, <2>2, HandlerKeepsRound
  <2>4. QED
    BY <1>2, <1>4, <1>6, <2>1, <2>3 DEF InStep
<1>7. CASE hp \in {"unreset", "settle"}
  <2>1. Clearing'
    <3>1. Clearing /\ ~Cleared
      BY <1>0, <1>7 DEF InStep, Cleared
    <3>2. Released' = Released
      BY <1>2 DEF Released
    <3>3. QED
      BY <1>2, <3>1, <3>2 DEF Clearing, ResetWrite
  <2>2. QED
    BY <1>2, <1>4, <1>7, <2>1 DEF InStep
<1>8. QED
  BY <1>5, <1>6, <1>7

(* The queue is deep enough for what the driver of the host has in flight. *)
Deep == QueueSize > 6 + CdbLen /\ QueueSize > ParamLen

(* Up to the command phase the worker only prepares, and the cache reads what the
   ISR has predicted. *)
LEMMA RoundEarly ==
  ASSUME TypeOK, NEW e \in Nat, Round(e), e <= 6
  PROVE  /\ pc = "idle" /\ Silent(todo) /\ cache.stat = BusAt(e) \cap StatusBits
         /\ Preparing(e - Len(queue)) /\ e - Len(queue) <= 6
<1>1. Len(queue) \in Nat /\ Len(queue) <= e
  BY QueueSizes DEF Round
<1>2. e - Len(queue) <= 6
  BY <1>1
<1>3. Preparing(e - Len(queue))
  <2>1. ~(6 < e - Len(queue))
    BY <1>1, <1>2
  <2>2. QED
    BY <2>1 DEF Round, Taken
<1>4. pc = "idle" /\ Silent(todo)
  BY <1>3 DEF Preparing
<1>5. cache.stat = BusAt(e) \cap StatusBits
  <2>1. LeadsTo(cache.stat, todo, BusAt(e) \cap StatusBits)
    BY <1>2 DEF Round, Forecast
  <2>2. QED
    BY <1>4, <2>1, PlanPhases
<1>6. QED
  BY <1>2, <1>3, <1>4, <1>5

(* An operation for which there is room is queued. *)
LEMMA EnqueueRoom ==
  ASSUME TypeOK, NEW x, Enqueue(x), Len(queue) < QueueSize - 1
  PROVE  queue' = Append(queue, x) /\ drops' = drops
BY DEF Enqueue

(* There is: the host sends a byte of the command block, or what comes before it,
   only after fewer than Block entries, and a parameter byte only once the block
   has been executed. *)
LEMMA RoundRoom ==
  ASSUME TypeOK, Deep, NEW e \in Nat, Round(e), e < Block \/ (Routed(e) /\ e < Final)
  PROVE  Len(queue) < QueueSize - 1
<1>1. Len(queue) \in Nat /\ Len(queue) <= e
  BY QueueSizes DEF Round
<1>2. /\ QueueSize \in Nat /\ CdbLen \in Nat /\ ParamLen \in Nat
      /\ Block = 6 + CdbLen /\ Final <= Block + ParamLen /\ Final \in Nat
  BY RoundSizes, SizesAssumption
<1>3. CASE e < Block
  BY <1>1, <1>2, <1>3 DEF Deep
<1>4. CASE Routed(e) /\ e < Final
  <2>1. Block <= e - Len(queue)
    BY <1>4 DEF Routed
  <2>2. QED
    BY <1>1, <1>2, <1>4, <2>1 DEF Deep
<1>5. QED
  BY <1>3, <1>4

(* Sending the next entry, with the phase predicted for it. *)
LEMMA SendKeepsRound ==
  ASSUME TypeOK, NEW e \in Nat, Round(e),
         queue' = Append(queue, Entry(e + 1)'), UNCHANGED <<dma, pc, todo, w>>,
         e <= 2 \/ issued' = issued,
         e + 1 > 2 => issued' # <<>> /\ e + 1 <= Final',
         2 < e + 1 /\ e - Len(queue) < Block /\ hp' # "addr" => addr' = Programmed(Current', 0),
         \/ e <= 5 /\ cache'.stat = BusAt(e + 1) \cap StatusBits
         \/ e >= 6 /\ cache'.stat = cache.stat,
         e < Block \/ (Routed(e) /\ e < Final)
  PROVE  Round(e + 1)'
<1>1. /\ Len(queue) \in Nat /\ Len(queue) <= e /\ queue \in Seq(QueueEntry)
  BY QueueSizes DEF Round
<1>2. /\ Len(queue') = Len(queue) + 1
      /\ \A k \in 1 .. Len(queue) : queue'[k] = queue[k]
      /\ queue'[Len(queue) + 1] = Entry(e + 1)'
  BY <1>1
<1>3. PICK i \in Nat : i = e - Len(queue)
  <2>1. e - Len(queue) \in Nat
    BY <1>1
  <2>2. QED
    BY <2>1
<1>4. PICK f \in Nat : f = e + 1
  OBVIOUS
<1>5. i = f - Len(queue') /\ Len(queue') <= f
  BY <1>1, <1>2, <1>3, <1>4
<1>6. Block \in Nat /\ Block > 6 /\ Final \in Nat /\ Final >= Block
  BY RoundSizes
<1>7. Taken(i)
  BY <1>3 DEF Round
<1>8. issued' = issued => Mine' = Mine /\ Current' = Current /\ Asks' = Asks /\ Final' = Final
  BY DEF Mine, Current, Asks, Final
<1>9. Taken(i)'
  <2>1. CASE i <= 6
    <3>1. Preparing(i)
      BY <1>7, <2>1 DEF Taken
    <3>2. i >= 3 => Mine' = Mine
      BY <1>1, <1>3, <1>8
    <3>3. Preparing(i)'
      BY <3>1, <3>2 DEF Preparing, Silent, Only, BusAt
    <3>4. QED
      BY <2>1, <3>3 DEF Taken
  <2>2. CASE 6 < i
    <3>1. issued' = issued /\ cache'.stat = cache.stat
      BY <1>1, <1>3, <2>2
    <3>2. i # Final /\ (i = Block => pc = "idle")
      <4>1. i <= e
        BY <1>1, <1>3
      <4>2. QED
        BY <1>6, <2>2, <4>1 DEF Routed
    <3>3. /\ ~dma.select /\ dma.dmaEnabled = Mine.dma /\ dma.target = Mine.target
          /\ w.cdb = Current
          /\ \/ i < Block /\ Receiving(i)
             \/ Block <= i /\ i < Final /\ Asking(i)
      <4>1. ~(i <= 6)
        BY <2>2
      <4>2. QED
        BY <1>7, <3>2, <4>1 DEF Taken, Executing
    <3>4. /\ Receiving(i) => Receiving(i)'
          /\ Asking(i) => Asking(i)'
      BY <1>8, <3>1 DEF Receiving, Asking, Only, Among
    <3>5. QED
      BY <1>8, <2>2, <3>1, <3>3, <3>4 DEF Taken
  <2>3. QED
    BY <2>1, <2>2
<1>10. (Taken(f - Len(queue)))'
  BY <1>5, <1>9
<1>11. (LeadsTo(cache.stat, todo, Forecast(f)))'
  <2>1. LeadsTo(cache.stat, todo, Forecast(e))
    BY DEF Round
  <2>2. CASE e <= 5
    <3>1. f - Len(queue') <= 6
      BY <1>1, <1>3, <1>5, <2>2
    <3>2. (Forecast(f))' = BusAt(f) \cap StatusBits
      BY <3>1 DEF Forecast, BusAt
    <3>3. cache'.stat = BusAt(f) \cap StatusBits
      BY <1>4, <2>2
    <3>4. Silent(todo')
      BY <2>2, RoundEarly
    <3>5. LeadsTo(cache'.stat, todo', (Forecast(f))')
      BY <3>2, <3>3, <3>4, PlanPhases
    <3>6. QED
      BY <3>5
  <2>3. CASE e >= 6
    <3>1. Forecast(e) = (Forecast(f))'
      <4>1. f > 5 /\ e > 5
        BY <1>4, <2>3
      <4>2. BusAt(e) = BusAt(f) /\ BusAt(f)' = BusAt(f)
        BY <4>1, BusAtPhase DEF BusAt
      <4>3. e - Len(queue) = f - Len(queue')
        BY <1>3, <1>5
      <4>4. QED
        BY <4>2, <4>3 DEF Forecast
    <3>2. cache'.stat = cache.stat
      BY <2>3
    <3>3. LeadsTo(cache'.stat, todo', (Forecast(f))')
      BY <2>1, <3>1, <3>2
    <3>4. QED
      BY <3>3
  <2>4. QED
    BY <2>2, <2>3
<1>12. \A k \in 1 .. Len(queue') : queue'[k] = (Entry(f - Len(queue) + k))'
  <2>1. ASSUME NEW k \in 1 .. Len(queue')
        PROVE  queue'[k] = (Entry(f - Len(queue) + k))'
    <3>1. PICK n \in Nat : n = f - Len(queue') + k
      <4>1. f - Len(queue') + k \in Nat
        BY <1>5
      <4>2. QED
        BY <4>1
    <3>2. queue'[k] = Entry(n)'
      <4>1. CASE k = Len(queue')
        <5>1. n = e + 1 /\ k = Len(queue) + 1
          BY <1>1, <1>2, <1>4, <3>1, <4>1
        <5>2. QED
          BY <1>2, <5>1
      <4>2. CASE k # Len(queue')
        <5>1. k \in 1 .. Len(queue) /\ n = e - Len(queue) + k /\ n <= e
          BY <1>1, <1>2, <1>4, <3>1, <4>2
        <5>2. queue[k] = Entry(n)
          BY <5>1 DEF Round
        <5>3. Entry(n)' = Entry(n)
          <6>1. n <= 2 \/ issued' = issued
            BY <5>1
          <6>2. QED
            BY <1>8, <6>1 DEF Entry, BaseControl
        <5>4. QED
          BY <1>2, <5>1, <5>2, <5>3
      <4>3. QED
        BY <4>1, <4>2
    <3>3. QED
      BY <3>1, <3>2
  <2>2. QED
    BY <2>1
<1>13. (2 < f /\ f - Len(queue) < Block /\ hp # "addr" => addr = Programmed(Current, 0))'
  BY <1>3, <1>4, <1>5 DEF Programmed, Block
<1>14. (Block < f => Routed(f))'
  <2>1. ASSUME Block < f PROVE Routed(f)'
    <3>1. ~(e < Block)
      BY <1>4, <1>6, <2>1
    <3>2. Routed(e)
      BY <3>1
    <3>3. QED
      BY <1>3, <1>5, <3>2 DEF Routed, Block
  <2>2. QED
    BY <2>1 DEF Block
<1>15. (Len(queue) <= f)' /\ (f > 2 => issued # <<>> /\ f <= Final)'
  BY <1>4, <1>5
<1>16. Round(f)'
  BY <1>10, <1>11, <1>12, <1>13, <1>14, <1>15 DEF Round
<1>17. QED
  BY <1>4, <1>16

(* What the worker knows does not depend on where the host is. *)
LEMMA HostFrame ==
  ASSUME TypeOK, InStep, UNCHANGED <<dma, pc, todo, w>>, addr' = addr, cache'.addr = cache.addr,
         issued' = issued, resetReq => resetReq'
  PROVE  (Mirroring(cache.addr, todo))' /\ (pc' # "idle" => Handling')
<1>1. Mine' = Mine /\ Current' = Current
  BY DEF Mine, Current
<1>2. (Mirroring(cache.addr, todo))'
  <2>1. PICK a : a = cache.addr
    OBVIOUS
  <2>2. Mirroring(a, todo)
    BY <2>1 DEF InStep
  <2>3. (w.byte)' = w.byte /\ cache'.addr = a
    BY <2>1
  <2>4. QED
    BY <2>2, <2>3 DEF Mirroring
<1>3. ASSUME pc' # "idle" PROVE Handling'
  <2>1. Handling
    BY <1>3 DEF InStep
  <2>2. (Executed <=> Executed') /\ (Only(todo, {"stat"}) <=> (Only(todo, {"stat"}))')
    BY <1>1 DEF Executed, Only
  <2>3. QED
    BY <1>1, <2>1, <2>2 DEF Handling, Programmed
<1>4. QED
  BY <1>2, <1>3

(* A control write moves the cached phase, and the level of SELECT it has seen. *)
LEMMA ControlCache ==
  ASSUME TypeOK, NEW c, IsrWriteControl(c), c \in SUBSET ControlBits
  PROVE  /\ cache'.addr = cache.addr /\ (cache'.sel <=> "SEL" \in c)
         /\ "RESET" \in c => cache'.stat = BusFree
         /\ "RESET" \notin c /\ "SEL" \in c /\ ~cache.sel => cache'.stat = Selection
         /\ "RESET" \notin c /\ "SEL" \notin c /\ cache.sel => cache'.stat = CommandPhase
         /\ "RESET" \notin c /\ ("SEL" \in c <=> cache.sel) => cache'.stat = cache.stat
         /\ "RESET" \notin c => resetReq' = resetReq
         /\ resetReq => resetReq'
         /\ UNCHANGED <<status, addr, irqPending, irqLine>>
         /\ Enqueue(<<"control", c>>)
<1>1. cache \in [stat : SUBSET StatusBits, data : StatusByte, sel : BOOLEAN, addr : Address]
  BY DEF TypeOK, SharedType
<1>2. cache' = Predicted(c) /\ resetReq' = Flagged(c) /\ Enqueue(<<"control", c>>)
      /\ UNCHANGED <<status, addr, irqPending, irqLine>>
  BY DEF IsrWriteControl
<1>3. resetReq \in BOOLEAN
  BY DEF TypeOK, SharedType
<1>4. ("RESET" \notin c => resetReq' = resetReq) /\ (resetReq => resetReq')
  BY <1>2, <1>3 DEF Flagged
<1> DEFINE sel == "SEL" \in c
<1>5. sel \in BOOLEAN
  OBVIOUS
<1>6. ASSUME NEW b, cache' = [cache EXCEPT !.stat = b, !.data = Zero, !.sel = sel]
      PROVE  cache'.stat = b /\ cache'.addr = cache.addr /\ (cache'.sel <=> sel)
  <2> HIDE DEF sel
  <2>1. QED
    BY <1>1, <1>6
<1>7. ASSUME cache' = [cache EXCEPT !.sel = sel]
      PROVE  cache'.stat = cache.stat /\ cache'.addr = cache.addr /\ (cache'.sel <=> sel)
  <2> HIDE DEF sel
  <2>1. QED
    BY <1>1, <1>7
<1>8. CASE "RESET" \in c
  <2>1. cache' = [cache EXCEPT !.stat = BusFree, !.data = Zero, !.sel = sel]
    BY <1>2, <1>8 DEF Predicted
  <2>2. QED
    BY <1>2, <1>4, <1>6, <1>8, <2>1
<1>9. CASE "RESET" \notin c /\ "SEL" \in c /\ ~cache.sel
  <2>1. cache' = [cache EXCEPT !.stat = Selection, !.data = Zero, !.sel = sel]
    BY <1>2, <1>9 DEF Predicted
  <2>2. QED
    BY <1>2, <1>4, <1>6, <1>9, <2>1
<1>10. CASE "RESET" \notin c /\ "SEL" \notin c /\ cache.sel
  <2>1. cache' = [cache EXCEPT !.stat = CommandPhase, !.data = Zero, !.sel = sel]
    BY <1>2, <1>10 DEF Predicted
  <2>2. QED
    BY <1>2, <1>4, <1>6, <1>10, <2>1
<1>11. CASE "RESET" \notin c /\ ("SEL" \in c <=> cache.sel)
  <2>1. cache' = [cache EXCEPT !.sel = sel]
    BY <1>2, <1>11 DEF Predicted
  <2>2. QED
    BY <1>2, <1>4, <1>7, <1>11, <2>1
<1>12. QED
  BY <1>8, <1>9, <1>10, <1>11

(* Sending one of the entries from the selection byte on. *)
LEMMA SendKeepsInStep ==
  ASSUME TypeOK, InStep, Deep, NEW e \in Nat, e = Sent, (Sent)' = e + 1, e > 2, e + 1 <= Final,
         hp \notin {"reset", "unreset", "settle", "addr"},
         hp' \notin {"reset", "unreset", "settle", "addr"},
         Enqueue(Entry(e + 1)), UNCHANGED <<dma, pc, todo, w>>,
         issued' = issued, addr' = addr, cache'.addr = cache.addr, resetReq => resetReq',
         cache'.sel <=> hp' \in {"bsy", "deselect"},
         \/ e <= 5 /\ cache'.stat = BusAt(e + 1) \cap StatusBits
         \/ e >= 6 /\ cache'.stat = cache.stat,
         e < Block \/ (Routed(e) /\ e < Final),
         Observed'
  PROVE  InStep'
<1>1. Round(e) /\ ~drops
  BY DEF InStep
<1>2. queue' = Append(queue, Entry(e + 1)) /\ drops' = drops
  BY <1>1, RoundRoom, EnqueueRoom
<1>3. Mine' = Mine /\ Current' = Current /\ Final' = Final /\ Entry(e + 1)' = Entry(e + 1)
  BY DEF Mine, Current, Final, Asks, Entry, BaseControl
<1>4. issued # <<>> /\ (e - Len(queue) < Block => addr = Programmed(Current, 0))
  BY <1>1 DEF Round
<1>5. Round(e + 1)'
  <2>1. 2 < e + 1 /\ e - Len(queue) < Block /\ hp' # "addr" => addr' = Programmed(Current', 0)
    BY <1>3, <1>4
  <2>2. e + 1 > 2 => issued' # <<>> /\ e + 1 <= Final'
    BY <1>3, <1>4
  <2>3. queue' = Append(queue, Entry(e + 1)')
    BY <1>2, <1>3
  <2>4. QED
    BY <1>1, <2>1, <2>2, <2>3, SendKeepsRound
<1>6. (Round(Sent))'
  <2>1. PICK f \in Nat : f = e + 1
    OBVIOUS
  <2>2. Round(f)'
    BY <1>5, <2>1
  <2>3. QED
    BY <2>1, <2>2
<1>7. (Mirroring(cache.addr, todo))' /\ (pc' # "idle" => Handling')
  BY HostFrame
<1>8. QED
  BY <1>1, <1>2, <1>6, <1>7 DEF InStep

(* Nothing is sent: the round goes on as it was. *)
LEMMA StayKeepsRound ==
  ASSUME TypeOK, NEW e \in Nat, Round(e),
         UNCHANGED <<queue, dma, pc, todo, w, issued, status>>, cache'.stat = cache.stat,
         2 < e /\ e - Len(queue) < Block /\ hp' # "addr" => addr' = Programmed(Current, 0)
  PROVE  Round(e)' /\ (Routed(e) <=> Routed(e)')
<1>1. /\ Mine' = Mine /\ Current' = Current /\ (Asks' <=> Asks) /\ Final' = Final
      /\ BaseControl' = BaseControl /\ Block' = Block
  BY DEF Mine, Current, Asks, Final, BaseControl, Block
<1>2. PICK i : i = e - Len(queue)
  OBVIOUS
<1>3. i = e - Len(queue')
  BY <1>2
<1>4. \A x : RightVerdict(x) => RightVerdict(x)'
  BY <1>1 DEF RightVerdict, Executed
<1>5. /\ Preparing(i) => Preparing(i)'
      /\ Receiving(i) => Receiving(i)'
      /\ Executing => Executing'
      /\ Asking(i) => Asking(i)'
  BY <1>1 DEF Preparing, Receiving, Executing, Asking, BusAt, Silent, Only, Among
<1>6. ASSUME Answering PROVE Answering'
  <2>1. Only(todo, AnswerKinds)' /\ (Among(todo, {{"BSY"}, StatusPhase}))'
        /\ (Announces(cache.stat, todo))'
    BY <1>6 DEF Answering, Only, Among, Announces, Silent
  <2>2. (\A k \in 1 .. Len(todo') : todo'[k][1] # "status") => (RightVerdict(status))'
    BY <1>4, <1>6 DEF Answering, RightVerdict
  <2>3. \A k \in 1 .. Len(todo') : todo'[k][1] = "status" => (RightVerdict(todo[k][2]))'
    BY <1>4, <1>6 DEF Answering, RightVerdict
  <2>4. QED
    BY <1>6, <2>1, <2>2, <2>3 DEF Answering
<1>7. Taken(i)'
  <2>1. Taken(i)
    BY <1>2 DEF Round
  <2>2. QED
    BY <1>1, <1>5, <1>6, <2>1 DEF Taken
<1>8. (Taken(e - Len(queue)))'
  BY <1>3, <1>7
<1>9. (LeadsTo(cache.stat, todo, Forecast(e)))'
  <2>1. Forecast(e)' = Forecast(e)
    BY DEF Forecast, BusAt
  <2>2. LeadsTo(cache.stat, todo, Forecast(e))
    BY DEF Round
  <2>3. LeadsTo(cache'.stat, todo', Forecast(e)')
    BY <2>1, <2>2
  <2>4. QED
    BY <2>3
<1>10. \A k \in 1 .. Len(queue') : queue'[k] = (Entry(e - Len(queue) + k))'
  BY <1>1 DEF Round, Entry
<1>11. Routed(e) <=> Routed(e)'
  BY <1>1 DEF Routed
<1>12. /\ (Len(queue) <= e)' /\ (e > 2 => issued # <<>> /\ e <= Final)'
       /\ (2 < e /\ e - Len(queue) < Block /\ hp # "addr" => addr = Programmed(Current, 0))'
       /\ (Block < e => Routed(e))'
  BY <1>1, <1>11 DEF Round, Programmed
<1>13. QED
  BY <1>8, <1>9, <1>10, <1>11, <1>12 DEF Round

(* A poll of STATUS shows what the cache reads, ... *)
LEMMA PollKeepsInStep ==
  ASSUME TypeOK, HostPoll, InStep
  PROVE  InStep'
<1>1. /\ UNCHANGED <<cache, queue, drops, status, addr, resetReq, dma, pc, todo, w, hp, step, issued>>
      /\ hp \in {"idle", "bsy", "cmd", "param", "stat", "msg"} /\ latch' = <<cache.stat>>
  BY DEF HostPoll, cacheVars, sharedVars, workerVars, Polls, Expected
<1>2. Sent' = Sent /\ Mine' = Mine /\ Current' = Current /\ (Asks' <=> Asks)
  BY <1>1 DEF Sent, Final, Asks, Mine, Current
<1>3. PICK p \in Nat : p = Sent
  BY <1>1, RoundSizes DEF Sent, TypeOK, HostType
<1>4. Round(p)' /\ (Routed(p) <=> Routed(p)')
  <2>1. Round(p)
    BY <1>1, <1>3 DEF InStep
  <2>2. QED
    BY <1>1, <2>1, StayKeepsRound DEF Round
<1>5. (Round(Sent))' /\ (Routed(Sent) => (Routed(Sent))')
  BY <1>2, <1>3, <1>4
<1>6. Observed'
  BY <1>1, <1>2, <1>5 DEF InStep, Observed
<1>7. (Mirroring(cache.addr, todo))' /\ (pc' # "idle" => Handling')
  BY <1>1, HostFrame
<1>8. QED
  BY <1>1, <1>5, <1>6, <1>7 DEF InStep

(* ... and what it shows is relied on. *)
LEMMA PolledKeepsInStep ==
  ASSUME TypeOK, HostPolled, InStep
  PROVE  InStep'
<1>1. /\ UNCHANGED <<cache, queue, drops, status, addr, resetReq, dma, pc, todo, w, step, issued>>
      /\ hp \in {"idle", "bsy", "cmd", "param", "stat", "msg"} /\ latch # <<>> /\ latch' = <<>>
  BY DEF HostPolled, IsrCommitStatus, cacheVars, workerVars, Polls, Expected
<1>2. \/ hp' = hp
      \/ hp = "idle" /\ hp' = "target"
      \/ hp = "bsy" /\ hp' = "deselect"
      \/ hp = "cmd" /\ hp' = "byte"
      \/ hp = "param" /\ hp' = "parambyte" /\ latch[1] = ParamPhase
      \/ hp = "stat" /\ hp' = "readstat" /\ latch[1] = StatusPhase
      \/ hp = "msg" /\ hp' = "readmsg"
  BY <1>1 DEF HostPolled, Expected, AfterPoll
<1>3. \E b : latch = <<b>>
  BY <1>1 DEF TypeOK, HostType, LatchOK
<1>4. latch = <<latch[1]>>
  BY <1>3
<1>5. Mine' = Mine /\ Current' = Current /\ (Asks' <=> Asks) /\ Final' = Final
  BY <1>1 DEF Mine, Current, Asks, Final
<1>6. Round(Sent) /\ Observed /\ (cache.sel <=> hp \in {"bsy", "deselect"}) /\ ~drops
  BY <1>1 DEF InStep
<1>7. PICK p \in Nat : p = Sent
  BY <1>1, RoundSizes DEF Sent, TypeOK, HostType
<1>8. Round(p)' /\ (Routed(p) <=> Routed(p)')
  <2>1. Round(p) /\ hp # "addr"
    BY <1>1, <1>6, <1>7
  <2>2. 2 < p /\ p - Len(queue) < Block => addr = Programmed(Current, 0)
    BY <2>1 DEF Round
  <2>3. QED
    BY <1>1, <2>1, <2>2, StayKeepsRound
<1>9. (Mirroring(cache.addr, todo))' /\ (pc' # "idle" => Handling') /\ ~drops'
  BY <1>1, <1>6, HostFrame
<1>10. (cache.sel <=> hp \in {"bsy", "deselect"})'
  BY <1>1, <1>2, <1>6
<1>11. hp' \notin {"reset", "unreset", "settle"}
  BY <1>1, <1>2
<1>12. CASE ~(hp = "stat" /\ hp' = "readstat")
  <2>1. Sent' = Sent
    BY <1>1, <1>2, <1>5, <1>12 DEF Sent
  <2>2. (Round(Sent))' /\ (Routed(Sent) => (Routed(Sent))')
    BY <1>7, <1>8, <2>1
  <2>3. Observed'
    BY <1>1, <1>2, <1>4, <1>5, <1>6, <1>12, <2>2 DEF Observed
  <2>4. QED
    BY <1>9, <1>10, <1>11, <2>2, <2>3 DEF InStep
<1>13. CASE hp = "stat" /\ hp' = "readstat"
  <2>1. Sent = Final /\ Sent' = 0
    BY <1>13 DEF Sent
  <2>2. cache.stat = StatusPhase
    BY <1>2, <1>4, <1>6, <1>13 DEF Observed
  <2>3. Answering /\ Silent(todo) /\ RightVerdict(status) /\ queue = <<>> /\ p = Final
    <3>1. 6 < p /\ Round(p)
      BY <1>6, <1>7, <2>1, RoundSizes
    <3>2. QED
      BY <2>2, <3>1, StatusSeen
  <2>4. ~dma.select
    <3>1. Len(queue) = 0 /\ 6 < p - Len(queue)
      BY <2>3, RoundSizes
    <3>2. Taken(p - Len(queue)) /\ ~(p - Len(queue) <= 6)
      BY <1>6, <1>7, <3>1 DEF Round
    <3>3. QED
      BY <3>2 DEF Taken
  <2>5. Preparing(0)
    BY <2>3, <2>4, BusValues DEF Preparing, Answering
  <2>6. Preparing(0)'
    BY <1>1, <1>5, <2>5 DEF Preparing, Silent, Only, BusAt
  <2>7. queue' = <<>> /\ Len(queue') = 0
    BY <1>1, <2>3
  <2>8. Taken(0)' /\ 0 - Len(queue') = 0
    <3>1. 0 - Len(queue') = 0
      <4>1. \A n : n = 0 => 0 - n = 0
        OBVIOUS
      <4>2. QED
        BY <2>7, <4>1, Zenon
    <3>2. PICK q \in Nat : q = 0
      OBVIOUS
    <3>3. Preparing(q)'
      BY <2>6, <3>2
    <3>4. Taken(q)'
      BY <3>2, <3>3 DEF Taken
    <3>5. QED
      BY <3>1, <3>2, <3>4
  <2>9. (Taken(0 - Len(queue)))'
    BY <2>8
  <2>10. (LeadsTo(cache.stat, todo, Forecast(0)))'
    <3>1. Forecast(0)' = StatusPhase
      BY <2>8, BusAtPhase DEF Forecast, BusAt, StatusPhase
    <3>2. cache'.stat = StatusPhase /\ Silent(todo')
      BY <1>1, <2>2, <2>3
    <3>3. LeadsTo(cache'.stat, todo', StatusPhase)
      BY <3>2, PlanPhases
    <3>4. QED
      BY <3>1, <3>3
  <2>11. (Round(0))'
    BY <2>7, <2>9, <2>10, RoundSizes DEF Round, Block
  <2>12. (Round(Sent))'
    BY <2>1, <2>11
  <2>13. (RightVerdict(status))'
    BY <1>1, <1>5, <2>3 DEF RightVerdict, Executed
  <2>14. Observed'
    BY <1>1, <1>13, <2>13 DEF Observed
  <2>15. QED
    BY <1>9, <1>10, <1>11, <2>12, <2>14 DEF InStep
<1>14. QED
  BY <1>12, <1>13

(* A poll that does not end: the host resets the board while a handler runs, or
   while nothing is left to do. *)
LEMMA TimeoutKeepsInStep ==
  ASSUME TypeOK, HostTimeout, InStep
  PROVE  InStep'
<1>1. /\ UNCHANGED <<cache, queue, drops, status, addr, resetReq, dma, pc, todo, w, step, issued>>
      /\ hp \in {"idle", "bsy", "cmd", "param", "stat", "msg"} /\ hp' = "reset"
      /\ pc # "idle" \/ queue = <<>>
  BY DEF HostTimeout, IsrCommitStatus, cacheVars, workerVars, Polls, Expected, Quiet
<1>2. Round(Sent) /\ ~drops
  BY <1>1 DEF InStep
<1>3. PICK p \in Nat : p = Sent
  BY <1>1, RoundSizes DEF Sent, TypeOK, HostType
<1>4. Round(p)'
  <2>1. Round(p) /\ hp # "addr"
    BY <1>1, <1>2, <1>3
  <2>2. 2 < p /\ p - Len(queue) < Block => addr = Programmed(Current, 0)
    BY <2>1 DEF Round
  <2>3. QED
    BY <1>1, <2>1, <2>2, StayKeepsRound
<1>5. queue' = <<>>
  <2>1. Taken(p - Len(queue))
    BY <1>2, <1>3 DEF Round
  <2>2. pc # "idle" => queue = <<>>
    BY <2>1 DEF Taken, Preparing, Receiving, Asking, Answering, Executing
  <2>3. QED
    BY <1>1, <2>2
<1>6. p \in 0 .. Block + ParamLen
  <2>1. p > 2 => p <= Final
    BY <1>2, <1>3 DEF Round
  <2>2. QED
    BY <2>1, RoundSizes
<1>7. (Mirroring(cache.addr, todo))' /\ (pc' # "idle" => Handling') /\ ~drops'
  BY <1>1, <1>2, HostFrame
<1>8. \E e \in 0 .. (Block + ParamLen)' : Round(e)' /\ (queue' = <<>> \/ e = 1)
  BY <1>4, <1>5, <1>6 DEF Block
<1>9. QED
  BY <1>1, <1>7, <1>8 DEF InStep

(* The status byte the host fetches is the verdict. *)
LEMMA ReadKeepsInStep ==
  ASSUME TypeOK, HostReadData, InStep
  PROVE  InStep'
<1>1. /\ UNCHANGED <<queue, drops, status, addr, resetReq, dma, pc, todo, w, hp, step, issued>>
      /\ hp \in {"readstat", "readmsg"}
      /\ latch' = <<ServeData>> /\ cache' = [cache EXCEPT !.data = ServeData]
  BY DEF HostReadData, IsrFetchData, sharedVars, workerVars
<1>2. cache'.stat = cache.stat /\ cache'.addr = cache.addr /\ cache'.sel = cache.sel
  <2>1. cache \in [stat : SUBSET StatusBits, data : StatusByte, sel : BOOLEAN, addr : Address]
    BY DEF TypeOK, SharedType
  <2>2. QED
    BY <1>1, <2>1
<1>3. Round(Sent) /\ Observed /\ (cache.sel <=> hp \in {"bsy", "deselect"}) /\ ~drops
  BY <1>1 DEF InStep
<1>4. Mine' = Mine /\ Current' = Current /\ Sent' = Sent
  BY <1>1 DEF Mine, Current, Sent, Final, Asks
<1>5. PICK p \in Nat : p = Sent
  BY <1>1, RoundSizes DEF Sent, TypeOK, HostType
<1>6. p \in {0, 1}
  BY <1>1, <1>5 DEF Sent
<1>7. (Round(Sent))'
  <2>1. Round(p) /\ ~(2 < p)
    BY <1>3, <1>5, <1>6
  <2>2. Round(p)'
    BY <1>1, <1>2, <2>1, StayKeepsRound
  <2>3. QED
    BY <1>4, <1>5, <2>2
<1>8. Observed'
  <2>1. hp = "readstat" => RightVerdict(status)' /\ RightVerdict(latch[1])'
    <3>1. SUFFICES ASSUME hp = "readstat" PROVE RightVerdict(status)' /\ RightVerdict(latch[1])'
      OBVIOUS
    <3>2. cache.stat = StatusPhase
      <4>1. p = 0 /\ Round(p)
        BY <1>3, <1>5, <3>1 DEF Sent
      <4>2. cache.stat = BusAt(p) \cap StatusBits
        BY <4>1, RoundEarly
      <4>3. QED
        BY <4>1, <4>2, BusAtPhase
    <3>3. ServeData = status
      BY <3>2 DEF ServeData, StatusPhase
    <3>4. RightVerdict(status)
      BY <1>3, <3>1 DEF Observed
    <3>5. latch'[1] = status /\ status' = status
      BY <1>1, <3>3
    <3>6. QED
      BY <1>1, <1>4, <3>4, <3>5 DEF RightVerdict, Executed
  <2>2. QED
    BY <1>1, <2>1 DEF Observed
<1>9. (Mirroring(cache.addr, todo))' /\ (pc' # "idle" => Handling')
  BY <1>1, <1>2, HostFrame
<1>10. QED
  BY <1>1, <1>2, <1>3, <1>7, <1>8, <1>9 DEF InStep

(* Once the board has settled everything is as before the first command. *)
LEMMA SettledKeepsInStep ==
  ASSUME TypeOK, Settle, HostSettled, InStep
  PROVE  InStep'
<1>1. /\ UNCHANGED <<cache, queue, drops, status, addr, resetReq, dma, pc, todo, w, latch, step, issued>>
      /\ hp = "settle" /\ hp' = "start" /\ queue = <<>> /\ pc = "idle" /\ todo = <<>>
  BY DEF HostSettled, Quiet, cacheVars, sharedVars, workerVars
<1>2. Cleared
  BY <1>1 DEF InStep, Clearing, ResetWrite, Released
<1>3. /\ dma.bus = {} /\ ~dma.nonDmaReq /\ ~dma.statusPending /\ dma.dataOut = 0
      /\ ~dma.select /\ w.index = 0 /\ cache.stat = BusFree
  BY <1>1, <1>2 DEF Cleared, LeadsTo
<1>4. Preparing(2)
  <2>1. Silent(todo)
    BY <1>1 DEF Silent, Only
  <2>2. QED
    BY <1>1, <1>3, <2>1, BusValues DEF Preparing
<1>5. Preparing(2)'
  BY <1>1, <1>4 DEF Preparing, Silent, Only, BusAt
<1>6. Len(queue') = 0 /\ 2 - Len(queue') = 2
  <2>1. Len(queue') = 0
    BY <1>1
  <2>2. \A n : n = 0 => 2 - n = 2
    OBVIOUS
  <2>3. QED
    BY <2>1, <2>2, Zenon
<1>7. (Taken(2 - Len(queue)))'
  <2>1. PICK q \in Nat : q = 2
    OBVIOUS
  <2>2. Preparing(q)'
    BY <1>5, <2>1
  <2>3. Taken(q)'
    BY <2>1, <2>2 DEF Taken
  <2>4. QED
    BY <1>6, <2>1, <2>3
<1>8. (LeadsTo(cache.stat, todo, Forecast(2)))'
  <2>1. Forecast(2)' = BusFree
    BY <1>6, BusValues DEF Forecast, BusAt, BusFree
  <2>2. cache'.stat = BusFree /\ Silent(todo')
    BY <1>1, <1>3 DEF Silent, Only
  <2>3. LeadsTo(cache'.stat, todo', BusFree)
    BY <2>2, PlanPhases
  <2>4. QED
    BY <2>1, <2>3
<1>9. (Round(2))'
  BY <1>1, <1>6, <1>7, <1>8, RoundSizes DEF Round, Block
<1>10. Sent' = 2
  BY <1>1 DEF Sent
<1>11. (Round(Sent))' /\ Observed'
  BY <1>1, <1>9, <1>10 DEF Observed
<1>12. (Mirroring(cache.addr, todo))' /\ (pc' # "idle" => Handling')
  BY <1>1, HostFrame
<1>13. QED
  BY <1>1, <1>11, <1>12 DEF InStep

(* An address byte goes to both copies at once; after the third the address is the
   one of the command. *)
LEMMA AddressKeepsInStep ==
  ASSUME TypeOK, HostAddress, InStep
  PROVE  InStep'
<1>1. /\ UNCHANGED <<queue, drops, status, resetReq, dma, pc, todo, w, latch, issued>>
      /\ hp = "addr" /\ step \in 1 .. 3
      /\ hp' = (IF step = 3 THEN "idle" ELSE hp) /\ step' = (IF step = 3 THEN 1 ELSE step + 1)
  BY DEF HostAddress, IsrWriteAddr, workerVars, TypeOK, HostType
<1> DEFINE x == [prog |-> Current, off |-> 0]
           l == LaneAt[step]
<1>2. l \in Lane
  BY <1>1 DEF LaneAt, Lane
<1>3. addr' = [addr EXCEPT ![l] = x] /\ cache' = [cache EXCEPT !.addr[l] = x]
  BY DEF HostAddress, IsrWriteAddr
<1>4. addr \in Address /\ cache.addr \in Address
      /\ cache \in [stat : SUBSET StatusBits, data : StatusByte, sel : BOOLEAN, addr : Address]
  BY DEF TypeOK, SharedType
<1> HIDE DEF l, x
<1>5. cache'.stat = cache.stat /\ cache'.sel = cache.sel
      /\ \A m \in Lane : /\ addr'[m] = IF m = l THEN x ELSE addr[m]
                         /\ cache'.addr[m] = IF m = l THEN x ELSE cache.addr[m]
  BY <1>2, <1>3, <1>4 DEF Address
<1>6. Round(3) /\ Observed /\ Mirroring(cache.addr, todo) /\ ~cache.sel /\ ~drops
  BY <1>1 DEF InStep, Sent
<1>7. pc = "idle" /\ Silent(todo)
  BY <1>6, RoundEarly
<1>8. Mine' = Mine /\ Current' = Current /\ Sent' = 3
  BY <1>1 DEF Mine, Current, Sent
<1>9. (Mirroring(cache.addr, todo))'
  <2>1. \A i \in 1 .. Len(todo) : todo[i][1] # "sync" /\ todo[i][1] # "addr"
    BY <1>7 DEF Silent, Only
  <2>2. \A m \in Lane : cache.addr[m] = addr[m]
    <3>1. \A m \in Lane : ~\E i \in 1 .. Len(todo) : todo[i] = <<"sync", m>>
      BY <2>1
    <3>2. QED
      BY <1>6, <3>1 DEF Mirroring
  <2>3. \A m \in Lane : cache'.addr[m] = addr'[m]
    BY <1>5, <2>2
  <2>4. QED
    BY <1>1, <2>1, <2>3 DEF Mirroring
<1>10. \A i \in 1 .. 3 : i < step => addr[LaneAt[i]] = x
  BY <1>1, <1>6 DEF Observed, x
<1>11. \A i \in 1 .. 3 : i <= step => addr'[LaneAt[i]] = x
  <2>1. ASSUME NEW i \in 1 .. 3, i <= step PROVE addr'[LaneAt[i]] = x
    <3>1. LaneAt[i] \in Lane
      BY DEF LaneAt, Lane
    <3>2. CASE i = step
      BY <1>5, <3>1, <3>2 DEF l
    <3>3. CASE i < step
      <4>1. addr[LaneAt[i]] = x
        BY <1>10, <3>3
      <4>2. QED
        BY <1>5, <3>1, <4>1
    <3>4. QED
      BY <1>1, <2>1, <3>2, <3>3
  <2>2. QED
    BY <2>1
<1>12. step = 3 => addr' = Programmed(Current, 0)
  <2>1. SUFFICES ASSUME step = 3 PROVE addr' = Programmed(Current, 0)
    OBVIOUS
  <2>2. addr'[LaneAt[1]] = x /\ addr'[LaneAt[2]] = x /\ addr'[LaneAt[3]] = x
    BY <1>11, <2>1
  <2>3. LaneAt[1] = "L" /\ LaneAt[2] = "M" /\ LaneAt[3] = "H"
    BY DEF LaneAt
  <2>4. \A m \in Lane : addr'[m] = x
    BY <2>2, <2>3 DEF Lane
  <2>5. addr' = [m \in Lane |-> addr'[m]]
    BY <1>3, <1>4 DEF Address
  <2>6. QED
    BY <2>4, <2>5 DEF Programmed, x
<1>13. (Round(3))'
  <2>1. hp' # "addr" => addr' = Programmed(Current, 0)
    BY <1>1, <1>12
  <2>2. PICK p \in Nat : p = 3
    OBVIOUS
  <2>3. Round(p)
    BY <1>6, <2>2
  <2>4. Round(p)'
    BY <1>1, <1>5, <2>1, <2>3, StayKeepsRound
  <2>5. QED
    BY <2>2, <2>4
<1>14. (Round(Sent))'
  BY <1>8, <1>13
<1>15. Observed'
  <2>1. hp' \in {"addr", "idle"} /\ (hp' = "addr" => step' = step + 1)
    BY <1>1
  <2>2. hp' = "addr" => \A i \in 1 .. 3 : i < step' => addr'[LaneAt[i]] = [prog |-> Current', off |-> 0]
    BY <1>1, <1>8, <1>11, <2>1 DEF x
  <2>3. QED
    BY <2>1, <2>2 DEF Observed, LaneAt
<1>16. QED
  BY <1>1, <1>5, <1>6, <1>7, <1>9, <1>14, <1>15 DEF InStep

(* Short queues. *)
LEMMA ShortQueues ==
  ASSUME NEW x, NEW y, NEW z
  PROVE  /\ Append(<<>>, x) = <<x>> /\ Append(<<x>>, y) = <<x, y>>
         /\ Append(<<x>>, y) = <<x>> \o <<y>> /\ Append(<<x, y>>, z) = <<x, y>> \o <<z>>
         /\ <<x>> \o <<>> = <<x>> /\ <<x, y>> \o <<>> = <<x, y>>
         /\ Len(<<x>>) = 1 /\ Len(<<x, y>>) = 2
<1> DEFINE S == {x, y, z}
           p == <<x>>
           r == <<x, y>>
<1>1. <<>> \in Seq(S) /\ x \in S /\ y \in S /\ z \in S
  OBVIOUS
<1>2. p \in Seq(S) /\ Len(p) = 1 /\ p[1] = x
  OBVIOUS
<1>3. r \in Seq(S) /\ Len(r) = 2 /\ r[1] = x /\ r[2] = y
  OBVIOUS
<1>4. Append(<<>>, x) = <<x>>
  OBVIOUS
<1>5. p \o <<>> = p /\ r \o <<>> = r
  OBVIOUS
<1> HIDE DEF p, r, S
<1>6. Append(p, y) = r
  <2> DEFINE a == Append(p, y)
  <2>1. a \in Seq(S) /\ Len(a) = Len(p) + 1 /\ a[Len(p) + 1] = y
        /\ \A i \in 1 .. Len(p) : a[i] = p[i]
    <3>1. a \in Seq(S) /\ Len(a) = Len(p) + 1
      BY <1>1, <1>2, AppendProperties
    <3>2. a[Len(p) + 1] = y
      BY <1>1, <1>2, AppendProperties
    <3>3. \A i \in 1 .. Len(p) : a[i] = p[i]
      BY <1>1, <1>2, AppendProperties
    <3>4. QED
      BY <3>1, <3>2, <3>3
  <2> HIDE DEF a
  <2>2. Len(p) + 1 = 2 /\ 1 \in 1 .. Len(p)
    BY <1>2
  <2>3. Len(a) = 2 /\ a[2] = y /\ a[1] = x
    BY <1>2, <2>1, <2>2
  <2>4. \A i \in 1 .. 2 : i = 1 \/ i = 2
    OBVIOUS
  <2>5. Len(a) = Len(r) /\ \A i \in 1 .. Len(a) : a[i] = r[i]
    BY <1>3, <2>3, <2>4
  <2>6. a = r
    BY <1>3, <2>1, <2>5, SeqEqual
  <2>7. QED
    BY <2>6 DEF a
<1>7. Append(p, y) = p \o <<y>> /\ Append(r, z) = r \o <<z>>
  BY <1>1, <1>2, <1>3, AppendIsConcat
<1>8. QED
  BY <1>2, <1>3, <1>4, <1>5, <1>6, <1>7 DEF p, r

(* The reset write is behind at most one read. *)
LEMMA ResetKeepsInStep ==
  ASSUME TypeOK, Deep, HostReset, InStep
  PROVE  InStep'
<1>1. /\ UNCHANGED <<dma, pc, todo, w, latch, step, issued>>
      /\ hp = "reset" /\ hp' = "unreset" /\ IsrWriteControl({"RESET"})
  BY DEF HostReset, workerVars
<1>2. PICK e \in 0 .. Block + ParamLen : Round(e) /\ (queue = <<>> \/ e = 1)
  BY <1>1 DEF InStep
<1>3. /\ cache'.addr = cache.addr /\ ~cache'.sel /\ addr' = addr /\ (resetReq => resetReq')
      /\ Enqueue(ResetWrite)
  <2>1. {"RESET"} \in SUBSET ControlBits /\ "SEL" \notin {"RESET"}
    BY DEF ControlBits
  <2>2. QED
    BY <1>1, <2>1, ControlCache DEF ResetWrite
<1>4. queue = <<>> \/ queue = <<<<"read", 0>>>>
  <2>1. SUFFICES ASSUME queue # <<>> PROVE queue = <<<<"read", 0>>>>
    OBVIOUS
  <2>2. e = 1 /\ Len(queue) \in Nat /\ Len(queue) > 0 /\ queue \in Seq(QueueEntry)
    BY <1>2, <2>1, QueueSizes
  <2>3. Len(queue) <= 1 /\ \A i \in 1 .. Len(queue) : queue[i] = Entry(1 - Len(queue) + i)
    BY <1>2, <2>2 DEF Round
  <2>4. Len(queue) = 1
    <3>1. PICK n \in Nat : n = Len(queue)
      BY <2>2
    <3>2. n > 0 /\ n <= 1
      BY <2>2, <2>3, <3>1
    <3>3. n = 1
      BY <3>2
    <3>4. QED
      BY <3>1, <3>3
  <2>5. queue[1] = Entry(1)
    BY <2>3, <2>4
  <2>6. queue[1] = <<"read", 0>>
    BY <2>5 DEF Entry
  <2> DEFINE r == <<"read", 0>>
  <2>7. queue \in Seq(QueueEntry) /\ Len(queue) = 1 /\ queue[1] = r
    BY <2>2, <2>4, <2>6
  <2> HIDE DEF r
  <2>8. queue = <<r>>
    BY <2>7
  <2>9. QED
    BY <2>8 DEF r
<1>5. Len(queue) < QueueSize - 1 /\ ~drops
  <2>1. Len(queue) = 0 \/ Len(queue) = 1
    BY <1>4, ShortQueues
  <2>2. QueueSize \in Nat /\ QueueSize > 6
    BY SizesAssumption DEF Deep
  <2>3. PICK n \in Nat : n = Len(queue)
    BY <2>1
  <2>4. n \in {0, 1}
    BY <2>1, <2>3
  <2>5. n < QueueSize - 1
    BY <2>2, <2>4
  <2>6. QED
    BY <2>3, <2>5 DEF InStep
<1>6. queue' = Append(queue, ResetWrite) /\ drops' = drops
  BY <1>3, <1>5, EnqueueRoom
<1>7. Released' = <<>>
  BY <1>1 DEF Released
<1>8. queue' = <<ResetWrite>> \/ queue' = <<<<"read", 0>>, ResetWrite>>
  <2> DEFINE R == ResetWrite
             r == <<"read", 0>>
  <2>1. queue = <<>> \/ queue = <<r>>
    BY <1>4
  <2>2. queue' = Append(queue, R)
    BY <1>6
  <2> HIDE DEF R, r
  <2>3. queue' = <<R>> \/ queue' = <<r, R>>
    BY <2>1, <2>2, ShortQueues
  <2>4. QED
    BY <2>3 DEF R, r
<1>9. Clearing'
  <2> DEFINE R == ResetWrite
             r == <<"read", 0>>
  <2>1. <<R>> \o <<>> = <<R>> /\ <<r, R>> \o <<>> = <<r, R>>
    BY ShortQueues, Zenon
  <2>2. queue' \in {<<R>> \o Released', <<r, R>> \o Released'}
    BY <1>7, <1>8, <2>1, Zenon
  <2>3. QED
    BY <2>2 DEF Clearing, ResetWrite
<1>10. (Mirroring(cache.addr, todo))' /\ (pc' # "idle" => Handling')
  BY <1>1, <1>3, HostFrame
<1>11. QED
  BY <1>1, <1>3, <1>5, <1>6, <1>9, <1>10 DEF InStep

(* So is the write that releases the reset. *)
LEMMA UnresetKeepsInStep ==
  ASSUME TypeOK, Deep, HostUnreset, InStep
  PROVE  InStep'
<1>1. /\ UNCHANGED <<dma, pc, todo, w, latch, step, issued>>
      /\ hp = "unreset" /\ hp' = "settle" /\ IsrWriteControl({})
  BY DEF HostUnreset, workerVars
<1>2. Clearing /\ ~cache.sel /\ ~drops
  BY <1>1 DEF InStep
<1> DEFINE R == ResetWrite
           r == <<"read", 0>>
           u == <<"control", {}>>
<1>3. /\ cache'.addr = cache.addr /\ ~cache'.sel /\ addr' = addr /\ (resetReq => resetReq')
      /\ cache'.stat = cache.stat /\ Enqueue(u)
  <2>1. {} \in SUBSET ControlBits /\ "SEL" \notin {} /\ "RESET" \notin {}
    OBVIOUS
  <2>2. QED
    BY <1>1, <1>2, <2>1, ControlCache
<1>4. Released = <<>> /\ Released' = <<u>>
  BY <1>1 DEF Released
<1>5. \/ queue = <<R>>
      \/ queue = <<r, R>>
      \/ queue = <<>> /\ Cleared
  <2>1. <<R>> \o <<>> = <<R>> /\ <<r, R>> \o <<>> = <<r, R>>
    BY ShortQueues, Zenon
  <2>2. queue \in {<<R>> \o <<>>, <<r, R>> \o <<>>} \/ (Cleared /\ queue \in {<<>>, <<>>})
    BY <1>2, <1>4 DEF Clearing, Cleared
  <2>3. QED
    BY <2>1, <2>2, Zenon
<1>6. Len(queue) < QueueSize - 1
  <2>1. Len(queue) = 0 \/ Len(queue) = 1 \/ Len(queue) = 2
    <3> HIDE DEF R, r
    <3>1. QED
      BY <1>5, ShortQueues
  <2>2. QueueSize \in Nat /\ QueueSize > 6
    BY SizesAssumption DEF Deep
  <2>3. PICK n \in Nat : n = Len(queue)
    BY <2>1
  <2>4. n \in {0, 1, 2}
    BY <2>1, <2>3
  <2>5. n < QueueSize - 1
    BY <2>2, <2>4
  <2>6. QED
    BY <2>3, <2>5
<1>7. queue' = Append(queue, u) /\ drops' = drops
  BY <1>3, <1>6, EnqueueRoom
<1>8. Clearing'
  <2>1. CASE queue = <<R>> \/ queue = <<r, R>>
    <3>1. queue' \in {<<R>> \o <<u>>, <<r, R>> \o <<u>>}
      <4> HIDE DEF R, r, u
      <4>1. Append(<<R>>, u) = <<R>> \o <<u>> /\ Append(<<r, R>>, u) = <<r, R>> \o <<u>>
        <5>1. Append(<<R>>, u) = <<R>> \o <<u>>
          BY ShortQueues
        <5>2. Append(<<r, R>>, u) = <<r, R>> \o <<u>>
          BY ShortQueues
        <5>3. QED
          BY <5>1, <5>2
      <4>2. queue' = Append(<<R>>, u) \/ queue' = Append(<<r, R>>, u)
        BY <1>7, <2>1
      <4>3. QED
        BY <4>1, <4>2
    <3>2. queue' \in {<<R>> \o Released', <<r, R>> \o Released'}
      BY <1>4, <3>1, Zenon
    <3>3. QED
      BY <3>2 DEF Clearing, ResetWrite
  <2>2. CASE queue = <<>> /\ Cleared
    <3>1. queue' = Released'
      <4> HIDE DEF u
      <4>1. queue' = <<u>>
        BY <1>7, <2>2
      <4>2. QED
        BY <1>4, <4>1
    <3>2. Cleared'
      BY <1>1, <1>3, <2>2, <3>1 DEF Cleared, Only, LeadsTo, BusFree
    <3>3. QED
      BY <3>2 DEF Clearing
  <2>3. QED
    BY <1>5, <2>1, <2>2
<1>9. (Mirroring(cache.addr, todo))' /\ (pc' # "idle" => Handling')
  BY <1>1, <1>3, HostFrame
<1>10. QED
  BY <1>1, <1>2, <1>3, <1>7, <1>8, <1>9 DEF InStep

(* The control write that begins a command. *)
LEMMA BeginKeepsInStep ==
  ASSUME TypeOK, Deep, NEW c \in Command, HostBegin(c), InStep
  PROVE  InStep'
<1> DEFINE v == {"LATCH"} \cup (IF c.dma THEN {"ON"} ELSE {})
<1>1. /\ UNCHANGED <<dma, pc, todo, w, latch>>
      /\ hp = "start" /\ hp' = "addr" /\ step' = 1
      /\ issued' = Append(issued, c) /\ IsrWriteControl(v)
  BY DEF HostBegin, workerVars
<1>2. Round(2) /\ ~cache.sel /\ ~drops /\ Mirroring(cache.addr, todo)
  BY <1>1 DEF InStep, Sent
<1>3. pc = "idle" /\ cache.stat = BusFree
  <2>1. PICK e \in Nat : e = 2
    OBVIOUS
  <2>2. pc = "idle" /\ cache.stat = BusAt(e) \cap StatusBits
    BY <1>2, <2>1, RoundEarly
  <2>3. QED
    BY <2>1, <2>2, BusAtPhase
<1>4. /\ cache'.addr = cache.addr /\ ~cache'.sel /\ addr' = addr
      /\ cache'.stat = cache.stat /\ Enqueue(<<"control", v>>)
  <2>1. v \in SUBSET ControlBits /\ "SEL" \notin v /\ "RESET" \notin v
    BY DEF ControlBits
  <2> HIDE DEF v
  <2>2. QED
    BY <1>1, <1>2, <2>1, ControlCache
<1>5. issued' # <<>> /\ Mine' = c
  <2>1. issued \in Seq(Command)
    BY DEF TypeOK, HostType
  <2>2. Len(issued') = Len(issued) + 1 /\ issued'[Len(issued) + 1] = c /\ issued' # <<>>
    BY <1>1, <2>1, AppendProperties
  <2>3. QED
    BY <2>2 DEF Mine, Current
<1>6. Entry(3)' = <<"control", v>>
  BY <1>5 DEF Entry, BaseControl
<1> HIDE DEF v
<1>7. queue' = Append(queue, <<"control", v>>) /\ drops' = drops
  <2>1. 2 < Block
    BY RoundSizes
  <2>2. Len(queue) < QueueSize - 1
    <3>1. PICK e \in Nat : e = 2
      OBVIOUS
    <3>2. Round(e) /\ e < Block
      BY <1>2, <2>1, <3>1
    <3>3. QED
      BY <3>2, RoundRoom
  <2>3. QED
    BY <1>4, <2>2, EnqueueRoom
<1>8. 3 <= Final' /\ 2 < Block
  <2>1. CdbLen \in Nat /\ ParamLen \in Nat
    BY SizesAssumption
  <2>2. QED
    BY <2>1 DEF Final, Block
<1>9. (Round(3))'
  <2>1. PICK e \in Nat : e = 2
    OBVIOUS
  <2>2. e + 1 = 3
    BY <2>1
  <2>3. Round(e) /\ queue' = Append(queue, Entry(e + 1)')
    BY <1>2, <1>6, <1>7, <2>1, <2>2
  <2>4. cache'.stat = BusAt(e + 1) \cap StatusBits
    BY <1>3, <1>4, <2>2, BusAtPhase
  <2>5. e + 1 > 2 => issued' # <<>> /\ e + 1 <= Final'
    BY <1>5, <1>8, <2>2
  <2>6. e <= 2 /\ e <= 5 /\ e < Block
    BY <1>8, <2>1
  <2>7. Round(e + 1)'
    BY <1>1, <2>3, <2>4, <2>5, <2>6, SendKeepsRound
  <2>8. PICK f \in Nat : f = 3
    OBVIOUS
  <2>9. f = e + 1
    BY <2>1, <2>8
  <2>10. Round(f)'
    BY <2>7, <2>9
  <2>11. QED
    BY <2>8, <2>10
<1>10. Sent' = 3
  BY <1>1 DEF Sent
<1>11. Observed'
  <2>1. \A i \in 1 .. 3 : ~(i < 1)
    OBVIOUS
  <2>2. QED
    BY <1>1, <2>1 DEF Observed
<1>12. (Mirroring(cache.addr, todo))'
  <2>1. PICK a : a = cache.addr
    OBVIOUS
  <2>2. Mirroring(a, todo)
    BY <1>2, <2>1
  <2>3. (w.byte)' = w.byte /\ cache'.addr = a
    BY <1>1, <1>4, <2>1
  <2>4. QED
    BY <1>1, <1>4, <2>2, <2>3 DEF Mirroring
<1>13. (Round(Sent))'
  BY <1>9, <1>10
<1>14. QED
  BY <1>1, <1>2, <1>3, <1>4, <1>7, <1>11, <1>12, <1>13 DEF InStep

(* The end of a read of DATA: the bus moves on as the ISR predicts. *)
LEMMA AcceptKeepsInStep ==
  ASSUME TypeOK, Deep, HostAccept, InStep
  PROVE  InStep'
<1> DEFINE r == <<"read", 0>>
<1>1. /\ UNCHANGED <<dma, pc, todo, w, step, issued, status, addr, resetReq>>
      /\ hp \in {"readstat", "readmsg"} /\ latch' = <<>> /\ cache' = AfterDataRead /\ Enqueue(r)
      /\ hp = "readmsg" => hp' = "start"
      /\ hp = "readstat" => hp' \in {"msg", "reset"}
  BY DEF HostAccept, IsrCommitData, sharedVars, workerVars
<1>2. Round(Sent) /\ ~cache.sel /\ ~drops /\ Mirroring(cache.addr, todo)
  BY <1>1 DEF InStep
<1>3. PICK e \in Nat : e = IF hp = "readstat" THEN 0 ELSE 1
  OBVIOUS
<1>4. e = Sent /\ e \in {0, 1} /\ Round(e)
  BY <1>1, <1>2, <1>3 DEF Sent
<1>5. cache.stat = BusAt(e) \cap StatusBits
  BY <1>4, RoundEarly
<1>6. /\ cache'.stat = BusAt(e + 1) \cap StatusBits
      /\ cache'.addr = cache.addr /\ cache'.sel = cache.sel
  <2>1. cache \in [stat : SUBSET StatusBits, data : StatusByte, sel : BOOLEAN, addr : Address]
    BY DEF TypeOK, SharedType
  <2>2. CASE e = 0
    <3>1. cache.stat = StatusPhase /\ BusAt(e + 1) \cap StatusBits = StatusPhase \cup {"MSG"}
      BY <1>5, <2>2, BusAtPhase DEF MessagePhase
    <3>2. "MSG" \notin cache.stat /\ {"CTL", "INP"} \subseteq cache.stat
      BY <3>1 DEF StatusPhase
    <3>3. cache' = [cache EXCEPT !.data = Zero, !.stat = cache.stat \cup {"MSG"}]
      BY <1>1, <3>2 DEF AfterDataRead
    <3>4. QED
      BY <2>1, <3>1, <3>3
  <2>3. CASE e = 1
    <3>1. cache.stat = MessagePhase /\ BusAt(e + 1) \cap StatusBits = BusFree
      BY <1>5, <2>3, BusAtPhase
    <3>2. "MSG" \in cache.stat
      BY <3>1 DEF MessagePhase
    <3>3. cache' = [cache EXCEPT !.data = Zero, !.stat = BusFree]
      BY <1>1, <3>2 DEF AfterDataRead
    <3>4. QED
      BY <2>1, <3>1, <3>3
  <2>4. QED
    BY <1>4, <2>2, <2>3
<1>7. e < Block /\ ~(2 < e + 1) /\ e <= 5
  BY <1>4, RoundSizes
<1>8. queue' = Append(queue, r) /\ drops' = drops
  <2>1. Len(queue) < QueueSize - 1
    BY <1>4, <1>7, RoundRoom
  <2>2. QED
    BY <1>1, <2>1, EnqueueRoom
<1>9. Round(e + 1)'
  <2>1. Entry(e + 1)' = r
    BY <1>4 DEF Entry
  <2>2. queue' = Append(queue, Entry(e + 1)')
    BY <1>8, <2>1
  <2>3. ~(e + 1 > 2)
    BY <1>4
  <2>4. QED
    BY <1>1, <1>4, <1>6, <1>7, <2>2, <2>3, SendKeepsRound
<1>10. (Mirroring(cache.addr, todo))' /\ (pc' # "idle" => Handling')
  BY <1>1, <1>6, HostFrame
<1>11. PICK f \in Nat : f = e + 1
  OBVIOUS
<1>12. Round(f)'
  BY <1>9, <1>11
<1>13. CASE hp' = "reset"
  <2>1. hp = "readstat" /\ f = 1
    BY <1>1, <1>3, <1>11, <1>13
  <2>2. f \in 0 .. Block' + ParamLen
    BY <2>1, RoundSizes DEF Block
  <2>3. QED
    BY <1>2, <1>8, <1>10, <1>12, <1>13, <2>1, <2>2 DEF InStep
<1>14. CASE hp' # "reset"
  <2>1. Sent' = f /\ hp' \in {"msg", "start"}
    BY <1>1, <1>3, <1>11, <1>14 DEF Sent
  <2>2. (Round(Sent))'
    BY <1>12, <2>1
  <2>3. Observed'
    BY <2>1 DEF Observed
  <2>4. QED
    BY <1>2, <1>6, <1>8, <1>10, <2>1, <2>2, <2>3 DEF InStep
<1>15. QED
  BY <1>13, <1>14

(* The selection byte and the edges of SELECT. *)
LEMMA SelectionKeepsInStep ==
  ASSUME TypeOK, Deep, HostTarget \/ HostSelect \/ HostDeselect, InStep
  PROVE  InStep'
<1>1. /\ UNCHANGED <<dma, pc, todo, w, issued>>
      /\ hp \in {"target", "select", "deselect"}
  BY DEF HostTarget, HostSelect, HostDeselect, workerVars
<1>2. Round(Sent) /\ (cache.sel <=> hp \in {"bsy", "deselect"}) /\ ~drops
  BY <1>1 DEF InStep
<1>3. PICK e \in Nat : e = Sent
  BY <1>1 DEF Sent
<1>4. /\ hp = "target" => e = 3
      /\ hp = "select" => e = 4
      /\ hp = "deselect" => e = 5
  BY <1>3 DEF Sent
<1>5. Round(e) /\ e \in {3, 4, 5} /\ e > 2 /\ issued # <<>>
  <2>1. e \in {3, 4, 5}
    BY <1>1, <1>4
  <2>2. QED
    BY <1>2, <1>3, <2>1 DEF Round
<1>6. cache.stat = BusAt(e) \cap StatusBits
  BY <1>5, RoundEarly
<1>7. /\ "SEL" \notin BaseControl /\ "RESET" \notin BaseControl
      /\ BaseControl \in SUBSET ControlBits
  BY <1>5, ControlValues
<1>8. e + 1 <= Final /\ e < Block
  BY <1>5, RoundSizes
<1>9. /\ Enqueue(Entry(e + 1)) /\ (Sent)' = e + 1
      /\ addr' = addr /\ cache'.addr = cache.addr /\ (resetReq => resetReq')
      /\ (cache'.sel <=> hp' \in {"bsy", "deselect"})
      /\ cache'.stat = BusAt(e + 1) \cap StatusBits
      /\ hp' \in {"select", "bsy", "cmd"} /\ (hp' = "cmd" => step' = 1)
  <2>1. CASE HostTarget
    <3>1. e = 3 /\ hp' = "select" /\ Enqueue(<<"data", <<"target", Mine.target>>>>)
          /\ UNCHANGED <<cache, addr, resetReq>> /\ ~cache.sel
      BY <1>2, <1>4, <2>1 DEF HostTarget, IsrWriteData, sharedVars
    <3>2. Entry(e + 1) = <<"data", <<"target", Mine.target>>>> /\ e + 1 = 4
      BY <3>1 DEF Entry
    <3>3. (Sent)' = e + 1
      BY <3>1, <3>2 DEF Sent
    <3>4. cache'.stat = BusAt(e + 1) \cap StatusBits
      BY <1>6, <3>1, <3>2, BusAtPhase
    <3>5. QED
      BY <3>1, <3>2, <3>3, <3>4
  <2>2. CASE HostSelect
    <3> DEFINE v == BaseControl \cup {"SEL"}
    <3>1. e = 4 /\ hp' = "bsy" /\ IsrWriteControl(v) /\ ~cache.sel
      BY <1>2, <1>4, <2>2 DEF HostSelect
    <3>2. v \in SUBSET ControlBits /\ "SEL" \in v /\ "RESET" \notin v
      BY <1>7 DEF ControlBits
    <3>3. Entry(e + 1) = <<"control", v>> /\ e + 1 = 5
      BY <3>1 DEF Entry
    <3> HIDE DEF v
    <3>4. /\ cache'.addr = cache.addr /\ cache'.sel /\ cache'.stat = Selection
          /\ (resetReq => resetReq') /\ addr' = addr /\ Enqueue(<<"control", v>>)
      BY <3>1, <3>2, ControlCache
    <3>5. (Sent)' = e + 1
      BY <3>1, <3>3 DEF Sent
    <3>6. cache'.stat = BusAt(e + 1) \cap StatusBits
      BY <3>3, <3>4, BusAtPhase
    <3>7. QED
      BY <3>1, <3>3, <3>4, <3>5, <3>6
  <2>3. CASE HostDeselect
    <3> DEFINE v == BaseControl
    <3>1. e = 5 /\ hp' = "cmd" /\ step' = 1 /\ IsrWriteControl(v) /\ cache.sel
      BY <1>2, <1>4, <2>3 DEF HostDeselect
    <3>2. v \in SUBSET ControlBits /\ "SEL" \notin v /\ "RESET" \notin v
      BY <1>7
    <3>3. Entry(e + 1) = <<"control", v>> /\ e + 1 = 6
      BY <3>1 DEF Entry
    <3> HIDE DEF v
    <3>4. /\ cache'.addr = cache.addr /\ ~cache'.sel /\ cache'.stat = CommandPhase
          /\ (resetReq => resetReq') /\ addr' = addr /\ Enqueue(<<"control", v>>)
      BY <3>1, <3>2, ControlCache
    <3>5. (Sent)' = e + 1
      BY <3>1, <3>3 DEF Sent
    <3>6. cache'.stat = BusAt(e + 1) \cap StatusBits
      BY <3>3, <3>4, BusAtPhase
    <3>7. QED
      BY <3>1, <3>3, <3>4, <3>5, <3>6
  <2>4. QED
    BY <2>1, <2>2, <2>3
<1>10. Observed'
  <2>1. hp' = "cmd" => step' <= CdbLen
    BY <1>9, SizesAssumption
  <2>2. QED
    BY <1>9, <2>1 DEF Observed
<1>11. e <= 5
  BY <1>5
<1>12. /\ hp \notin {"reset", "unreset", "settle", "addr"}
       /\ hp' \notin {"reset", "unreset", "settle", "addr"}
  BY <1>1, <1>9
<1>13. QED
  BY <1>1, <1>3, <1>5, <1>8, <1>9, <1>10, <1>11, <1>12, SendKeepsInStep

(* The bytes of the command block. *)
LEMMA CommandByteKeepsInStep ==
  ASSUME TypeOK, Deep, HostCommandByte, InStep
  PROVE  InStep'
<1>1. /\ UNCHANGED <<dma, pc, todo, w, latch, issued, cache, status, addr, resetReq>>
      /\ hp = "byte"
  BY DEF HostCommandByte, IsrWriteData, sharedVars, workerVars
<1>2. Round(Sent) /\ Observed /\ ~cache.sel /\ ~drops
  BY <1>1 DEF InStep
<1>3. step \in Nat /\ step > 0 /\ step <= CdbLen /\ CdbLen \in Nat /\ latch = <<>>
  BY <1>1, <1>2, SizesAssumption DEF Observed, TypeOK, HostType, LatchOK, Polls, Expected
<1>4. PICK e \in Nat : e = 5 + step
  BY <1>3
<1>5. e = Sent /\ Round(e) /\ e > 2 /\ e >= 6 /\ e < Block /\ e + 1 <= Final /\ e + 1 = 6 + step
  <2>1. e = Sent
    BY <1>1, <1>4 DEF Sent
  <2>2. QED
    BY <1>2, <1>3, <1>4, <2>1, RoundSizes
<1>6. Enqueue(Entry(e + 1))
  <2> DEFINE x == IF step = 1 THEN <<"cdb", Current>> ELSE <<"fill", 0>>
  <2>1. Enqueue(<<"data", x>>)
    BY DEF HostCommandByte, IsrWriteData
  <2>2. Entry(e + 1) = <<"data", x>>
    <3>1. CASE step = 1
      <4>1. e + 1 = 7
        BY <1>5, <3>1
      <4>2. QED
        BY <3>1, <4>1 DEF Entry
    <3>2. CASE step # 1
      <4>1. e + 1 > 7 /\ e + 1 \in Nat
        BY <1>3, <1>5, <3>2
      <4>2. QED
        BY <3>2, <4>1 DEF Entry
    <3>3. QED
      BY <3>1, <3>2
  <2>3. QED
    BY <2>1, <2>2
<1>7. Mine' = Mine /\ Current' = Current /\ (Asks' <=> Asks) /\ Final' = Final
  BY <1>1 DEF Mine, Current, Asks, Final
<1>8. \/ step < CdbLen /\ hp' = "cmd" /\ step' = step + 1
      \/ step = CdbLen /\ Asks /\ hp' = "param" /\ step' = 1
      \/ step = CdbLen /\ ~Asks /\ hp' = "stat" /\ step' = 1
  <2>1. step < CdbLen \/ step = CdbLen
    BY <1>3
  <2>2. CASE step < CdbLen
    <3>1. hp' = "cmd" /\ step' = step + 1
      BY <1>3, <2>2 DEF HostCommandByte
    <3>2. QED
      BY <2>2, <3>1
  <2>3. CASE step = CdbLen
    <3>1. ~(step < CdbLen) /\ step >= CdbLen
      BY <1>3, <2>3
    <3>2. step' = 1 /\ (Asks => hp' = "param") /\ (~Asks => hp' = "stat")
      BY <3>1 DEF HostCommandByte, Asks
    <3>3. QED
      BY <2>3, <3>2
  <2>4. QED
    BY <2>1, <2>2, <2>3
<1>9. (Sent)' = e + 1
  <2>1. CASE hp' = "cmd"
    <3>1. (Sent)' = 5 + step' /\ step' = step + 1
      BY <1>8, <2>1 DEF Sent
    <3>2. QED
      BY <1>3, <1>5, <3>1
  <2>2. CASE hp' = "param"
    <3>1. (Sent)' = 5 + CdbLen + step' /\ step' = 1 /\ step = CdbLen
      BY <1>8, <2>2 DEF Sent
    <3>2. QED
      BY <1>3, <1>5, <3>1
  <2>3. CASE hp' = "stat"
    <3>1. (Sent)' = Final' /\ ~Asks /\ step = CdbLen
      BY <1>8, <2>3 DEF Sent
    <3>2. Final' = 6 + CdbLen
      BY <1>7, <3>1, RoundSizes
    <3>3. QED
      BY <1>3, <1>5, <3>1, <3>2
  <2>4. QED
    BY <1>8, <2>1, <2>2, <2>3
<1>10. cache.stat # ParamPhase
  <2>1. Taken(e - Len(queue)) /\ e - Len(queue) < Block
    <3>1. Len(queue) \in Nat /\ Block \in Nat
      BY QueueSizes, RoundSizes
    <3>2. QED
      BY <1>5, <3>1 DEF Round
  <2>2. CASE e - Len(queue) <= 6
    <3>1. Preparing(e - Len(queue))
      <4>1. ~(6 < e - Len(queue))
        <5>1. PICK n \in Nat : n = Len(queue)
          BY QueueSizes
        <5>2. e - n <= 6 => ~(6 < e - n)
          OBVIOUS
        <5>3. QED
          BY <2>2, <5>1, <5>2
      <4>2. QED
        BY <2>1, <4>1 DEF Taken
    <3>2. Silent(todo) /\ LeadsTo(cache.stat, todo, BusAt(e) \cap StatusBits)
      BY <1>5, <2>2, <3>1 DEF Preparing, Round, Forecast
    <3>3. cache.stat = BusAt(e) \cap StatusBits
      BY <3>2, PlanPhases
    <3>4. cache.stat = CommandPhase
      BY <1>5, <3>3, BusAtPhase
    <3>5. QED
      BY <3>4, PhasesDiffer
  <2>3. CASE ~(e - Len(queue) <= 6)
    <3>1. Receiving(e - Len(queue))
      <4>1. PICK i \in Int : i = e - Len(queue)
        BY QueueSizes
      <4>2. i < Block /\ ~(i <= 6) /\ Taken(i)
        BY <2>1, <2>3, <4>1
      <4>3. i # Block /\ ~(Block <= i) /\ i # Final
        BY <4>2, RoundSizes
      <4>4. Receiving(i)
        BY <4>2, <4>3 DEF Taken
      <4>5. QED
        BY <4>1, <4>4
    <3>2. cache.stat \in {Taking, CommandPhase}
      BY <3>1 DEF Receiving
    <3>3. QED
      BY <3>2, PhasesDiffer DEF PlainBus
  <2>4. QED
    BY <2>2, <2>3
<1>11. Observed'
  <2>1. latch' = <<>> /\ cache' = cache
    BY <1>1, <1>3
  <2>2. hp' = "cmd" => step' <= CdbLen
    BY <1>3, <1>8
  <2>3. hp' = "param" => step' <= ParamLen /\ Asks'
    BY <1>7, <1>8, SizesAssumption
  <2>4. hp' = "stat" => ~Asks'
    BY <1>7, <1>8
  <2>5. hp' \in {"cmd", "param", "stat"}
    BY <1>8
  <2>6. QED
    BY <1>10, <2>1, <2>2, <2>3, <2>4, <2>5 DEF Observed
<1>12. hp' \in {"cmd", "param", "stat"}
  BY <1>8
<1>13. QED
  BY <1>1, <1>2, <1>5, <1>6, <1>9, <1>11, <1>12, SendKeepsInStep

(* The parameter bytes. *)
LEMMA ParamByteKeepsInStep ==
  ASSUME TypeOK, Deep, HostParamByte, InStep
  PROVE  InStep'
<1>1. /\ UNCHANGED <<dma, pc, todo, w, latch, issued, cache, status, addr, resetReq>>
      /\ hp = "parambyte" /\ Enqueue(<<"data", <<"fill", 0>>>>)
      /\ hp' = (IF step < ParamLen THEN "param" ELSE "stat")
      /\ step' = (IF step < ParamLen THEN step + 1 ELSE 1)
  BY DEF HostParamByte, IsrWriteData, sharedVars, workerVars
<1>2. Round(Sent) /\ Observed /\ ~cache.sel /\ ~drops
  BY <1>1 DEF InStep
<1>3. step \in Nat /\ step > 0 /\ step <= ParamLen /\ ParamLen \in Nat /\ CdbLen \in Nat /\ CdbLen > 0
      /\ latch = <<>> /\ Asks /\ Routed(Sent)
  BY <1>1, <1>2, SizesAssumption DEF Observed, TypeOK, HostType, LatchOK, Polls, Expected
<1>4. PICK e \in Nat : e = 5 + CdbLen + step
  BY <1>3
<1>5. e = Sent /\ Round(e) /\ Routed(e) /\ e > 2 /\ e >= 6 /\ e < Final /\ e + 1 <= Final
      /\ Final = 6 + CdbLen + ParamLen
  <2>1. e = Sent
    BY <1>1, <1>4 DEF Sent
  <2>2. Final = 6 + CdbLen + ParamLen
    BY <1>3, RoundSizes
  <2>3. QED
    BY <1>2, <1>3, <1>4, <2>1, <2>2
<1>6. Enqueue(Entry(e + 1))
  <2>1. e + 1 > 7 /\ e + 1 \in Nat
    BY <1>3, <1>4
  <2>2. Entry(e + 1) = <<"data", <<"fill", 0>>>>
    BY <2>1 DEF Entry
  <2>3. QED
    BY <1>1, <2>2
<1>7. Mine' = Mine /\ Current' = Current /\ (Asks' <=> Asks) /\ Final' = Final
  BY <1>1 DEF Mine, Current, Asks, Final
<1>8. \/ step < ParamLen /\ hp' = "param" /\ step' = step + 1
      \/ step = ParamLen /\ hp' = "stat" /\ step' = 1
  BY <1>1, <1>3
<1>9. (Sent)' = e + 1
  <2>1. CASE hp' = "param"
    <3>1. (Sent)' = 5 + CdbLen + step' /\ step' = step + 1
      BY <1>8, <2>1 DEF Sent
    <3>2. QED
      BY <1>3, <1>4, <3>1
  <2>2. CASE hp' = "stat"
    <3>1. (Sent)' = Final' /\ step = ParamLen
      BY <1>8, <2>2 DEF Sent
    <3>2. QED
      BY <1>3, <1>4, <1>5, <1>7, <3>1
  <2>3. QED
    BY <1>8, <2>1, <2>2
<1>10. Observed'
  <2>1. queue' = Append(queue, Entry(e + 1))
    <3>1. Len(queue) < QueueSize - 1
      BY <1>5, RoundRoom
    <3>2. QED
      BY <1>6, <3>1, EnqueueRoom
  <2>2. Len(queue') = Len(queue) + 1 /\ Len(queue) \in Nat
    BY <2>1, QueueSizes
  <2>3. (Routed(Sent))'
    <3>1. e - Len(queue) = (e + 1) - Len(queue')
      BY <2>2
    <3>2. Block <= (e + 1) - Len(queue') /\ pc' = "idle"
      BY <1>1, <1>5, <3>1 DEF Routed
    <3>3. QED
      BY <1>9, <3>2 DEF Routed, Block
  <2>4. hp' = "param" => step' <= ParamLen
    BY <1>3, <1>8
  <2>5. QED
    BY <1>1, <1>3, <1>7, <1>8, <2>3, <2>4 DEF Observed
<1>11. hp' \in {"param", "stat"}
  BY <1>8
<1>12. QED
  BY <1>1, <1>2, <1>5, <1>6, <1>9, <1>10, <1>11, SendKeepsInStep

(* Host and worker start in step ... *)
LEMMA InitInStep == Init => InStep
<1> SUFFICES ASSUME Init PROVE InStep
  OBVIOUS
<1>1. /\ cache = [stat |-> BusFree, data |-> Zero, sel |-> FALSE, addr |-> Programmed(0, 0)]
      /\ dma = [bus |-> {}, nonDmaReq |-> FALSE, statusPending |-> FALSE, dataOut |-> 0,
                dmaEnabled |-> FALSE, select |-> FALSE, command |-> <<"fill", 0>>, target |-> 0]
      /\ w = [index |-> 0, cdb |-> NoCommand, block |-> 0, try |-> 1, ok |-> TRUE,
              wrote |-> FALSE, synced |-> FALSE, loc |-> Programmed(0, 0),
              byte |-> [prog |-> 0, off |-> 0]]
  BY DEF Init
<1>2. cache.stat = BusFree /\ ~cache.sel /\ cache.addr = Programmed(0, 0)
  BY <1>1
<1>3. /\ dma.bus = {} /\ ~dma.nonDmaReq /\ ~dma.statusPending /\ dma.dataOut = 0 /\ ~dma.select
  <2> DEFINE n == <<"fill", 0>>
  <2> HIDE DEF n
  <2>1. dma = [bus |-> {}, nonDmaReq |-> FALSE, statusPending |-> FALSE, dataOut |-> 0,
               dmaEnabled |-> FALSE, select |-> FALSE, command |-> n, target |-> 0]
    BY <1>1 DEF n
  <2>2. QED
    BY <2>1
<1>4. w.index = 0
  BY <1>1
<1>5. /\ queue = <<>> /\ todo = <<>> /\ ~drops /\ addr = Programmed(0, 0) /\ pc = "idle"
      /\ hp = "start" /\ latch = <<>>
  BY DEF Init
<1>6. Preparing(2)
  <2>1. Silent(todo)
    BY <1>5 DEF Silent, Only
  <2>2. QED
    BY <1>3, <1>4, <1>5, <2>1, BusValues DEF Preparing
<1>7. Len(queue) = 0 /\ 2 - Len(queue) = 2
  <2>1. Len(queue) = 0
    BY <1>5
  <2>2. \A n : n = 0 => 2 - n = 2
    OBVIOUS
  <2>3. QED
    BY <2>1, <2>2, Zenon
<1>8. Taken(2 - Len(queue))
  <2>1. PICK q \in Nat : q = 2
    OBVIOUS
  <2>2. Preparing(q)
    BY <1>6, <2>1
  <2>3. Taken(q)
    BY <2>1, <2>2 DEF Taken
  <2>4. QED
    BY <1>7, <2>1, <2>3
<1>9. LeadsTo(cache.stat, todo, Forecast(2))
  <2>1. Forecast(2) = BusFree
    BY <1>7, BusValues DEF Forecast, BusFree
  <2>2. Silent(todo)
    BY <1>5 DEF Silent, Only
  <2>3. QED
    BY <1>2, <2>1, <2>2, PlanPhases
<1>10. Round(2)
  BY <1>5, <1>7, <1>8, <1>9, RoundSizes DEF Round
<1>11. Round(Sent) /\ Observed
  BY <1>5, <1>10 DEF Sent, Observed
<1>12. Mirroring(cache.addr, todo)
  BY <1>2, <1>5 DEF Mirroring
<1>13. QED
  BY <1>2, <1>5, <1>11, <1>12 DEF InStep

(* ... and stay so. *)
LEMMA StepKeepsInStep ==
  ASSUME Settle, Deep, TypeOK, ResetFlagBacked, InStep, Next
  PROVE  InStep'
<1>1. CASE \E c \in Command : HostBegin(c)
  BY <1>1, BeginKeepsInStep
<1>2. CASE HostAddress \/ HostPoll \/ HostPolled \/ HostTimeout
  BY <1>2, AddressKeepsInStep, PollKeepsInStep, PolledKeepsInStep, TimeoutKeepsInStep
<1>3. CASE HostTarget \/ HostSelect \/ HostDeselect
  BY <1>3, SelectionKeepsInStep
<1>4. CASE HostCommandByte \/ HostParamByte
  BY <1>4, CommandByteKeepsInStep, ParamByteKeepsInStep
<1>5. CASE HostReadData \/ HostAccept
  BY <1>5, ReadKeepsInStep, AcceptKeepsInStep
<1>6. CASE HostReset \/ HostUnreset \/ HostSettled
  BY <1>6, ResetKeepsInStep, UnresetKeepsInStep, SettledKeepsInStep
<1>7. CASE WorkerStore
  BY <1>7, StoreKeepsInStep
<1>8. CASE WorkerTake
  BY <1>8, TakeKeepsInStep
<1>9. CASE Handler
  BY <1>9, HandlerKeepsInStep
<1>10. QED
  BY <1>1, <1>2, <1>3, <1>4, <1>5, <1>6, <1>7, <1>8, <1>9 DEF Next, HostProgress, Worker, Handler

(* A step that changes nothing changes nothing here. *)
LEMMA StutterKeepsInStep ==
  ASSUME TypeOK, InStep, UNCHANGED vars
  PROVE  InStep'
<1>1. /\ UNCHANGED <<cache, queue, drops, dma, status, addr, resetReq, pc, todo, w>>
      /\ UNCHANGED <<hp, latch, step, issued>>
  BY DEF vars, cacheVars, sharedVars, workerVars, hostVars
<1>2. Sent' = Sent /\ Mine' = Mine /\ Current' = Current /\ (Asks' <=> Asks) /\ Final' = Final
  BY <1>1 DEF Sent, Final, Asks, Mine, Current
<1>3. (Mirroring(cache.addr, todo))' /\ (pc' # "idle" => Handling')
  BY <1>1, HostFrame
<1>4. ASSUME NEW e \in Nat, Round(e) PROVE Round(e)' /\ (Routed(e) <=> Routed(e)')
  <2>1. 2 < e /\ e - Len(queue) < Block /\ hp' # "addr" => addr' = Programmed(Current, 0)
    BY <1>1, <1>4 DEF Round
  <2>2. QED
    BY <1>1, <1>4, <2>1, StayKeepsRound
<1>5. CASE hp \notin {"reset", "unreset", "settle"}
  <2>1. PICK e \in Nat : e = Sent
    BY <1>5, RoundSizes DEF Sent, TypeOK, HostType
  <2>2. (Round(Sent))' /\ (Routed(Sent) => (Routed(Sent))')
    BY <1>2, <1>4, <1>5, <2>1 DEF InStep
  <2>3. Observed'
    <3>1. Observed
      BY <1>5 DEF InStep
    <3>2. (RightVerdict(status) => RightVerdict(status)') /\ (RightVerdict(latch[1]) => RightVerdict(latch[1])')
      BY <1>1, <1>2 DEF RightVerdict, Executed
    <3>3. QED
      BY <1>1, <1>2, <2>2, <3>1, <3>2 DEF Observed
  <2>4. QED
    BY <1>1, <1>3, <1>5, <2>2, <2>3 DEF InStep
<1>6. CASE hp = "reset"
  <2>1. PICK e \in 0 .. Block + ParamLen : Round(e) /\ (queue = <<>> \/ e = 1)
    BY <1>6 DEF InStep
  <2>2. e \in Nat
    OBVIOUS
  <2>3. Round(e)'
    BY <1>4, <2>1, <2>2
  <2>4. QED
    BY <1>1, <1>3, <1>6, <2>1, <2>3 DEF InStep, Block
<1>7. CASE hp \in {"unreset", "settle"}
  <2>1. Clearing'
    <3>1. Clearing /\ Released' = Released
      BY <1>1, <1>7 DEF InStep, Released
    <3>2. Cleared => Cleared'
      BY <1>1, <3>1 DEF Cleared, Only, LeadsTo, BusFree
    <3>3. QED
      BY <1>1, <3>1, <3>2 DEF Clearing, ResetWrite
  <2>2. QED
    BY <1>1, <1>3, <1>7, <2>1 DEF InStep
<1>8. QED
  BY <1>5, <1>6, <1>7

(* Host and worker are in step, always: with a host that lets the board settle and
   a queue deep enough, what either relies on of the other is so.  The queue never
   refuses an operation. *)
THEOREM InStepAlways == ASSUME Settle, Deep PROVE Spec => []InStep
<1>1. InStep /\ TypeOK /\ ResetFlagBacked /\ [Next]_vars => InStep'
  BY StepKeepsInStep, StutterKeepsInStep
<1>2. QED
  BY <1>1, InitInStep, TypeCorrect, AbortIsAnswered, PTL DEF Spec

(* The same with the types: the invariant that the run checks (IInv, over the ISR, the
   worker and the driver of the host). *)
THEOREM IInvAlways == ASSUME Settle, Deep PROVE Spec => []IInv
BY InStepAlways, TypeCorrect, PTL DEF IInv

(* Nothing the host queues is lost, even while a handler keeps the worker busy:
   the driver waits for a phase before it goes on, so that the queue holds no more
   than one round (deferred_worker, DEFER_QUEUE_SIZE). *)
THEOREM NothingRefused == ASSUME Settle, Deep PROVE Spec => []~drops
<1>1. InStep => ~drops
  BY DEF InStep
<1>2. QED
  BY <1>1, InStepAlways, PTL

(* The status byte the host reads is the verdict on the command it has just sent
   (sasi_enter_status_phase). *)
THEOREM StatusIsForThisCommandAlways ==
  ASSUME Settle, Deep PROVE Spec => []StatusIsForThisCommand
<1>1. InStep => StatusIsForThisCommand
  BY DEF InStep, Observed, RightVerdict, StatusIsForThisCommand, StatusLatched
<1>2. QED
  BY <1>1, InStepAlways, PTL

(* GOOD for READ means that every block has reached the memory of the host, for
   WRITE that every block is stored and synced (handle_read_sectors,
   handle_write_sectors). *)
THEOREM GoodMeansDoneAlways == ASSUME Settle, Deep PROVE Spec => []GoodMeansDone
<1>1. InStep => GoodMeansDone
  BY DEF InStep, Observed, RightVerdict, Executed, GoodMeansDone, StatusLatched
<1>2. QED
  BY <1>1, InStepAlways, PTL

(* A transfer goes to the address programmed for its command, advanced once per
   block done (the snapshot of handle_read_sectors and handle_write_sectors). *)
THEOREM TransferAddressAlways == ASSUME Settle, Deep PROVE Spec => []TransferAddress
<1>1. InStep => TransferAddress
  BY DEF InStep, Handling, TransferAddress
<1>2. QED
  BY <1>1, InStepAlways, PTL

(* A command executes on the target that was selected for it (defer_control,
   route_to_sasi_target). *)
THEOREM TargetIsSelectedAlways == ASSUME Settle, Deep PROVE Spec => []TargetIsSelected
<1>1. InStep => TargetIsSelected
  BY DEF InStep, Handling, Mine, TargetIsSelected
<1>2. QED
  BY <1>1, InStepAlways, PTL

(* Once nothing is pending the cache and the worker agree, on the phase and on the
   address (the prediction of the ISR, cached_sync_dma_address). *)
THEOREM CoherentWhenQuietAlways == ASSUME Settle, Deep PROVE Spec => []CoherentWhenQuiet
<1>1. ASSUME TypeOK, InStep, Quiet
      PROVE  cache.stat = dma.bus \cap StatusBits /\ cache.addr = addr
  <2>1. queue = <<>> /\ pc = "idle" /\ todo = <<>> /\ Len(queue) = 0
    BY <1>1 DEF Quiet
  <2>2. ASSUME NEW e \in Nat, Round(e) PROVE cache.stat = dma.bus \cap StatusBits
    <3>1. cache.stat = Forecast(e)
      BY <2>1, <2>2 DEF Round, LeadsTo
    <3>2. e - Len(queue) = e
      BY <2>1, <2>2
    <3>3. CASE e <= 6
      <4>1. Preparing(e)
        BY <1>1, <2>2, <3>2, <3>3, RoundEarly
      <4>2. QED
        BY <3>1, <3>2, <3>3, <4>1 DEF Preparing, Forecast
    <3>4. CASE ~(e <= 6)
      BY <3>1, <3>2, <3>4 DEF Forecast
    <3>5. QED
      BY <3>3, <3>4
  <2>3. ASSUME hp \notin {"reset", "unreset", "settle"} PROVE cache.stat = dma.bus \cap StatusBits
    <3>1. PICK e \in Nat : e = Sent
      BY <1>1, <2>3, RoundSizes DEF Sent, TypeOK, HostType
    <3>2. Round(e)
      BY <1>1, <2>3, <3>1 DEF InStep
    <3>3. QED
      BY <2>2, <3>2
  <2>4. ASSUME hp = "reset" PROVE cache.stat = dma.bus \cap StatusBits
    <3>1. PICK e \in 0 .. Block + ParamLen : Round(e)
      BY <1>1, <2>4 DEF InStep
    <3>2. e \in Nat
      OBVIOUS
    <3>3. QED
      BY <2>2, <3>1, <3>2
  <2>5. ASSUME hp \in {"unreset", "settle"} PROVE cache.stat = dma.bus \cap StatusBits
    <3>1. Clearing
      BY <1>1, <2>5 DEF InStep
    <3>2. Cleared
      <4> DEFINE R == ResetWrite
                 r == <<"read", 0>>
      <4>1. <<R>> \o Released # <<>> /\ <<r, R>> \o Released # <<>>
        <5>1. Released = <<>> \/ Released = <<<<"control", {}>>>>
          BY DEF Released
        <5> HIDE DEF R, r
        <5>2. QED
          BY <5>1
      <4>2. QED
        BY <2>1, <3>1, <4>1 DEF Clearing, ResetWrite
    <3>3. QED
      BY <2>1, <3>2 DEF Cleared, LeadsTo, BusFree
  <2>6. cache.addr = addr
    <3>1. Mirroring(cache.addr, todo)
      BY <1>1 DEF InStep
    <3>2. \A l \in Lane : ~\E i \in 1 .. Len(todo) : todo[i] = <<"sync", l>>
      BY <2>1
    <3>3. \A l \in Lane : cache.addr[l] = addr[l]
      BY <3>1, <3>2 DEF Mirroring
    <3>4. cache.addr \in Address /\ addr \in Address
      BY <1>1 DEF TypeOK, SharedType
    <3>5. QED
      BY <3>3, <3>4 DEF Address
  <2>7. QED
    BY <2>3, <2>4, <2>5, <2>6
<1>2. TypeOK /\ InStep => CoherentWhenQuiet
  BY <1>1 DEF CoherentWhenQuiet
<1>3. QED
  BY <1>2, InStepAlways, TypeCorrect, PTL

(* The phases the worker stores follow one another: a command or parameter request
   is withdrawn by its acknowledge, the status phase comes last. *)
LEMMA PhasesFollow ==
  /\ \A b : PhaseStep(b, b)
  /\ \A b, c \in PlainBus : PhaseStep(b, c)
  /\ \A b \in PlainBus : PhaseStep(b, CommandPhase) /\ PhaseStep(b, ParamPhase) /\ PhaseStep(b, StatusPhase)
  /\ PhaseStep(CommandPhase, Taking) /\ PhaseStep(ParamPhase, {"BSY"})
  /\ PhaseStep(BusFree, Selection) /\ PhaseStep(Selection, CommandPhase)
  /\ PhaseStep(StatusPhase, MessagePhase) /\ PhaseStep(MessagePhase, BusFree)
<1>1. \A b : PhaseStep(b, b)
  BY DEF PhaseStep
<1>2. ASSUME NEW b \in PlainBus,
             NEW c, c \notin {MessagePhase, BusFree}
      PROVE  PhaseStep(b, c)
  BY <1>2, PhasesDiffer DEF PhaseStep
<1>3. \A b, c \in PlainBus : PhaseStep(b, c)
  BY <1>2, PhasesDiffer
<1>4. \A b \in PlainBus : PhaseStep(b, CommandPhase) /\ PhaseStep(b, ParamPhase) /\ PhaseStep(b, StatusPhase)
  <2>1. /\ CommandPhase \notin {MessagePhase, BusFree} /\ ParamPhase \notin {MessagePhase, BusFree}
        /\ StatusPhase \notin {MessagePhase, BusFree}
    BY PhasesDiffer
  <2>2. QED
    BY <1>2, <2>1
<1>5. Taking \notin {MessagePhase, BusFree} /\ {"BSY"} \notin {MessagePhase, BusFree}
  BY PhasesDiffer DEF PlainBus
<1>6. PhaseStep(CommandPhase, Taking) /\ PhaseStep(ParamPhase, {"BSY"})
  <2>1. Acknowledged(CommandPhase) = Taking /\ Acknowledged(ParamPhase) = {"BSY"}
    BY Requests
  <2>2. QED
    BY <1>5, <2>1, PhasesDiffer DEF PhaseStep
<1>7. PhaseStep(BusFree, Selection) /\ PhaseStep(Selection, CommandPhase)
  BY PhasesDiffer DEF PhaseStep
<1>8. PhaseStep(StatusPhase, MessagePhase) /\ PhaseStep(MessagePhase, BusFree)
  BY PhasesDiffer DEF PhaseStep
<1>9. QED
  BY <1>1, <1>3, <1>4, <1>6, <1>7, <1>8

(* The phases the worker stores follow the ones the cache reads (WorkerStore). *)
LEMMA StorePhase ==
  ASSUME TypeOK, InStep, WorkerStore, hp \notin {"reset", "unreset", "settle"}
  PROVE  PhaseStep(cache.stat, cache'.stat)
<1>1. cache'.stat = (IF todo[1][1] = "stat" THEN todo[1][2] ELSE cache.stat) /\ todo # <<>>
      /\ todo[1] \in StoreSet
  BY StoreFrame
<1>2. CASE todo[1][1] # "stat"
  BY <1>1, <1>2, PhasesFollow
<1>3. CASE todo[1][1] = "stat"
  <2> DEFINE b == cache.stat
             x == todo[1][2]
  <2>1. cache'.stat = x /\ 1 \in 1 .. Len(todo)
    BY <1>1, <1>3 DEF TypeOK, WorkerType
  <2>2. Taken(Sent - Len(queue))
    BY DEF InStep, Round
  <2>3. ~Silent(todo)
    BY <1>3, <2>1 DEF Silent, Only
  <2>4. Receiving(Sent - Len(queue)) \/ Executing \/ Asking(Sent - Len(queue)) \/ Answering
    BY <2>2, <2>3 DEF Taken, Preparing
  <2>5. CASE Receiving(Sent - Len(queue))
    <3>1. x \in {Taking, CommandPhase} /\ b \in {Taking, CommandPhase}
      BY <1>3, <2>1, <2>5 DEF Receiving, Among
    <3>2. Taking \in PlainBus
      BY DEF PlainBus
    <3>3. QED
      BY <2>1, <3>1, <3>2, PhasesFollow
  <2>6. CASE Executing
    <3>1. x \in PlainBus /\ b \in PlainBus \cup {CommandPhase} /\ (b = CommandPhase => x = Taking)
      BY <1>3, <2>1, <2>6 DEF Executing, Among
    <3>2. QED
      BY <2>1, <3>1, PhasesFollow
  <2>7. CASE Asking(Sent - Len(queue))
    <3>1. x \in {{"BSY"}, ParamPhase} /\ b \in PlainBus \cup {ParamPhase}
      BY <1>3, <2>1, <2>7 DEF Asking, Among
    <3>2. {"BSY"} \in PlainBus
      BY DEF PlainBus
    <3>3. QED
      BY <2>1, <3>1, <3>2, PhasesFollow
  <2>8. CASE Answering
    <3>1. x \in {{"BSY"}, StatusPhase} /\ b \in PlainBus \cup {ParamPhase, StatusPhase}
      BY <1>3, <2>1, <2>8 DEF Answering, Among
    <3>2. b # StatusPhase
      BY <2>3, <2>8 DEF Answering, Announces
    <3>3. b = ParamPhase => x # StatusPhase
      <4>1. SUFFICES ASSUME b = ParamPhase, x = StatusPhase PROVE FALSE
        OBVIOUS
      <4>2. todo[1] = <<"stat", StatusPhase>>
        BY <1>1, <1>3, <4>1 DEF StoreSet
      <4>3. \E i \in 1 .. Len(todo) : i < 1
        BY <2>1, <2>8, <4>1, <4>2 DEF Answering, Announces
      <4>4. QED
        BY <4>3
    <3>4. {"BSY"} \in PlainBus
      BY DEF PlainBus
    <3>5. QED
      BY <2>1, <3>1, <3>2, <3>3, <3>4, PhasesFollow
  <2>9. QED
    BY <2>4, <2>5, <2>6, <2>7, <2>8
<1>4. QED
  BY <1>2, <1>3

(* The phases the ISR predicts follow those it has predicted. *)
LEMMA HostPhase ==
  ASSUME TypeOK, InStep, HostProgress \/ HostTimeout, hp \notin {"reset", "unreset", "settle"}
  PROVE  PhaseStep(cache.stat, cache'.stat)
<1>1. cache \in [stat : SUBSET StatusBits, data : StatusByte, sel : BOOLEAN, addr : Address]
  BY DEF TypeOK, SharedType
<1>2. Round(Sent) /\ (cache.sel <=> hp \in {"bsy", "deselect"})
  BY DEF InStep
<1>3. ASSUME NEW e \in Nat, e = Sent, e <= 6 PROVE cache.stat = BusAt(e) \cap StatusBits
  BY <1>2, <1>3, RoundEarly
<1>4. CASE HostPoll \/ HostPolled \/ HostTimeout \/ HostTarget \/ HostCommandByte \/ HostParamByte
  <2>1. cache' = cache
    BY <1>4 DEF HostPoll, HostPolled, HostTimeout, HostTarget, HostCommandByte, HostParamByte,
       IsrCommitStatus, IsrWriteData, cacheVars
  <2>2. QED
    BY <2>1, PhasesFollow
<1>5. CASE \E c \in Command : HostBegin(c)
  <2>1. PICK c \in Command : HostBegin(c)
    BY <1>5
  <2> DEFINE v == {"LATCH"} \cup (IF c.dma THEN {"ON"} ELSE {})
  <2>2. hp = "start" /\ IsrWriteControl(v) /\ v \in SUBSET ControlBits
    BY <2>1 DEF HostBegin, ControlBits
  <2>3. "SEL" \notin v /\ "RESET" \notin v /\ ~cache.sel
    BY <1>2, <2>2
  <2> HIDE DEF v
  <2>4. cache'.stat = cache.stat
    BY <2>2, <2>3, ControlCache
  <2>5. QED
    BY <2>4, PhasesFollow
<1>6. CASE HostAddress
  <2>1. \E l, x : cache' = [cache EXCEPT !.addr[l] = x]
    BY <1>6 DEF HostAddress, IsrWriteAddr
  <2>2. cache'.stat = cache.stat
    BY <1>1, <2>1
  <2>3. QED
    BY <2>2, PhasesFollow
<1>7. CASE HostReadData
  <2>1. cache'.stat = cache.stat
    BY <1>1, <1>7 DEF HostReadData, IsrFetchData
  <2>2. QED
    BY <2>1, PhasesFollow
<1>8. CASE HostSelect \/ HostDeselect
  <2>1. hp \in {"select", "deselect"}
    BY <1>8 DEF HostSelect, HostDeselect
  <2>2. PICK e \in Nat : e = Sent
    BY <2>1 DEF Sent
  <2>3. issued # <<>>
    BY <2>1 DEF TypeOK, HostType
  <2>4. BaseControl \in SUBSET ControlBits /\ "SEL" \notin BaseControl /\ "RESET" \notin BaseControl
    BY <2>3, ControlValues
  <2>5. CASE HostSelect
    <3> DEFINE v == BaseControl \cup {"SEL"}
    <3>1. hp = "select" /\ e = 4 /\ IsrWriteControl(v) /\ ~cache.sel
      BY <1>2, <2>2, <2>5 DEF HostSelect, Sent
    <3>2. v \in SUBSET ControlBits /\ "SEL" \in v /\ "RESET" \notin v
      BY <2>4 DEF ControlBits
    <3> HIDE DEF v
    <3>3. cache'.stat = Selection
      BY <3>1, <3>2, ControlCache
    <3>4. cache.stat = BusFree
      BY <1>3, <2>2, <3>1, BusAtPhase
    <3>5. QED
      BY <3>3, <3>4, PhasesFollow
  <2>6. CASE HostDeselect
    <3>1. hp = "deselect" /\ e = 5 /\ IsrWriteControl(BaseControl) /\ cache.sel
      BY <1>2, <2>2, <2>6 DEF HostDeselect, Sent
    <3>2. cache'.stat = CommandPhase
      BY <2>4, <3>1, ControlCache
    <3>3. cache.stat = Selection
      BY <1>3, <2>2, <3>1, BusAtPhase
    <3>4. QED
      BY <3>2, <3>3, PhasesFollow
  <2>7. QED
    BY <1>8, <2>5, <2>6
<1>9. CASE HostAccept
  <2>1. cache' = AfterDataRead /\ hp \in {"readstat", "readmsg"}
    BY <1>9 DEF HostAccept, IsrCommitData
  <2>2. PICK e \in Nat : e = Sent
    BY <2>1 DEF Sent
  <2>3. CASE hp = "readstat"
    <3>1. e = 0
      BY <2>2, <2>3 DEF Sent
    <3>2. e <= 6
      BY <3>1
    <3>3. cache.stat = BusAt(e) \cap StatusBits
      BY <1>3, <2>2, <3>2
    <3>4. cache.stat = StatusPhase
      BY <3>1, <3>3, BusAtPhase
    <3>5. "MSG" \notin cache.stat /\ {"CTL", "INP"} \subseteq cache.stat
      BY <3>4 DEF StatusPhase
    <3>6. cache' = [cache EXCEPT !.data = Zero, !.stat = cache.stat \cup {"MSG"}]
      BY <2>1, <3>5 DEF AfterDataRead
    <3>7. cache'.stat = MessagePhase
      BY <1>1, <3>4, <3>6 DEF MessagePhase
    <3>8. QED
      BY <3>4, <3>7, PhasesFollow
  <2>4. CASE hp = "readmsg"
    <3>1. cache.stat = MessagePhase
      BY <1>3, <2>2, <2>4, BusAtPhase DEF Sent
    <3>2. "MSG" \in cache.stat
      BY <3>1 DEF MessagePhase
    <3>3. cache'.stat = BusFree
      BY <1>1, <2>1, <3>2 DEF AfterDataRead
    <3>4. QED
      BY <3>1, <3>3, PhasesFollow
  <2>5. QED
    BY <2>1, <2>3, <2>4
<1>10. ~(HostReset \/ HostUnreset \/ HostSettled)
  BY DEF HostReset, HostUnreset, HostSettled
<1>11. QED
  BY <1>4, <1>5, <1>6, <1>7, <1>8, <1>9, <1>10 DEF HostProgress

(* Outside of a reset the phases the host can see follow the order of the SASI bus,
   whichever of the ISR and the worker stores them (cached_regs, the prediction in
   register_irq_handlers.c). *)
THEOREM PhaseOrderAlways == ASSUME Settle, Deep PROVE Spec => PhaseOrder
<1>1. TypeOK /\ InStep /\ [Next]_vars
        => [hp \notin {"reset", "unreset", "settle"} => PhaseStep(cache.stat, cache'.stat)]_cache
  <2> SUFFICES ASSUME TypeOK, InStep, [Next]_vars, hp \notin {"reset", "unreset", "settle"}
               PROVE  PhaseStep(cache.stat, cache'.stat) \/ cache' = cache
    OBVIOUS
  <2>1. CASE HostProgress \/ HostTimeout
    BY <2>1, HostPhase
  <2>2. CASE WorkerStore
    BY <2>2, StorePhase
  <2>3. CASE Worker /\ ~WorkerStore
    BY <2>3 DEF Worker, WorkerTake, Route, Burst, BurstDone, Snapshot, SectorBegin, FetchSector, Transfer, StoreSector,
       CheckReset, Sync, Finish, WorkerAt, cacheVars
  <2>4. CASE UNCHANGED vars
    BY <2>4 DEF vars, cacheVars
  <2>5. QED
    BY <2>1, <2>2, <2>3, <2>4 DEF Next
<1>2. QED
  BY <1>1, InStepAlways, TypeCorrect, PTL DEF Spec, PhaseOrder
-----------------------------------------------------------------------------
(* Host, ISR and worker implement CommandPort.  The host waits for its command from
   the control write that begins it until it has seen the status phase; Made is what
   the worker has taken of the round meanwhile. *)
Waiting == hp \notin {"reset", "unreset", "settle", "start", "msg", "readmsg", "readstat"}
Made == Sent - Len(queue)

(* Where the command is, by what the worker has taken of it and is doing. *)
Stage ==
  /\ Waiting => /\ Sent \in Nat /\ Sent > 2 /\ Sent <= Final
                /\ Len(queue) \in Nat /\ Made \in 0 .. Final /\ issued # <<>>
  /\ Waiting /\ pc # "idle" =>
       state = "running" /\ Made = Block /\ (pc \in {"burst", "bursting"} => ~Asks)
  /\ Waiting /\ pc = "idle" =>
       \/ Made < Block /\ state = "asked"
       \/ /\ Block <= Made /\ Made < Final
          /\ state = "running" /\ Asks /\ dma.dataOut = Final - Made
       \/ Made = Final /\ state = "answered" /\ Answering
  /\ hp = "readstat" => pc = "idle" /\ queue = <<>> /\ Silent(todo) /\ cache.stat = StatusPhase

LEMMA Staged == TypeOK /\ InStep => Stage
<1> SUFFICES ASSUME TypeOK, InStep PROVE Stage
  OBVIOUS
<1>1. ASSUME Waiting
      PROVE  /\ Sent \in Nat /\ Sent > 2 /\ Sent <= Final
             /\ Len(queue) \in Nat /\ Made \in 0 .. Final /\ issued # <<>>
             /\ Taken(Made)
  <2>1. Sent \in Nat /\ Sent > 2
    BY <1>1, RoundSizes DEF Waiting, Sent, TypeOK, HostType
  <2>2. PICK e \in Nat : e = Sent
    BY <2>1
  <2>3. Round(e)
    BY <1>1, <2>2 DEF Waiting, InStep
  <2>4. e <= Final /\ Len(queue) \in Nat /\ Len(queue) <= e /\ issued # <<>> /\ Taken(e - Len(queue))
    BY <2>1, <2>2, <2>3, QueueSizes DEF Round
  <2>5. Made = e - Len(queue) /\ Final \in Nat
    BY <2>2, RoundSizes DEF Made
  <2>6. Made \in 0 .. Final
    BY <2>4, <2>5
  <2>7. QED
    BY <2>1, <2>2, <2>4, <2>5, <2>6
<1>2. ASSUME Waiting
      PROVE  state = IF Made < Block THEN "asked"
                     ELSE IF dma.bus = StatusPhase THEN "answered" ELSE "running"
  BY <1>2 DEF Waiting, state, Made
<1>3. Block \in Nat /\ Block > 6 /\ Final \in Nat /\ Final >= Block
  BY RoundSizes
<1>4. ASSUME Waiting, pc # "idle"
      PROVE  state = "running" /\ Made = Block /\ (pc \in {"burst", "bursting"} => ~Asks)
  <2>1. Made = Block /\ Executing
    BY <1>1, <1>4 DEF Taken, Preparing, Receiving, Asking, Answering
  <2>2. dma.bus \ {"ACK"} \in PlainBus
    BY <2>1 DEF Executing
  <2>3. "REQ" \notin dma.bus
    BY <2>2 DEF PlainBus, Taking
  <2>4. dma.bus # StatusPhase
    BY <2>3 DEF StatusPhase
  <2>5. QED
    BY <1>2, <1>3, <1>4, <2>1, <2>4 DEF Executing
<1>5. ASSUME Waiting, pc = "idle"
      PROVE  \/ Made < Block /\ state = "asked"
             \/ /\ Block <= Made /\ Made < Final
                /\ state = "running" /\ Asks /\ dma.dataOut = Final - Made
             \/ Made = Final /\ state = "answered" /\ Answering
  <2>1. CASE Made < Block
    BY <1>2, <1>5, <2>1
  <2>2. CASE Block <= Made
    <3>1. \/ Block <= Made /\ Made < Final /\ Asking(Made)
          \/ Made = Final /\ Answering
      BY <1>1, <1>3, <1>5, <2>2 DEF Taken, Executing
    <3>2. ~(Made < Block)
      BY <1>1, <1>3, <1>5, <2>2
    <3>3. Asking(Made) => dma.bus # StatusPhase
      BY PhasesDiffer DEF Asking
    <3>4. Answering => dma.bus = StatusPhase
      BY DEF Answering
    <3>5. QED
      BY <1>2, <1>5, <3>1, <3>2, <3>3, <3>4 DEF Asking
  <2>3. QED
    BY <1>1, <1>3, <1>5, <2>1, <2>2
<1>6. ASSUME hp = "readstat"
      PROVE  pc = "idle" /\ queue = <<>> /\ Silent(todo) /\ cache.stat = StatusPhase
  <2>1. PICK e \in Nat : e = 0
    OBVIOUS
  <2>2. Round(e)
    BY <1>6, <2>1 DEF InStep, Sent
  <2>3. pc = "idle" /\ Silent(todo) /\ cache.stat = BusAt(e) \cap StatusBits
    BY <2>1, <2>2, RoundEarly
  <2>4. queue = <<>>
    BY <2>1, <2>2, QueueSizes DEF Round
  <2>5. QED
    BY <2>1, <2>3, <2>4, BusAtPhase
<1>7. QED
  BY <1>1, <1>4, <1>5, <1>6 DEF Stage

LEMMA StagedNext ==
  ASSUME TypeOK', InStep'
  PROVE  Stage'
BY Staged, PTL

(* Of what the mapping reads nothing changes. *)
LEMMA SameCommand ==
  ASSUME state' = state, state = "heard" => latch' = latch,
         UNCHANGED <<dma, pc, w, status, todo, issued>>
  PROVE  UNCHANGED Port!portVars
<1>1. done' = done
  BY DEF done, Sector
<1>2. moving' = moving
  BY DEF moving
<1>3. synced' = synced
  BY DEF synced
<1>4. Unstored' = Unstored
  BY DEF Unstored
<1>5. verdict' = verdict
  BY <1>4 DEF verdict
<1>6. QED
  BY <1>1, <1>2, <1>3, <1>5 DEF Port!portVars

(* A command that does not run has nothing done and nothing under way. *)
Still ==
  /\ state # "running" => done = 0 /\ moving = <<>> /\ synced = FALSE
  /\ state \notin {"answered", "heard"} => verdict = <<>>
  /\ ~Waiting => state \notin {"asked", "running"}

LEMMA AtRest == Still
BY DEF Still, done, moving, synced, verdict, state, Waiting

LEMMA AtRestNext == Still'
BY AtRest, PTL

(* The worker has one verdict to store at a time: whatever status byte is on the way
   is x. *)
Reports(s, x) == \A i \in 1 .. Len(s) : s[i][1] = "status" => s[i][2] = x
OneVerdict == \E x : Reports(todo, x)

LEMMA ReportsClosed ==
  ASSUME NEW p \in Seq(StoreSet), NEW q \in Seq(StoreSet), NEW x, Reports(p, x), Reports(q, x)
  PROVE  Reports(p \o q, x)
<1> SUFFICES ASSUME NEW i \in 1 .. Len(p \o q), (p \o q)[i][1] = "status" PROVE (p \o q)[i][2] = x
  BY DEF Reports
<1>1. CASE i \in 1 .. Len(p)
  BY <1>1 DEF Reports
<1>2. CASE i - Len(p) \in 1 .. Len(q)
  BY <1>2 DEF Reports
<1>3. QED
  BY <1>1, <1>2

LEMMA PlansReport ==
  ASSUME NEW x
  PROVE  /\ Reports(<<>>, x)
         /\ \A c \in BOOLEAN : Reports(<<Irq(c)>>, x)
         /\ \A b : Reports(<<Stat(b)>>, x) /\ Reports(<<Stat(b), Irq(TRUE)>>, x)
         /\ \A b : Reports(StatusStores(b, x), x)
         /\ \A a : Reports(WriteBack(a), x)
<1>1. Reports(<<>>, x)
  BY DEF Reports
<1>2. ASSUME NEW c PROVE Reports(<<Irq(c)>>, x)
  BY DEF Reports, Irq
<1>3. ASSUME NEW b PROVE Reports(<<Stat(b)>>, x) /\ Reports(<<Stat(b), Irq(TRUE)>>, x)
  BY DEF Reports, Irq, Stat
<1>4. ASSUME NEW b PROVE Reports(StatusStores(b, x), x)
  BY DEF Reports, Irq, Stat, StatusStores
<1>5. ASSUME NEW a PROVE Reports(WriteBack(a), x)
  BY DEF Reports, WriteBack
<1>6. QED
  BY <1>1, <1>2, <1>3, <1>4, <1>5

LEMMA CompleteReports ==
  ASSUME TypeOK, NEW t \in Seq(StoreSet), \A x : Reports(t, x), NEW g \in BOOLEAN, Complete(t, g)
  PROVE  OneVerdict'
<1>1. Verdict(g) \in StatusByte
  BY DEF Verdict, StatusByte, TypeOK, WorkerType, LocalsType
<1>2. StatusStores(dma.bus, Verdict(g)) \in Seq(StoreSet)
  BY <1>1, StatusStoresTyped
<1>3. Reports(t \o StatusStores(dma.bus, Verdict(g)), Verdict(g))
  BY <1>2, ReportsClosed, PlansReport
<1>4. PICK x : x = Verdict(g)
  OBVIOUS
<1>5. todo' = t \o StatusStores(dma.bus, Verdict(g))
  BY DEF Complete
<1>6. Reports(todo, x)'
  BY <1>3, <1>4, <1>5 DEF Reports
<1>7. QED
  BY <1>6 DEF OneVerdict

(* A plan without a status byte, a plan that is one. *)
LEMMA PlanReports ==
  ASSUME NEW x, Reports(todo', x)
  PROVE  OneVerdict'
<1>1. Reports(todo, x)'
  BY DEF Reports
<1>2. QED
  BY <1>1 DEF OneVerdict

LEMMA TakeReports ==
  ASSUME TypeOK, WorkerTake
  PROVE  OneVerdict'
<1> DEFINE e == Head(queue)
<1>1. \/ DeferReset(e[2])
      \/ DeferControl(e[2])
      \/ e[1] = "data" /\ DeferData(e[2])
      \/ DeferRead
  BY DEF WorkerTake
<1>2. CASE DeferReset(e[2])
  <2>1. todo' = ResetStores
    BY <1>2 DEF DeferReset
  <2>2. Reports(ResetStores, Zero)
    BY DEF Reports, ResetStores, Irq, Stat
  <2>3. QED
    BY <2>1, <2>2, PlanReports
<1>3. CASE DeferControl(e[2])
  <2>1. \E f : \E b : todo' = EdgeStores(f, b)
    BY <1>3, Zenon DEF DeferControl
  <2>2. Reports(todo', Zero)
    BY <2>1, PlansReport DEF EdgeStores
  <2>3. QED
    BY <2>2, PlanReports
<1>4. CASE e[1] = "data" /\ DeferData(e[2])
  <2> DEFINE named == [dma EXCEPT !.command = e[2],
                             !.target = IF dma.select THEN ExtractTarget(e[2]) ELSE @,
                             !.bus = IF dma.select THEN @ \ {"SEL"} ELSE @]
             isTaken == dma.nonDmaReq /\ "INP" \notin dma.bus
             d == IF isTaken
                    THEN [named EXCEPT !.nonDmaReq = FALSE, !.bus = (@ \ {"REQ"}) \cup {"ACK"}]
                    ELSE named
             acked == IF isTaken THEN <<Stat(d.bus)>> ELSE <<>>
             x == [id |-> w.cdb, good |-> TRUE]
  <2>1. acked \in Seq(StoreSet) /\ Reports(acked, x)
    BY StatIsStore, TupleTyped, PlansReport, Zenon
  <2>2. x \in StatusByte
    BY DEF StatusByte, TypeOK, WorkerType, LocalsType
  <2> HIDE DEF d, acked, named, isTaken, x
  <2>3. \/ CommandByte(d, acked, e[2])
        \/ ParamByte(d, acked)
        \/ todo' = acked
    BY <1>4, Zenon DEF DeferData, d, acked, named, isTaken
  <2>4. ASSUME NEW b PROVE Reports(acked \o <<Stat(b), Irq(TRUE)>>, x)
    <3>1. <<Stat(b), Irq(TRUE)>> \in Seq(StoreSet)
      BY StatIsStore, IrqIsStore, TupleTyped, Zenon
    <3>2. Reports(<<Stat(b), Irq(TRUE)>>, x)
      BY PlansReport, Zenon
    <3>3. QED
      BY <2>1, <3>1, <3>2, ReportsClosed
  <2>5. ASSUME NEW b PROVE Reports(acked \o StatusStores(b, x), x)
    <3>1. StatusStores(b, x) \in Seq(StoreSet)
      BY <2>2, StatusStoresTyped
    <3>2. Reports(StatusStores(b, x), x)
      BY PlansReport, Zenon
    <3>3. QED
      BY <2>1, <3>1, <3>2, ReportsClosed
  <2>6. CASE CommandByte(d, acked, e[2])
    <3>1. \/ todo' = acked
          \/ \E b : todo' = acked \o <<Stat(b), Irq(TRUE)>>
      BY <2>6, Zenon DEF CommandByte
    <3>2. QED
      BY <2>1, <2>4, <3>1, PlanReports
  <2>7. CASE ParamByte(d, acked)
    <3>1. \/ \E b : todo' = acked \o <<Stat(b), Irq(TRUE)>>
          \/ \E b : todo' = acked \o StatusStores(b, x)
      BY <2>7, Zenon DEF ParamByte, x
    <3>2. QED
      BY <2>4, <2>5, <3>1, PlanReports
  <2>8. QED
    BY <2>1, <2>3, <2>6, <2>7, PlanReports
<1>5. CASE DeferRead
  <2>1. todo' = <<>> \/ todo' = <<Irq(TRUE)>> \/ todo' = <<Irq(FALSE)>>
    BY <1>5, Zenon DEF DeferRead
  <2>2. Reports(todo', Zero)
    BY <2>1, PlansReport
  <2>3. QED
    BY <2>2, PlanReports
<1>6. QED
  BY <1>1, <1>2, <1>3, <1>4, <1>5

LEMMA HandlerReports ==
  ASSUME TypeOK, Handler
  PROVE  OneVerdict'
<1>1. todo = <<>>
  BY HandlerPlans DEF Handler
<1>2. /\ w.loc \in Address /\ Advance(w.loc) \in Address /\ w.ok \in BOOLEAN /\ <<>> \in Seq(StoreSet)
  BY AddressesTyped, IrqStoresTyped DEF TypeOK, WorkerType, LocalsType
<1>3. ASSUME NEW t \in {<<>>, WriteBack(w.loc), WriteBack(Advance(w.loc))}, NEW g \in BOOLEAN, Complete(t, g)
      PROVE  OneVerdict'
  <2>1. t \in Seq(StoreSet) /\ \A x : Reports(t, x)
    BY <1>2, <1>3, WriteBackTyped, PlansReport
  <2>2. QED
    BY <1>3, <2>1, CompleteReports
<1>4. \/ todo' = <<>>
      \/ \E b : todo' = <<Stat(b)>>
      \/ \E b : todo' = <<Stat(b), Irq(TRUE)>>
      \/ \E t \in {<<>>, WriteBack(w.loc), WriteBack(Advance(w.loc))}, g \in BOOLEAN : Complete(t, g)
  <2>1. CASE Route
    BY <2>1 DEF Route, Phase
  <2>2. CASE BurstDone
    BY <2>2 DEF BurstDone
  <2>3. CASE SectorBegin \/ FetchSector \/ Transfer \/ StoreSector
    BY <1>1, <2>3 DEF SectorBegin, FetchSector, Transfer, StoreSector, Fail, SectorEnd, Phase
  <2>4. CASE Finish
    BY <1>2, <2>4 DEF Finish
  <2>5. CASE Burst \/ Snapshot \/ CheckReset \/ Sync
    BY <1>1, <2>5 DEF Burst, Snapshot, CheckReset, Sync
  <2>6. QED
    BY <2>1, <2>2, <2>3, <2>4, <2>5 DEF Handler
<1>5. todo' = <<>> \/ (\E b : todo' = <<Stat(b)>>) \/ (\E b : todo' = <<Stat(b), Irq(TRUE)>>)
        => Reports(todo', Zero)
  BY PlansReport
<1>6. QED
  BY <1>3, <1>4, <1>5, PlanReports

LEMMA StoreReports ==
  ASSUME TypeOK, WorkerStore, NEW x, Reports(todo, x)
  PROVE  Reports(todo', x)
<1>1. Len(todo) \in Nat /\ Len(todo) > 0 /\ Len(todo') \in Nat /\ Remains(todo, todo')
  BY StoreRemains
<1>2. ASSUME NEW i \in 1 .. Len(todo'), todo'[i][1] = "status"
      PROVE  todo'[i][2] = x
  <2>1. CASE Len(todo') = Len(todo) - 1 /\ \A j \in 1 .. Len(todo') : todo'[j] = todo[j + 1]
    <3>1. i + 1 \in 1 .. Len(todo) /\ todo'[i] = todo[i + 1]
      BY <1>1, <2>1
    <3>2. QED
      BY <1>2, <3>1 DEF Reports
  <2>2. CASE /\ Len(todo') = Len(todo) /\ todo[1][1] = "irq" /\ todo'[1][1] = "line"
             /\ \A j \in 2 .. Len(todo') : todo'[j] = todo[j]
    <3>1. i # 1
      BY <1>2, <2>2
    <3>2. i \in 1 .. Len(todo) /\ todo'[i] = todo[i]
      BY <1>1, <2>2, <3>1
    <3>3. QED
      BY <1>2, <3>2 DEF Reports
  <2>3. QED
    BY <1>1, <2>1, <2>2 DEF Remains
<1>3. QED
  BY <1>2 DEF Reports

(* Of all the stores the worker has under way, those of a status byte carry one
   verdict, whichever handler has planned them (sasi_enter_status_phase in sasi.c and
   the stores of the phases around it). *)
THEOREM OneVerdictAlways == Spec => []OneVerdict
<1>1. Init => OneVerdict
  BY PlansReport DEF Init, OneVerdict
<1>2. TypeOK /\ OneVerdict /\ [Next]_vars => OneVerdict'
  <2> SUFFICES ASSUME TypeOK, OneVerdict, [Next]_vars PROVE OneVerdict'
    OBVIOUS
  <2>1. PICK x : Reports(todo, x)
    BY DEF OneVerdict
  <2>2. CASE HostProgress \/ HostTimeout \/ UNCHANGED vars
    <3>1. todo' = todo
      BY <2>2 DEF HostProgress, HostBegin, HostAddress, HostPoll, HostPolled, HostTarget, HostSelect,
         HostDeselect, HostCommandByte, HostParamByte, HostReadData, HostAccept, HostTimeout, HostReset,
         HostUnreset, HostSettled, workerVars, vars
    <3>2. QED
      BY <2>1, <3>1, PlanReports
  <2>3. CASE WorkerStore
    BY <2>1, <2>3, StoreReports, PlanReports
  <2>4. CASE WorkerTake
    BY <2>4, TakeReports
  <2>5. CASE Handler
    BY <2>5, HandlerReports
  <2>6. QED
    BY <2>2, <2>3, <2>4, <2>5 DEF Next, Worker, Handler
<1>3. QED
  BY <1>1, <1>2, TypeCorrect, PTL DEF Spec

(* The host's steps.  While it waits for the command only what has been taken of the
   round counts. *)
LEMMA WaitingStays ==
  ASSUME Waiting, Waiting', Made' = Made, UNCHANGED <<dma, pc, w, status, todo, issued>>
  PROVE  UNCHANGED Port!portVars
<1>1. state = IF Made < Block THEN "asked"
              ELSE IF dma.bus = StatusPhase THEN "answered" ELSE "running"
  BY DEF Waiting, state, Made
<1>2. state' = IF Made' < Block THEN "asked"
               ELSE IF dma'.bus = StatusPhase THEN "answered" ELSE "running"
  BY DEF Waiting, state, Made, Block, StatusPhase
<1>3. state' = state /\ state # "heard"
  BY <1>1, <1>2
<1>4. QED
  BY <1>3, SameCommand

LEMMA Queued ==
  ASSUME TypeOK, InStep', NEW x, Enqueue(x)
  PROVE  queue' = Append(queue, x) /\ Len(queue') = Len(queue) + 1 /\ Len(queue) \in Nat
<1>1. ~drops'
  BY DEF InStep
<1>2. queue' = Append(queue, x)
  BY <1>1 DEF Enqueue
<1>3. QED
  BY <1>2, QueueSizes

LEMMA HostWaits ==
  ASSUME TypeOK, InStep, InStep',
         \/ HostAddress \/ HostPoll \/ HostPolled \/ HostTarget \/ HostSelect \/ HostDeselect
         \/ HostCommandByte \/ HostParamByte,
         Waiting, hp' # "readstat"
  PROVE  UNCHANGED Port!portVars
<1>1. UNCHANGED <<dma, pc, w, status, todo, issued>>
  BY DEF HostAddress, HostPoll, HostPolled, HostTarget, HostSelect, HostDeselect, HostCommandByte,
         HostParamByte, IsrWriteAddr, IsrCommitStatus, IsrWriteControl, IsrWriteData, sharedVars, workerVars
<1>2. Mine' = Mine /\ Current' = Current /\ (Asks' <=> Asks) /\ Final' = Final
  BY <1>1 DEF Mine, Current, Asks, Final
<1>3. TypeOK => Sent \in Nat
  BY RoundSizes DEF Waiting, Sent, TypeOK, HostType
<1>4. PICK n \in Nat : n = Len(queue)
  BY QueueSizes
<1>5. ASSUME Len(queue') = n + 1, Sent' = Sent + 1 PROVE Made' = Made
  BY <1>3, <1>4, <1>5 DEF Made
<1>6. CASE HostAddress
  <2>1. hp = "addr" /\ hp' \in {"addr", "idle"} /\ queue' = queue
    BY <1>6 DEF HostAddress, IsrWriteAddr
  <2>2. Sent' = Sent /\ Waiting'
    BY <2>1 DEF Sent, Waiting
  <2>3. Made' = Made
    BY <2>1, <2>2 DEF Made
  <2>4. QED
    BY <1>1, <2>2, <2>3, WaitingStays
<1>7. CASE HostPoll \/ HostPolled
  <2>1. queue' = queue /\ step' = step
    BY <1>7 DEF HostPoll, HostPolled, IsrCommitStatus, cacheVars
  <2>2. \/ hp' = hp
        \/ hp = "idle" /\ hp' = "target"
        \/ hp = "bsy" /\ hp' = "deselect"
        \/ hp = "cmd" /\ hp' = "byte"
        \/ hp = "param" /\ hp' = "parambyte"
    BY <1>7 DEF HostPoll, HostPolled, Polls, Expected, AfterPoll, Waiting
  <2>3. Sent' = Sent /\ Waiting'
    BY <1>2, <2>1, <2>2 DEF Sent, Waiting
  <2>4. Made' = Made
    BY <2>1, <2>3 DEF Made
  <2>5. QED
    BY <1>1, <2>3, <2>4, WaitingStays
<1>8. CASE HostTarget \/ HostSelect \/ HostDeselect
  <2>1. \/ hp = "target" /\ hp' = "select"
        \/ hp = "select" /\ hp' = "bsy"
        \/ hp = "deselect" /\ hp' = "cmd" /\ step' = 1
    BY <1>8 DEF HostTarget, HostSelect, HostDeselect
  <2>2. \E x : Enqueue(x)
    BY <1>8 DEF HostTarget, HostSelect, HostDeselect, IsrWriteControl, IsrWriteData
  <2>3. Len(queue') = n + 1
    BY <1>4, <2>2, Queued
  <2>4. Sent' = Sent + 1 /\ Waiting'
    BY <2>1 DEF Sent, Waiting
  <2>5. QED
    BY <1>1, <1>5, <2>3, <2>4, WaitingStays
<1>9. CASE HostCommandByte
  <2>1. /\ hp = "byte" /\ step \in Nat /\ step <= CdbLen
        /\ \E x : Enqueue(x)
        /\ hp' = CASE step < CdbLen -> "cmd" [] step >= CdbLen /\ Asks -> "param" [] OTHER -> "stat"
        /\ step' = IF step < CdbLen THEN step + 1 ELSE 1
    BY <1>9 DEF HostCommandByte, IsrWriteData, Asks, InStep, Observed, TypeOK, HostType
  <2>2. Len(queue') = n + 1
    BY <1>4, <2>1, Queued
  <2>3. \/ step < CdbLen /\ hp' = "cmd" /\ step' = step + 1
        \/ step = CdbLen /\ Asks /\ hp' = "param" /\ step' = 1
        \/ step = CdbLen /\ ~Asks /\ hp' = "stat"
    BY <2>1, RoundSizes
  <2>4. Sent' = Sent + 1 /\ Waiting'
    BY <1>2, <2>1, <2>3, RoundSizes DEF Sent, Waiting
  <2>5. QED
    BY <1>1, <1>5, <2>2, <2>4, WaitingStays
<1>10. CASE HostParamByte
  <2>1. /\ hp = "parambyte" /\ step \in Nat /\ step <= ParamLen /\ Asks
        /\ \E x : Enqueue(x)
        /\ hp' = IF step < ParamLen THEN "param" ELSE "stat"
        /\ step' = IF step < ParamLen THEN step + 1 ELSE 1
    BY <1>10 DEF HostParamByte, IsrWriteData, InStep, Observed, TypeOK, HostType
  <2>2. Len(queue') = n + 1
    BY <1>4, <2>1, Queued
  <2>3. Sent' = Sent + 1 /\ Waiting'
    BY <1>2, <2>1, RoundSizes DEF Sent, Waiting
  <2>4. QED
    BY <1>1, <1>5, <2>2, <2>3, WaitingStays
<1>11. QED
  BY <1>6, <1>7, <1>8, <1>9, <1>10

(* A new command. *)
LEMMA HostAsks ==
  ASSUME TypeOK, InStep', NEW c \in Command, HostBegin(c)
  PROVE  Port!Ask(c)
<1>1. hp = "start" /\ hp' = "addr" /\ issued' = Append(issued, c)
  BY DEF HostBegin
<1>2. Sent' = 3 /\ Len(queue') \in Nat
  <2>1. \E x : Enqueue(x)
    BY DEF HostBegin, IsrWriteControl
  <2>2. Len(queue') = Len(queue) + 1 /\ Len(queue) \in Nat
    BY <2>1, Queued
  <2>3. QED
    BY <1>1, <2>2 DEF Sent
<1>3. state = "idle"
  BY <1>1 DEF state
<1>4. state' = "asked"
  <2>1. Sent' - Len(queue') < Block
    BY <1>2, RoundSizes
  <2>2. QED
    BY <1>1, <2>1 DEF state, Block
<1>5. done = 0 /\ moving = <<>> /\ synced = FALSE /\ verdict = <<>>
  BY <1>3, AtRest DEF Still
<1>6. done' = 0 /\ moving' = <<>> /\ synced' = FALSE /\ verdict' = <<>>
  BY <1>4, AtRestNext DEF Still
<1>7. QED
  BY <1>1, <1>3, <1>4, <1>5, <1>6 DEF Port!Ask

(* The host sees the status phase, ... *)
LEMMA HostSees ==
  ASSUME TypeOK, InStep, HostPolled, Waiting, hp' = "readstat"
  PROVE  UNCHANGED Port!portVars
<1>1. UNCHANGED <<dma, pc, w, status, todo, issued>> /\ latch' = <<>> /\ latch # <<>>
  BY DEF HostPolled, IsrCommitStatus, workerVars
<1>2. hp = "stat" /\ latch[1] = StatusPhase
  BY DEF HostPolled, Polls, Expected, AfterPoll, Waiting
<1>3. latch = <<StatusPhase>>
  BY <1>1, <1>2 DEF TypeOK, HostType, LatchOK
<1>4. PICK e \in Nat : e = Sent
  BY <1>2, RoundSizes DEF Sent
<1>5. Round(e) /\ 6 < e /\ cache.stat = StatusPhase
  BY <1>2, <1>3, <1>4, RoundSizes DEF InStep, Observed, Sent
<1>6. e = Final /\ queue = <<>> /\ Answering
  BY <1>5, StatusSeen
<1>7. Made = Final /\ pc = "idle"
  BY <1>4, <1>6, RoundSizes, QueueSizes DEF Made, Answering
<1>8. state = "answered"
  BY <1>7, Staged, RoundSizes DEF Stage
<1>9. state' = "answered"
  BY <1>1 DEF state
<1>10. QED
  BY <1>1, <1>8, <1>9, SameCommand

(* ... hears the status byte ... *)
LEMMA HostHears ==
  ASSUME TypeOK, InStep, HostReadData, hp = "readstat"
  PROVE  Port!Hear
<1>1. UNCHANGED <<hp, dma, pc, w, status, todo, issued>> /\ latch = <<>> /\ latch' = <<ServeData>>
  BY DEF HostReadData, IsrFetchData, sharedVars, workerVars
<1>2. Silent(todo) /\ cache.stat = StatusPhase
  BY Staged DEF Stage
<1>3. ServeData = status
  BY <1>2 DEF ServeData, StatusPhase
<1>4. Unstored = {}
  BY <1>2 DEF Unstored, Silent, Only
<1>5. state = "answered" /\ state' = "heard"
  BY <1>1 DEF state
<1>6. verdict = <<status>> /\ verdict' = <<status>>
  BY <1>1, <1>3, <1>4, <1>5 DEF verdict
<1>7. QED
  BY <1>1, <1>5, <1>6, AtRest, AtRestNext DEF Still, Port!Hear

(* ... and accepts it, or gives the command up. *)
LEMMA HostEnds ==
  ASSUME HostAccept \/ HostTimeout
  PROVE  Port!Accept \/ Port!CutOff \/ UNCHANGED Port!portVars
<1>1. UNCHANGED <<dma, pc, w, status, todo, issued>>
  BY DEF HostAccept, HostTimeout, IsrCommitData, IsrCommitStatus, sharedVars, workerVars
<1>2. CASE HostAccept /\ hp = "readmsg"
  <2>1. hp' = "start"
    BY <1>2 DEF HostAccept
  <2>2. state = "idle" /\ state' = "idle"
    BY <1>2, <2>1 DEF state
  <2>3. QED
    BY <1>1, <2>2, SameCommand
<1>3. CASE HostAccept /\ hp = "readstat" /\ hp' = "msg"
  <2>1. state = "heard" /\ state' = "idle"
    BY <1>3 DEF HostAccept, state
  <2>2. Port!Accept
    BY <1>1, <2>1, AtRest, AtRestNext DEF Still, Port!Accept
  <2>3. QED
    BY <2>2
<1>4. CASE hp \notin {"reset", "unreset", "settle"} /\ hp' = "reset"
  <2>1. state # "cut" /\ state' = "cut"
    BY <1>4 DEF state
  <2>2. Port!CutOff
    BY <1>1, <2>1, AtRestNext DEF Still, Port!CutOff
  <2>3. QED
    BY <2>2
<1>5. QED
  BY <1>2, <1>3, <1>4 DEF HostAccept, HostTimeout, Polls, Expected

(* While nothing is asked, and during a reset, the host's steps are its own. *)
LEMMA HostIdles ==
  ASSUME \/ (HostPoll \/ HostPolled) /\ ~Waiting
         \/ HostReadData /\ hp = "readmsg"
         \/ HostReset \/ HostUnreset \/ HostSettled
  PROVE  Port!Settled \/ UNCHANGED Port!portVars
<1>1. UNCHANGED <<dma, pc, w, status, todo, issued>>
  BY DEF HostPoll, HostPolled, HostReadData, HostReset, HostUnreset, HostSettled, IsrFetchData,
         IsrCommitStatus, IsrWriteControl, sharedVars, workerVars
<1>2. CASE (HostPoll \/ HostPolled) /\ ~Waiting
  <2>1. hp = "msg" /\ hp' \in {"msg", "readmsg"}
    BY <1>2 DEF HostPoll, HostPolled, Polls, Expected, AfterPoll, Waiting
  <2>2. state = "idle" /\ state' = "idle"
    BY <2>1 DEF state
  <2>3. QED
    BY <1>1, <2>2, SameCommand
<1>3. CASE HostReadData /\ hp = "readmsg"
  <2>1. state = "idle" /\ state' = "idle"
    BY <1>3 DEF HostReadData, state
  <2>2. QED
    BY <1>1, <2>1, SameCommand
<1>4. CASE HostReset \/ HostUnreset
  <2>1. state = "cut" /\ state' = "cut"
    BY <1>4 DEF HostReset, HostUnreset, state
  <2>2. QED
    BY <1>1, <2>1, SameCommand
<1>5. CASE HostSettled
  <2>1. state = "cut" /\ state' = "idle"
    BY <1>5 DEF HostSettled, state
  <2>2. Port!Settled
    BY <1>1, <2>1, AtRest, AtRestNext DEF Still, Port!Settled
  <2>3. QED
    BY <2>2
<1>6. QED
  BY <1>2, <1>3, <1>4, <1>5

(* The worker's steps.  A store moves the status byte on its way, if anything. *)
LEMMA StoreMovesVerdict ==
  ASSUME TypeOK, WorkerStore, OneVerdict
  PROVE  UNCHANGED Port!portVars
<1>1. /\ UNCHANGED <<queue, dma, pc, hp, latch, step, issued>>
      /\ w'.block = w.block /\ w'.synced = w.synced /\ w'.loc = w.loc
      /\ todo # <<>>
      /\ status' = IF todo[1][1] = "status" THEN todo[1][2] ELSE status
  BY StoreFrame
<1>2. Sent' = Sent
  BY <1>1 DEF Sent, Final, Asks, Mine, Current
<1>3. state' = state
  BY <1>1, <1>2 DEF state, Block, StatusPhase
<1>4. done' = done /\ moving' = moving /\ synced' = synced
  BY <1>1, <1>3 DEF done, Sector, moving, synced
<1>5. PICK x : Reports(todo, x) /\ Reports(todo', x)
  BY StoreReports DEF OneVerdict
<1>6. Unstored \in {{}, {x}} /\ Unstored' \in {{}, {x}}
  BY <1>5 DEF Unstored, Reports
<1>7. Len(todo) \in Nat /\ Len(todo) > 0 /\ Len(todo') \in Nat /\ Remains(todo, todo')
  BY StoreRemains
<1>8. ASSUME todo[1][1] = "status" PROVE verdict' = verdict
  <2>1. status' = x
    BY <1>1, <1>5, <1>7, <1>8 DEF Reports
  <2>2. x \in Unstored
    <3>1. 1 \in 1 .. Len(todo) /\ todo[1][2] = x
      BY <1>5, <1>7, <1>8 DEF Reports
    <3>2. QED
      BY <1>8, <3>1 DEF Unstored
  <2>3. Unstored = {x}
    BY <1>6, <2>2
  <2>4. (CHOOSE y \in {x} : TRUE) = x
    OBVIOUS
  <2>5. (IF Unstored = {} THEN status ELSE CHOOSE y \in Unstored : TRUE) = x
    BY <2>3, <2>4
  <2>6. (IF Unstored' = {} THEN status' ELSE CHOOSE y \in Unstored' : TRUE) = x
    BY <1>6, <2>1, <2>4
  <2>7. QED
    BY <1>1, <1>3, <2>5, <2>6 DEF verdict
<1>9. ASSUME todo[1][1] # "status" PROVE verdict' = verdict
  <2>1. status' = status
    BY <1>1, <1>9
  <2>2. Unstored # {} => Unstored' # {}
    <3>1. SUFFICES ASSUME NEW i \in 1 .. Len(todo), todo[i][1] = "status"
                   PROVE  \E j \in 1 .. Len(todo') : todo'[j][1] = "status"
      BY DEF Unstored
    <3>2. i # 1
      BY <1>9, <3>1
    <3>3. CASE Len(todo') = Len(todo) - 1 /\ \A j \in 1 .. Len(todo') : todo'[j] = todo[j + 1]
      <4>1. i - 1 \in 1 .. Len(todo') /\ todo'[i - 1] = todo[i]
        BY <1>7, <3>2, <3>3
      <4>2. QED
        BY <3>1, <4>1
    <3>4. CASE Len(todo') = Len(todo) /\ \A j \in 2 .. Len(todo') : todo'[j] = todo[j]
      <4>1. i \in 1 .. Len(todo') /\ todo'[i] = todo[i]
        BY <1>7, <3>2, <3>4
      <4>2. QED
        BY <3>1, <4>1
    <3>5. QED
      BY <1>7, <3>3, <3>4 DEF Remains
  <2>3. Unstored' # {} => Unstored # {}
    <3>1. SUFFICES ASSUME NEW i \in 1 .. Len(todo'), todo'[i][1] = "status"
                   PROVE  \E j \in 1 .. Len(todo) : todo[j][1] = "status"
      BY DEF Unstored
    <3>2. CASE Len(todo') = Len(todo) - 1 /\ \A j \in 1 .. Len(todo') : todo'[j] = todo[j + 1]
      <4>1. i + 1 \in 1 .. Len(todo) /\ todo'[i] = todo[i + 1]
        BY <1>7, <3>2
      <4>2. QED
        BY <3>1, <4>1
    <3>3. CASE /\ Len(todo') = Len(todo) /\ todo'[1][1] = "line"
               /\ \A j \in 2 .. Len(todo') : todo'[j] = todo[j]
      <4>1. i # 1
        BY <3>1, <3>3
      <4>2. i \in 1 .. Len(todo) /\ todo'[i] = todo[i]
        BY <1>7, <3>3, <4>1
      <4>3. QED
        BY <3>1, <4>2
    <3>4. QED
      BY <1>7, <3>2, <3>3 DEF Remains
  <2>4. Unstored' = Unstored
    BY <1>6, <2>2, <2>3
  <2>5. PICK U : U = Unstored /\ U = Unstored'
    BY <2>4
  <2>6. PICK y : y = CHOOSE z \in U : TRUE
    OBVIOUS
  <2>7. (CHOOSE z \in Unstored : TRUE) = y /\ (CHOOSE z \in Unstored' : TRUE) = y
    BY <2>5, <2>6, Zenon
  <2>8. QED
    BY <1>1, <1>3, <2>1, <2>4, <2>7 DEF verdict
<1>10. QED
  BY <1>1, <1>4, <1>3, <1>8, <1>9 DEF Port!portVars

(* An answered command has the verdict the invariant speaks of. *)
Judged ==
  Answering /\ state = "answered" => \E x \in StatusByte : verdict = <<x>> /\ RightVerdict(x)

LEMMA Judges == TypeOK => Judged
<1> SUFFICES ASSUME TypeOK, Answering, state = "answered"
             PROVE  \E x \in StatusByte : verdict = <<x>> /\ RightVerdict(x)
  BY DEF Judged
<1>1. CASE Unstored = {}
  <2>1. \A i \in 1 .. Len(todo) : todo[i][1] # "status"
    BY <1>1 DEF Unstored
  <2>2. RightVerdict(status) /\ status \in StatusByte
    BY <2>1 DEF Answering, TypeOK, SharedType
  <2>3. verdict = <<status>>
    BY <1>1 DEF verdict
  <2>4. QED
    BY <2>2, <2>3
<1>2. CASE Unstored # {}
  <2>1. PICK x : x = CHOOSE y \in Unstored : TRUE
    OBVIOUS
  <2>2. x \in Unstored
    BY <1>2, <2>1
  <2>3. PICK i \in 1 .. Len(todo) : todo[i][1] = "status" /\ x = todo[i][2]
    BY <2>2 DEF Unstored
  <2>4. todo[i] \in StoreSet
    BY DEF TypeOK, WorkerType
  <2>5. x \in StatusByte
    BY <2>3, <2>4 DEF StoreSet
  <2>6. RightVerdict(x)
    BY <2>3 DEF Answering
  <2>7. verdict = <<x>>
    BY <1>2, <2>1 DEF verdict
  <2>8. QED
    BY <2>5, <2>6, <2>7
<1>3. QED
  BY <1>1, <1>2

LEMMA JudgesNext ==
  ASSUME TypeOK'
  PROVE  Judged'
BY Judges, PTL

(* A command that ends is answered with that verdict. *)
LEMMA Answers ==
  ASSUME TypeOK', InStep', issued' = issued, state = "running", state' = "answered",
         Waiting', pc' = "idle", Executed' => Port!Fulfilled
  PROVE  \E good \in BOOLEAN : Port!Answer(good)
<1>1. Answering'
  BY StagedNext DEF Stage
<1>2. PICK x \in StatusByte : verdict' = <<x>> /\ x.id = Current' /\ (x.good => Executed')
  BY <1>1, JudgesNext DEF Judged, RightVerdict
<1>3. x = [id |-> Port!Current, good |-> x.good] /\ x.good \in BOOLEAN
  BY <1>2 DEF StatusByte, Current, Port!Current
<1>4. Port!Answer(x.good)
  BY <1>2, <1>3, AtRestNext DEF Still, Port!Answer
<1>5. QED
  BY <1>3, <1>4

(* What the worker takes of the round: the last byte of the block starts the command,
   a parameter byte is one more, the last one answers it. *)
LEMMA TakeServes ==
  ASSUME TypeOK, TypeOK', InStep, InStep', WorkerTake
  PROVE  Port!Next \/ UNCHANGED Port!portVars
<1>1. /\ pc = "idle" /\ todo = <<>> /\ UNCHANGED <<hp, latch, step, issued, status>>
      /\ Len(queue) \in Nat /\ Len(queue) > 0 /\ Len(queue') = Len(queue) - 1
  BY TakeFrame
<1>2. Sent' = Sent /\ Mine' = Mine /\ Final' = Final /\ (Asks' <=> Asks) /\ (Waiting' <=> Waiting)
      /\ Block' = Block
  BY <1>1 DEF Sent, Final, Asks, Mine, Current, Waiting, Block
<1>3. Stage /\ Stage' /\ Still /\ Still'
  BY Staged, StagedNext, AtRest, AtRestNext
<1>4. ASSUME state' = state, state \notin {"running", "answered", "heard"}
      PROVE  UNCHANGED Port!portVars
  BY <1>1, <1>3, <1>4 DEF Still, Port!portVars
<1>5. CASE ~Waiting
  <2>1. hp # "readstat"
    <3>1. queue # <<>>
      BY <1>1
    <3>2. QED
      BY <1>3, <3>1 DEF Stage
  <2>2. state' = state /\ state \in {"cut", "idle"}
    BY <1>1, <1>5, <2>1 DEF state, Waiting
  <2>3. QED
    BY <1>4, <2>2
<1>6. CASE Waiting
  <2>1. PICK m \in Nat : m = Made
    BY <1>3, <1>6 DEF Stage
  <2>2. /\ Made' = m + 1 /\ m < Final
        /\ Final \in Nat /\ Block \in Nat /\ Block > 6 /\ Block <= Final
    <3>1. PICK q \in Nat : q = Len(queue)
      BY <1>1
    <3>2. PICK e \in Nat : e = Sent
      BY <1>3, <1>6 DEF Stage
    <3>3. m = e - q /\ e <= Final /\ q > 0 /\ Len(queue') = q - 1
      BY <1>1, <1>3, <1>6, <2>1, <3>1, <3>2 DEF Made, Stage
    <3>4. Made' = e - (q - 1)
      BY <1>2, <3>2, <3>3 DEF Made
    <3>5. QED
      BY <3>3, <3>4, RoundSizes
  <2>3. CASE m + 1 < Block
    <3>1. state = "asked"
      BY <1>1, <1>3, <1>6, <2>1, <2>2, <2>3 DEF Stage
    <3>2. state' = "asked"
      BY <1>2, <1>3, <1>6, <2>2, <2>3 DEF Stage
    <3>3. QED
      BY <1>4, <3>1, <3>2
  <2>4. CASE m + 1 = Block
    <3>1. state = "asked"
      BY <1>1, <1>3, <1>6, <2>1, <2>2, <2>4 DEF Stage
    <3>2. pc' = "route"
      <4>1. PICK e \in Nat : e = Sent
        BY <1>3, <1>6 DEF Stage
      <4>2. Round(e) /\ m = e - Len(queue)
        BY <1>6, <2>1, <4>1 DEF InStep, Waiting, Made
      <4>3. 6 <= m /\ m < Block
        BY <2>2, <2>4
      <4>4. QED
        BY <2>4, <4>2, <4>3, TakeBlock
    <3>3. state' = "running"
      BY <1>2, <1>3, <1>6, <3>2 DEF Stage
    <3>4. done' = 0 /\ moving' = <<>> /\ synced' = FALSE
      BY <3>2 DEF done, Sector, moving, synced
    <3>5. Port!Start
      BY <1>1, <1>3, <3>1, <3>3, <3>4 DEF Still, Port!Start
    <3>6. QED
      BY <3>5 DEF Port!Next
  <2>5. CASE Block <= m
    <3>1. state = "running" /\ Asks /\ dma.dataOut = Final - m
      BY <1>1, <1>3, <1>6, <2>1, <2>2, <2>5 DEF Stage
    <3>2. pc' = "idle"
      BY <1>2, <1>3, <1>6, <2>2, <2>5 DEF Stage
    <3>3. Final = Block + ParamLen /\ ParamLen \in Nat
      BY <3>1, RoundSizes
    <3>4. done = m - Block /\ moving = <<>> /\ synced = FALSE
      <4>1. done = ParamLen - dma.dataOut
        BY <1>1, <3>1 DEF done, Sector
      <4>2. moving = <<>> /\ synced = FALSE
        BY <1>1 DEF moving, synced
      <4>3. QED
        BY <2>2, <3>1, <3>3, <4>1, <4>2
    <3>5. Port!Mine.op = "PARAMS" /\ ~Port!Mine.dma
      BY <3>1 DEF Asks, Mine, Current, Port!Mine, Port!Current
    <3>6. CASE m + 1 < Final
      <4>1. state' = "running" /\ dma'.dataOut = Final - (m + 1)
        BY <1>2, <1>3, <1>6, <2>2, <2>5, <3>2, <3>6 DEF Stage
      <4>2. done' = ParamLen - dma'.dataOut /\ moving' = <<>> /\ synced' = FALSE
        BY <3>2, <4>1 DEF done, Sector, moving, synced
      <4>3. done' = done + 1 /\ done + 1 < ParamLen
        BY <2>2, <3>3, <3>4, <3>6, <4>1, <4>2
      <4>4. Port!TakeParameter
        BY <1>1, <1>3, <3>1, <3>4, <3>5, <4>1, <4>2, <4>3 DEF Still, Port!TakeParameter
      <4>5. QED
        BY <4>4 DEF Port!Next
    <3>7. CASE m + 1 = Final
      <4>1. state' = "answered"
        BY <1>2, <1>3, <1>6, <2>2, <2>5, <3>2, <3>7 DEF Stage
      <4>2. done + 1 = ParamLen
        BY <2>2, <3>3, <3>4, <3>7
      <4>3. Port!Fulfilled
        BY <3>5, <4>2 DEF Port!Fulfilled
      <4>4. \E good \in BOOLEAN : Port!Answer(good)
        BY <1>1, <1>2, <1>6, <3>1, <3>2, <4>1, <4>3, Answers
      <4>5. QED
        BY <4>4 DEF Port!Next
    <3>8. QED
      BY <2>2, <3>6, <3>7
  <2>6. QED
    BY <2>2, <2>3, <2>4, <2>5
<1>7. QED
  BY <1>5, <1>6

(* The handlers' steps.  What the mapping reads in a handler, and after its step: ... *)
Does(s, d, m, y) ==
  /\ state = s /\ done = d /\ moving = m
  /\ synced = y /\ verdict = <<>>
Touching == {"transfer", "store", "bursting"}
HandlerDoes ==
  Waiting /\ pc # "idle" =>
    Does("running", IF pc \in Sector THEN w.block ELSE 0,
         IF pc \in Touching THEN <<[target |-> Mine.target, address |-> w.loc]>> ELSE <<>>,
         IF pc = "finish" THEN w.synced ELSE FALSE)

LEMMA Doing == TypeOK /\ InStep => HandlerDoes
<1> SUFFICES ASSUME TypeOK, InStep, Waiting, pc # "idle" PROVE HandlerDoes
  BY DEF HandlerDoes
<1>1. state = "running" /\ dma.target = Mine.target
  BY Staged DEF Stage, InStep, Handling
<1>2. verdict = <<>>
  BY <1>1, AtRest DEF Still
<1>3. done = IF pc \in Sector THEN w.block ELSE 0
  BY <1>1 DEF done
<1>4. moving = IF pc \in Touching THEN <<[target |-> Mine.target, address |-> w.loc]>> ELSE <<>>
  BY <1>1 DEF moving, Touching
<1>5. synced = IF pc = "finish" THEN w.synced ELSE FALSE
  <2>1. w.synced \in BOOLEAN
    BY DEF TypeOK, WorkerType, LocalsType
  <2>2. CASE pc = "finish"
    <3>1. synced <=> w.synced
      BY <1>1, <2>2 DEF synced
    <3>2. synced \in BOOLEAN
      BY DEF synced
    <3>3. QED
      BY <2>1, <2>2, <3>1, <3>2
  <2>3. CASE pc # "finish"
    BY <2>3 DEF synced
  <2>4. QED
    BY <2>2, <2>3
<1>6. QED
  BY <1>1, <1>2, <1>3, <1>4, <1>5 DEF HandlerDoes, Does

LEMMA DoingNext ==
  ASSUME TypeOK', InStep'
  PROVE  HandlerDoes'
BY Doing, PTL

(* ... the command runs on, asks for its parameters, or is answered. *)
LEMMA HandlerView ==
  ASSUME TypeOK, TypeOK', InStep, InStep', Handler, Waiting
  PROVE  /\ pc # "idle" /\ todo = <<>> /\ Handling /\ HandlerDoes
         /\ UNCHANGED <<hp, queue, issued, resetReq>>
         /\ queue = <<>> /\ dma.dmaEnabled = Mine.dma
         /\ Running = Mine /\ Mine' = Mine /\ Current' = Current /\ Waiting'
         /\ Port!Mine = Mine /\ Port!Current = Current /\ Mine \in Command
         /\ pc \in {"burst", "bursting"} => ~Asks
         /\ HandlerDoes'
         /\ pc' = "idle" /\ ~Asks => state' = "answered"
         /\ pc' = "idle" /\ Asks => Does("running", 0, <<>>, FALSE)'
<1>1. pc # "idle"
  BY DEF Handler, Route, Burst, BurstDone, Snapshot, SectorBegin, FetchSector, Transfer, StoreSector, CheckReset,
         Sync, Finish, WorkerAt
<1>2. Handling
  BY <1>1 DEF InStep
<1>3. /\ todo = <<>> /\ UNCHANGED <<hp, queue, issued, resetReq, step>>
      /\ Running = Mine /\ Mine' = Mine /\ Current' = Current
  BY <1>2, HandlerFrameAll
<1>4. PICK e \in Nat : e = Sent
  BY Staged DEF Stage
<1>5. Round(e)
  BY <1>4 DEF InStep, Waiting
<1>6. queue = <<>> /\ dma.dmaEnabled = Mine.dma
  BY <1>2, <1>5, HandlerRound
<1>7. Waiting' /\ Sent' = Sent /\ (Asks' <=> Asks) /\ Final' = Final /\ Block' = Block
  BY <1>3 DEF Waiting, Sent, Final, Asks, Block
<1>8. Made = Block /\ (pc \in {"burst", "bursting"} => ~Asks)
  BY <1>1, Staged DEF Stage
<1>9. Made' = Block
  BY <1>3, <1>7, <1>8 DEF Made
<1>10. Port!Mine = Mine /\ Port!Current = Current /\ Mine \in Command
  <2>1. Port!Mine = Mine /\ Port!Current = Current
    BY DEF Port!Mine, Port!Current, Mine, Current
  <2>2. Mine \in Command
    BY <1>2 DEF Handling, Mine, Current, TypeOK, HostType
  <2>3. QED
    BY <2>1, <2>2
<1>11. ASSUME pc' = "idle", ~Asks PROVE state' = "answered"
  BY <1>7, <1>9, <1>11, StagedNext, RoundSizes DEF Stage
<1>12. ASSUME pc' = "idle", Asks PROVE Does("running", 0, <<>>, FALSE)'
  <2>1. Final = Block + ParamLen /\ ParamLen \in Nat /\ ParamLen > 0 /\ Block \in Nat
    BY <1>12, RoundSizes
  <2>2. state' = "running" /\ dma'.dataOut = Final - Block
    BY <1>7, <1>9, <1>12, <2>1, StagedNext DEF Stage
  <2>3. done' = ParamLen - dma'.dataOut
    BY <1>12, <2>2 DEF done, Sector
  <2>4. done' = 0
    BY <2>1, <2>2, <2>3
  <2>5. moving' = <<>> /\ synced' = FALSE
    BY <1>12 DEF moving, synced
  <2>6. verdict' = <<>>
    BY <2>2, AtRestNext DEF Still
  <2>7. QED
    BY <2>2, <2>4, <2>5, <2>6 DEF Does
<1>13. HandlerDoes /\ HandlerDoes'
  BY Doing, DoingNext
<1>14. QED
  BY <1>1, <1>2, <1>3, <1>6, <1>7, <1>8, <1>10, <1>11, <1>12, <1>13

(* A handler's phases: what it reports of the command while it runs. *)
LEMMA RouteServes ==
  ASSUME TypeOK, TypeOK', InStep, InStep', Route, Waiting
  PROVE  Port!Next \/ UNCHANGED Port!portVars
<1>1. Handler
  BY DEF Handler
<1>2. /\ HandlerDoes /\ HandlerDoes' /\ Waiting' /\ issued' = issued
      /\ Running = Mine /\ Mine' = Mine /\ Port!Mine = Mine
      /\ dma.dmaEnabled = Mine.dma
      /\ pc' = "idle" /\ ~Asks => state' = "answered"
      /\ pc' = "idle" /\ Asks => Does("running", 0, <<>>, FALSE)'
  BY <1>1, HandlerView
<1>3. pc = "route"
  BY DEF Route, WorkerAt
<1>4. Does("running", 0, <<>>, FALSE)
  BY <1>2, <1>3 DEF HandlerDoes, Sector, Touching
<1>5. \/ pc' = "idle" /\ Running.op = "NONE"
      \/ pc' \in {"snapshot", "burst"}
      \/ pc' = "idle" /\ Running.op = "PARAMS" /\ ~dma.dmaEnabled
  BY DEF Route, Complete, Phase
<1>6. CASE pc' = "idle" /\ Running.op = "NONE"
  <2>1. state' = "answered"
    BY <1>2, <1>6 DEF Asks
  <2>2. Port!Fulfilled
    BY <1>2, <1>6 DEF Port!Fulfilled
  <2>3. \E good \in BOOLEAN : Port!Answer(good)
    BY <1>2, <1>4, <1>6, <2>1, <2>2, Answers DEF Does
  <2>4. QED
    BY <2>3 DEF Port!Next
<1>7. CASE Does("running", 0, <<>>, FALSE)'
  BY <1>2, <1>4, <1>7 DEF Does, Port!portVars
<1>8. CASE pc' \in {"snapshot", "burst"}
  <2>1. Does("running", 0, <<>>, FALSE)'
    BY <1>2, <1>8 DEF HandlerDoes, Sector, Touching
  <2>2. QED
    BY <1>7, <2>1
<1>9. CASE pc' = "idle" /\ Running.op = "PARAMS" /\ ~dma.dmaEnabled
  <2>1. Asks
    BY <1>2, <1>9 DEF Asks
  <2>2. QED
    BY <1>2, <1>7, <1>9, <2>1
<1>10. QED
  BY <1>5, <1>6, <1>8, <1>9

LEMMA BurstServes ==
  ASSUME TypeOK, TypeOK', InStep, InStep', Burst, Waiting
  PROVE  Port!Next
<1>1. Handler
  BY DEF Handler
<1>2. /\ Handling /\ HandlerDoes /\ HandlerDoes' /\ Waiting' /\ issued' = issued
      /\ Mine' = Mine /\ Port!Mine = Mine /\ Port!Current = Current /\ Mine \in Command
      /\ (pc \in {"burst", "bursting"} => ~Asks)
  BY <1>1, HandlerView
<1>3. pc = "burst" /\ pc' = "bursting"
  BY DEF Burst, WorkerAt
<1>4. w'.loc = Programmed(Current, 0)
  <2>1. w'.loc = addr
    BY DEF Burst, TypeOK, WorkerType, LocalsType
  <2>2. QED
    BY <1>2, <1>3, <2>1 DEF Handling
<1>5. Mine.op \notin {"NONE", "READ", "WRITE"} /\ ~Asks
  BY <1>2, <1>3 DEF Handling
<1>6. Mine.dma
  BY <1>2, <1>5 DEF Asks, Command
<1>7. Does("running", 0, <<>>, FALSE)
  BY <1>2, <1>3 DEF HandlerDoes, Sector, Touching
<1>8. /\ state' = "running" /\ done' = 0 /\ synced' = FALSE /\ verdict' = <<>>
      /\ moving' = <<[target |-> Mine.target, address |-> Programmed(Current, 0)]>>
  <2>1. (<<[target |-> Mine.target, address |-> w.loc]>>)' =
          <<[target |-> Mine.target, address |-> Programmed(Current, 0)]>>
    BY <1>2, <1>4
  <2>2. QED
    BY <1>2, <1>3, <2>1 DEF HandlerDoes, Does, Sector, Touching
<1>9. Port!BeginTransfer
  <2>1. state = "running" /\ done = 0 /\ moving = <<>> /\ synced = FALSE /\ verdict = <<>>
    BY <1>7 DEF Does
  <2>2. moving' = <<[target |-> Port!Mine.target, address |-> Programmed(Port!Current, done)]>>
    BY <1>2, <1>8, <2>1
  <2>3. ~Port!Sectors /\ Port!Mine.dma
    BY <1>2, <1>5, <1>6 DEF Port!Sectors
  <2>4. QED
    BY <1>2, <1>8, <2>1, <2>2, <2>3 DEF Port!BeginTransfer
<1>10. QED
  BY <1>9 DEF Port!Next

LEMMA BurstDoneServes ==
  ASSUME TypeOK, TypeOK', InStep, InStep', BurstDone, Waiting
  PROVE  Port!Next
<1>1. Handler
  BY DEF Handler
<1>2. /\ Handling /\ HandlerDoes /\ Waiting' /\ issued' = issued
      /\ Port!Mine = Mine /\ Mine \in Command
      /\ (pc \in {"burst", "bursting"} => ~Asks)
      /\ pc' = "idle" /\ ~Asks => state' = "answered"
  BY <1>1, HandlerView
<1>3. pc = "bursting" /\ pc' = "idle"
  BY DEF BurstDone, WorkerAt, Complete
<1>4. Mine.op \notin {"NONE", "READ", "WRITE"} /\ ~Asks
  BY <1>2, <1>3 DEF Handling
<1>5. state = "running" /\ moving # <<>>
  <2>1. moving = <<[target |-> Mine.target, address |-> w.loc]>> /\ state = "running"
    BY <1>2, <1>3 DEF HandlerDoes, Does, Touching
  <2>2. Len(moving) = 1
    BY <2>1
  <2>3. QED
    BY <2>1, <2>2
<1>6. Port!Fulfilled
  BY <1>2, <1>4, <1>5 DEF Port!Fulfilled, Asks
<1>7. \E good \in BOOLEAN : Port!Answer(good)
  BY <1>2, <1>3, <1>4, <1>5, <1>6, Answers
<1>8. QED
  BY <1>7 DEF Port!Next

(* A handler is cut short by a reset only after the host has stopped waiting. *)
LEMMA NotReset ==
  ASSUME ResetFlagBacked, InStep, Handling, queue = <<>>
  PROVE  ~resetReq
<1>1. ~ResetQueued
  BY DEF ResetQueued
<1>2. ~ResetUnderWay
  BY DEF ResetUnderWay, Handling, Only
<1>3. ~drops
  BY DEF InStep
<1>4. QED
  BY <1>1, <1>2, <1>3 DEF ResetFlagBacked

(* The sector loop. *)
LEMMA SectorBeginServes ==
  ASSUME TypeOK, TypeOK', InStep, InStep', SectorBegin \/ FetchSector, Waiting
  PROVE  Port!Next \/ UNCHANGED Port!portVars
<1>1. Handler
  BY DEF Handler
<1>2. /\ Handling /\ HandlerDoes /\ HandlerDoes' /\ Waiting' /\ issued' = issued
      /\ Running = Mine /\ Mine' = Mine /\ Port!Mine = Mine /\ Port!Current = Current
      /\ dma.dmaEnabled = Mine.dma /\ Mine \in Command
  BY <1>1, HandlerView
<1>3. pc \in {"loop", "fetch"} /\ w \in LocalsType
  BY DEF SectorBegin, FetchSector, WorkerAt, TypeOK, WorkerType
<1>4. w.loc = Programmed(Current, w.block) /\ Mine.op \in {"READ", "WRITE"}
  BY <1>2, <1>3 DEF Handling
<1>5. Does("running", w.block, <<>>, FALSE)
  BY <1>2, <1>3 DEF HandlerDoes, Sector, Touching
<1>6. /\ w'.block = w.block /\ w'.loc = w.loc
      /\ \/ pc' \in {"check", "fetch"}
         \/ pc' = "transfer" /\ w.block < Running.blocks
  <2>1. \/ w' = w
        \/ w' = [w EXCEPT !.ok = FALSE]
        \/ w' = [w EXCEPT !.try = 1]
    BY DEF SectorBegin, FetchSector, Fail
  <2>2. w'.block = w.block /\ w'.loc = w.loc
    BY <1>3, <2>1 DEF LocalsType
  <2>3. QED
    BY <1>2, <2>2 DEF SectorBegin, FetchSector, WorkerAt, Handling, Fail, Phase
<1>7. CASE pc' \in {"check", "fetch"}
  <2>1. Does("running", w.block, <<>>, FALSE)'
    BY <1>2, <1>6, <1>7 DEF HandlerDoes, Sector, Touching
  <2>2. QED
    BY <1>2, <1>5, <1>6, <2>1 DEF Does, Port!portVars
<1>8. CASE pc' = "transfer" /\ w.block < Running.blocks
  <2>1. (<<[target |-> Mine.target, address |-> w.loc]>>)' =
          <<[target |-> Mine.target, address |-> Programmed(Current, w.block)]>>
    BY <1>2, <1>4, <1>6
  <2>2. /\ state' = "running" /\ done' = w.block /\ synced' = FALSE /\ verdict' = <<>>
        /\ moving' = <<[target |-> Mine.target, address |-> Programmed(Current, w.block)]>>
    BY <1>2, <1>6, <1>8, <2>1 DEF HandlerDoes, Does, Sector, Touching
  <2>3. Mine.dma
    BY <1>2, <1>4 DEF Command
  <2>4. Port!BeginTransfer
    BY <1>2, <1>5, <1>8, <2>2, <2>3 DEF Does, Port!BeginTransfer
  <2>5. QED
    BY <2>4 DEF Port!Next
<1>9. QED
  BY <1>6, <1>7, <1>8

(* The end of an attempt: the sector counts, or the command has failed. *)
LEMMA SectorLeaves ==
  ASSUME TypeOK, TypeOK', InStep, InStep', Handler, Waiting,
         pc \in {"transfer", "store"}, pc' \in {"loop", "check"},
         w'.block \in {w.block, w.block + 1}
  PROVE  Port!Next
<1>1. /\ Handling /\ HandlerDoes /\ HandlerDoes' /\ Waiting' /\ issued' = issued
      /\ Port!Mine = Mine
  BY HandlerView
<1>2. Port!Sectors
  BY <1>1 DEF Handling, Port!Sectors
<1>3. state = "running" /\ done = w.block /\ moving # <<>> /\ synced = FALSE /\ verdict = <<>>
  <2>1. pc \in Touching /\ pc \in Sector /\ pc # "finish" /\ pc # "idle"
    BY DEF Touching, Sector
  <2>2. /\ state = "running" /\ done = w.block /\ synced = FALSE /\ verdict = <<>>
        /\ moving = <<[target |-> Mine.target, address |-> w.loc]>>
    BY <1>1, <2>1 DEF HandlerDoes, Does
  <2>3. Len(moving) = 1
    BY <2>2
  <2>4. QED
    BY <2>2, <2>3
<1>4. /\ state' = "running" /\ done' = w'.block /\ moving' = <<>> /\ synced' = FALSE
      /\ verdict' = <<>>
  <2>1. pc' \notin Touching /\ pc' # "finish" /\ pc' # "idle" /\ pc' \in Sector
    BY DEF Touching, Sector
  <2>2. QED
    BY <1>1, <2>1 DEF HandlerDoes, Does, Sector, Touching
<1>5. Port!EndTransfer
  BY <1>1, <1>2, <1>3, <1>4 DEF Port!EndTransfer
<1>6. QED
  BY <1>5 DEF Port!Next

LEMMA TransferServes ==
  ASSUME TypeOK, TypeOK', InStep, InStep', Transfer, Waiting
  PROVE  Port!Next \/ UNCHANGED Port!portVars
<1>1. Handler
  BY DEF Handler
<1>2. /\ HandlerDoes /\ HandlerDoes' /\ Waiting' /\ issued' = issued /\ Mine' = Mine
  BY <1>1, HandlerView
<1>3. pc = "transfer" /\ w \in LocalsType
  BY DEF Transfer, WorkerAt, TypeOK, WorkerType
<1>4. \/ pc' \in {"loop", "check"} /\ w'.block \in {w.block, w.block + 1}
      \/ pc' \in {"transfer", "store"} /\ w'.block = w.block /\ w'.loc = w.loc
  <2>1. CASE SectorEnd /\ w' = Advanced
    <3>1. w'.block = w.block + 1
      BY <1>3, <2>1 DEF Advanced, LocalsType
    <3>2. pc' = "loop"
      BY <2>1 DEF SectorEnd, Phase
    <3>3. QED
      BY <3>1, <3>2
  <2>2. CASE pc' = "store" /\ w' = w
    BY <2>2
  <2>3. CASE w' = [w EXCEPT !.try = @ + 1] /\ pc' = pc
    BY <1>3, <2>3 DEF LocalsType
  <2>4. CASE Fail
    BY <1>3, <2>4 DEF Fail, LocalsType
  <2>5. QED
    BY <2>1, <2>2, <2>3, <2>4 DEF Transfer
<1>5. CASE pc' \in {"loop", "check"} /\ w'.block \in {w.block, w.block + 1}
  BY <1>1, <1>3, <1>5, SectorLeaves
<1>6. CASE pc' \in {"transfer", "store"} /\ w'.block = w.block /\ w'.loc = w.loc
  <2>1. (<<[target |-> Mine.target, address |-> w.loc]>>)' =
          <<[target |-> Mine.target, address |-> w.loc]>>
    BY <1>2, <1>6
  <2>2. Does("running", w.block, <<[target |-> Mine.target, address |-> w.loc]>>, FALSE)
    BY <1>2, <1>3 DEF HandlerDoes, Sector, Touching
  <2>3. Does("running", w.block, <<[target |-> Mine.target, address |-> w.loc]>>, FALSE)'
    BY <1>2, <1>6 DEF HandlerDoes, Sector, Touching
  <2>4. QED
    BY <1>2, <1>6, <2>1, <2>2, <2>3 DEF Does, Port!portVars
<1>7. QED
  BY <1>4, <1>5, <1>6

LEMMA StoreSectorServes ==
  ASSUME TypeOK, TypeOK', InStep, InStep', StoreSector, Waiting
  PROVE  Port!Next
<1>1. Handler
  BY DEF Handler
<1>2. pc = "store" /\ w \in LocalsType
  BY DEF StoreSector, WorkerAt, TypeOK, WorkerType
<1>3. CASE SectorEnd /\ w' = [Advanced EXCEPT !.wrote = TRUE]
  <2>1. w'.block = w.block + 1
    BY <1>2, <1>3 DEF Advanced, LocalsType
  <2>2. pc' = "loop"
    BY <1>3 DEF SectorEnd, Phase
  <2>3. QED
    BY <1>1, <1>2, <2>1, <2>2, SectorLeaves
<1>4. CASE Fail
  <2>1. pc' = "check" /\ w'.block = w.block
    BY <1>2, <1>4 DEF Fail, LocalsType
  <2>2. QED
    BY <1>1, <1>2, <2>1, SectorLeaves
<1>5. QED
  BY <1>3, <1>4 DEF StoreSector

(* After the loop. *)
LEMMA CheckResetServes ==
  ASSUME TypeOK, TypeOK', ResetFlagBacked, InStep, InStep', CheckReset, Waiting
  PROVE  UNCHANGED Port!portVars
<1>1. Handler
  BY DEF Handler
<1>2. /\ Handling /\ HandlerDoes /\ HandlerDoes' /\ Waiting' /\ issued' = issued
      /\ queue = <<>>
  BY <1>1, HandlerView
<1>3. pc = "check" /\ w' = w
  BY DEF CheckReset, WorkerAt
<1>4. pc' \in {"sync", "finish"}
  BY <1>2, NotReset DEF CheckReset
<1>5. ~w.synced /\ w.synced \in BOOLEAN
  BY <1>2, <1>3 DEF Handling, TypeOK, WorkerType, LocalsType
<1>6. Does("running", w.block, <<>>, FALSE)
  BY <1>2, <1>3 DEF HandlerDoes, Sector, Touching
<1>7. Does("running", w.block, <<>>, FALSE)'
  <2>1. w'.synced = FALSE
    BY <1>3, <1>5
  <2>2. QED
    BY <1>2, <1>3, <1>4, <2>1 DEF HandlerDoes, Sector, Touching
<1>8. QED
  BY <1>2, <1>3, <1>6, <1>7 DEF Does, Port!portVars

LEMMA SyncServes ==
  ASSUME TypeOK, TypeOK', InStep, InStep', Sync, Waiting
  PROVE  Port!Next \/ UNCHANGED Port!portVars
<1>1. Handler
  BY DEF Handler
<1>2. /\ Handling /\ HandlerDoes /\ HandlerDoes' /\ Waiting' /\ issued' = issued
      /\ Port!Mine = Mine
  BY <1>1, HandlerView
<1>3. pc = "sync" /\ pc' = "finish" /\ w \in LocalsType
  BY DEF Sync, WorkerAt, TypeOK, WorkerType
<1>4. Mine.op = "WRITE" /\ w.block = Mine.blocks
  BY <1>2, <1>3 DEF Handling
<1>5. PICK s \in BOOLEAN : w' = [w EXCEPT !.synced = s, !.ok = s]
  BY DEF Sync
<1>6. w'.block = w.block /\ w'.synced = s
  BY <1>3, <1>5 DEF LocalsType
<1>7. Does("running", w.block, <<>>, FALSE)
  BY <1>2, <1>3 DEF HandlerDoes, Sector, Touching
<1>8. state' = "running" /\ done' = w.block /\ moving' = <<>> /\ synced' = s /\ verdict' = <<>>
  BY <1>2, <1>3, <1>6 DEF HandlerDoes, Does, Sector, Touching
<1>9. CASE s = TRUE
  <2>1. Port!Sync
    BY <1>2, <1>4, <1>7, <1>8, <1>9 DEF Does, Port!Sync
  <2>2. QED
    BY <2>1 DEF Port!Next
<1>10. CASE s = FALSE
  BY <1>2, <1>7, <1>8, <1>10 DEF Does, Port!portVars
<1>11. QED
  BY <1>5, <1>9, <1>10

LEMMA FinishServes ==
  ASSUME TypeOK, TypeOK', InStep, InStep', Finish, Waiting
  PROVE  Port!Next
<1>1. Handler
  BY DEF Handler
<1>2. /\ Handling /\ HandlerDoes /\ Waiting' /\ issued' = issued
      /\ Port!Mine = Mine /\ Mine' = Mine
      /\ pc' = "idle" /\ ~Asks => state' = "answered"
  BY <1>1, HandlerView
<1>3. pc = "finish" /\ pc' = "idle" /\ w \in LocalsType
  BY DEF Finish, WorkerAt, Complete, TypeOK, WorkerType
<1>4. Mine.op \in {"READ", "WRITE"} /\ ~Asks
  BY <1>2, <1>3 DEF Handling, Asks
<1>5. w'.block = w.block /\ w'.synced = w.synced
  BY <1>3 DEF Finish, LocalsType
<1>6. Does("running", w.block, <<>>, w.synced)
  BY <1>2, <1>3 DEF HandlerDoes, Sector, Touching
<1>7. ASSUME Executed' PROVE Port!Fulfilled
  <2>1. Mine.op = "READ" => w.block = Mine.blocks
    BY <1>2, <1>5, <1>7 DEF Executed
  <2>2. Mine.op = "WRITE" => w.block = Mine.blocks /\ w.synced
    BY <1>2, <1>5, <1>7 DEF Executed
  <2>3. QED
    BY <1>2, <1>4, <1>6, <2>1, <2>2 DEF Does, Port!Fulfilled
<1>8. \E good \in BOOLEAN : Port!Answer(good)
  BY <1>2, <1>3, <1>4, <1>6, <1>7, Answers DEF Does
<1>9. QED
  BY <1>8 DEF Port!Next

LEMMA HandlerServes ==
  ASSUME TypeOK, TypeOK', ResetFlagBacked, InStep, InStep', Handler
  PROVE  Port!Next \/ UNCHANGED Port!portVars
<1>1. CASE Waiting
  <2>1. ASSUME Snapshot PROVE UNCHANGED Port!portVars
    <3>1. HandlerDoes /\ HandlerDoes' /\ Handling /\ Waiting' /\ issued' = issued /\ Mine' = Mine
      BY <1>1, HandlerView
    <3>2. pc = "snapshot" /\ pc' = "loop" /\ w'.block = w.block /\ w.block = 0
      BY <2>1, <3>1 DEF Snapshot, WorkerAt, Handling, TypeOK, WorkerType, LocalsType
    <3>3. Does("running", 0, <<>>, FALSE) /\ Does("running", 0, <<>>, FALSE)'
      BY <1>1, <3>1, <3>2 DEF HandlerDoes, Sector, Touching
    <3>4. QED
      BY <3>1, <3>3 DEF Does, Port!portVars
  <2>2. QED
    BY <1>1, <2>1, RouteServes, BurstServes, BurstDoneServes, SectorBeginServes, TransferServes,
       StoreSectorServes, CheckResetServes, SyncServes, FinishServes DEF Handler
<1>2. CASE ~Waiting
  <2>1. pc # "idle"
    BY DEF Handler, Route, Burst, BurstDone, Snapshot, SectorBegin, FetchSector, Transfer, StoreSector,
           CheckReset, Sync, Finish, WorkerAt
  <2>2. hp # "readstat"
    BY <2>1, Staged DEF Stage
  <2>3. Handling
    BY <2>1 DEF InStep
  <2>4. UNCHANGED <<hp, issued>>
    BY <2>3, HandlerFrameAll
  <2>5. state' = state /\ state \in {"cut", "idle"}
    BY <1>2, <2>2, <2>4 DEF state, Waiting
  <2>6. QED
    BY <2>4, <2>5, AtRest, AtRestNext DEF Still, Port!portVars
<1>3. QED
  BY <1>1, <1>2

LEMMA InitServes == Init => Port!Init
<1> SUFFICES ASSUME Init PROVE Port!Init
  OBVIOUS
<1>1. hp = "start" /\ issued = <<>>
  BY DEF Init
<1>2. state = "idle"
  BY <1>1 DEF state
<1>3. ~Waiting
  BY <1>1 DEF Waiting
<1>4. QED
  BY <1>1, <1>2, <1>3, AtRest DEF Still, Port!Init

(* Every step is one of CommandPort's, or none. *)
LEMMA StepServes ==
  ASSUME TypeOK, TypeOK', ResetFlagBacked, InStep, InStep', OneVerdict, [Next]_vars
  PROVE  [Port!Next]_(Port!portVars)
<1>1. CASE UNCHANGED vars
  <2>1. UNCHANGED <<queue, dma, pc, todo, w, status, hp, latch, step, issued>>
    BY <1>1 DEF vars, cacheVars, sharedVars, workerVars, hostVars
  <2>2. state' = state
    BY <2>1 DEF state, Sent, Final, Asks, Mine, Current, Block, StatusPhase
  <2>3. QED
    BY <2>1, <2>2, SameCommand
<1>2. CASE Worker
  BY <1>2, StoreMovesVerdict, TakeServes, HandlerServes DEF Worker, Handler
<1>3. CASE HostProgress \/ HostTimeout
  <2>1. ASSUME NEW c \in Command, HostBegin(c) PROVE Port!Next
    BY <2>1, HostAsks DEF Port!Next
  <2>2. CASE \/ HostAddress \/ HostTarget \/ HostSelect \/ HostDeselect
             \/ HostCommandByte \/ HostParamByte
    <3>1. Waiting /\ hp' # "readstat"
      BY <2>2 DEF HostAddress, HostTarget, HostSelect, HostDeselect, HostCommandByte, HostParamByte, Waiting
    <3>2. QED
      BY <2>2, <3>1, HostWaits
  <2>3. CASE HostPoll \/ HostPolled
    <3>1. CASE ~Waiting
      BY <2>3, <3>1, HostIdles DEF Port!Next
    <3>2. CASE Waiting /\ hp' # "readstat"
      BY <2>3, <3>2, HostWaits
    <3>3. CASE Waiting /\ hp' = "readstat"
      <4>1. ~HostPoll
        BY <3>3 DEF HostPoll, Waiting
      <4>2. QED
        BY <2>3, <3>3, <4>1, HostSees
    <3>4. QED
      BY <3>1, <3>2, <3>3
  <2>4. CASE HostReadData
    <3>1. hp \in {"readstat", "readmsg"}
      BY <2>4 DEF HostReadData
    <3>2. QED
      BY <2>4, <3>1, HostHears, HostIdles DEF Port!Next
  <2>5. CASE HostAccept \/ HostTimeout
    BY <2>5, HostEnds DEF Port!Next
  <2>6. CASE HostReset \/ HostUnreset \/ HostSettled
    BY <2>6, HostIdles DEF Port!Next
  <2>7. QED
    BY <1>3, <2>1, <2>2, <2>3, <2>4, <2>5, <2>6 DEF HostProgress
<1>4. QED
  BY <1>1, <1>2, <1>3 DEF Next

(* The board serves commands as CommandPort promises, for every set of targets, length
   of command block and depth of queue that holds: each command is executed at most
   once, between its own target and its own address, and the driver hears the verdict
   on it, GOOD only if all of it is done (read_sector, write_sector and reset_board of
   dma_vfy2.c, the queue and prediction of register_irq_handlers.c, defer_worker_main,
   route_to_sasi_target and its handlers in sasi.c). *)
THEOREM ServesCommandsAlways == ASSUME Settle, Deep PROVE Spec => ServesCommands
<1>1. Init => Port!Init
  BY InitServes
<1>2. /\ TypeOK /\ TypeOK' /\ ResetFlagBacked /\ InStep /\ InStep' /\ OneVerdict
      /\ [Next]_vars
      => [Port!Next]_(Port!portVars)
  BY StepServes
<1>3. QED
  BY <1>1, <1>2, TypeCorrect, AbortIsAnswered, InStepAlways, OneVerdictAlways, PTL
     DEF Spec, ServesCommands, Port!Spec
=============================================================================
