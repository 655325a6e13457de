-------------------------- MODULE BusMasterProofs --------------------------
(***************************************************************************)
(* Proofs about the bus master for every length of a transfer, batch size, *)
(* FIFO depth and number of transfers and hangs: who drives the bus, and   *)
(* that a transfer is a copy or a failure as long as READY hangs in write  *)
(* cycles only.                                                            *)
(***************************************************************************)
EXTENDS BusMaster, Integers, TLAPS

Loop == {"first", "second", "get", "drain", "settle"}
Owned == {"quiesce", "strobes", "address", "enable", "park", "stop", "free", "finish",
          "listen", "unhold"} \cup Loop

(* Whose the bus and its lines are follows from where the worker is. *)
PadsFollow ==
  /\ (hold <=> pc \in {"grant", "withdraw"} \cup Owned)
  /\ pc \in Owned => hlda
  /\ strobes = IF pc \in {"address", "enable", "park"} \cup Loop THEN "pio1"
               ELSE IF pc \in {"stop", "free", "finish"} THEN "sio" ELSE "none"
  /\ (addrOut <=> pc \in {"enable", "park", "stop", "free"} \cup Loop)
  /\ (listening <=> pc \notin (Owned \ {"quiesce", "unhold"}))

(* The words of a batch in the order they are put, numbered from one through the whole
   transfer: those of byte i are the 2i+1st and the 2i+2nd.  Sent have been put, Pulled
   have been taken by the state machine. *)
Sent == 2 * index + IF pc = "second" THEN 1 ELSE IF pc = "get" THEN 2 ELSE 0
Pulled == Sent - Len(tx)

Writing == op = "write"

(* The state machine runs in the loop, and until it is stopped after it. *)
Runs == sm.on <=> (pc \in {"park", "stop"} \cup Loop)

(* A cycle whose strobe is low is in front of its wait for READY. *)
CycleOpen == sm.low => sm.pc = "ready"

(* READY hangs in a write cycle, and no other cycle is ever abandoned. *)
HangsInWrites ==
  /\ stuck => sm.pc = "ready" /\ sm.write
  /\ sm.pc = "ready" /\ ~sm.low => sm.write

(* The TX FIFO holds the last words put. *)
InFifo ==
  \A j \in 1 .. Len(tx), i \in Cell :
    /\ Pulled + j = 2 * i + 1 => tx[j] = First(i)
    /\ Pulled + j = 2 * i + 2 => tx[j] = Second(i)

(* The state machine knows what to take next, and its cycle is that of the byte whose
   words it has taken. *)
AtWord ==
  /\ sm.pc = "second" =>
       sm.lines \in Cell /\ Pulled = 2 * sm.lines + 1 /\ (sm.write <=> Writing)
  /\ sm.pc # "second" => \E i \in 0 .. Length : Pulled = 2 * i
  /\ sm.low => /\ sm.lines \in Cell /\ Pulled = 2 * sm.lines + 2
               /\ (sm.write <=> Writing) /\ sm.byte = Second(sm.lines).byte

InStep == pc \in Loop => InFifo /\ AtWord

(* Outside the loop it is stopped, or will be, at the start of a byte or in a cycle
   that hangs. *)
AtRest ==
  pc \notin Loop =>
    /\ sm.pc # "second"
    /\ sm.pc = "ready" => sm.write
    /\ pc \in {"address", "enable"} => ~sm.low
    /\ pc \in {"park", "stop"} => stuck \/ (sm.pc = "T0" /\ tx = <<>>)

(* A cycle that Park cuts off was storing a byte of the buffer in its place; if the
   transfer goes on, it was the last one of its batch. *)
CutOff ==
  pc = "park" /\ sm.low =>
    /\ Writing /\ sm.lines \in Cell /\ sm.byte = buf[sm.lines]
    /\ result = "none" => sm.lines \in LastOfBatch

(* A batch begins where there is something left, and ends where it should, with
   everything sent. *)
Ended ==
  /\ pc \in {"obtain", "grant", "quiesce", "strobes", "address", "enable"} => index < Length
  /\ pc \in {"drain", "settle"} => BatchEnd(index)
  /\ pc = "settle" => tx = <<>>
  /\ pc = "get" => op = "read"

(* A transfer that has not failed is still without a result. *)
ResultOpen ==
  /\ pc \in {"obtain", "grant", "quiesce", "strobes", "address", "enable"} \cup Loop => result = "none"
  /\ pc # "idle" => result # "done"

(* What a write has stored: the cycle of byte i is over. *)
Past(i) ==
  IF pc \in Loop THEN 2 * i + 2 <= Pulled /\ ~(sm.low /\ sm.lines = i) ELSE i < index

Stored ==
  (Writing /\ result = "none") => \A i \in Cell \ LastOfBatch : Past(i) => mem[i] = buf[i]

(* What a read has fetched, one byte at a time. *)
Fetched ==
  (op = "read" /\ pc # "idle") => \A i \in Cell : i < index => buf[i] = mem[i]

OneByOne ==
  (op = "read" /\ pc \in Loop) =>
    /\ Pulled >= 2 * index
    /\ pc \notin {"second", "get"} => tx = <<>>
    /\ rx # <<>> => pc = "get" /\ rx = <<mem[index]>> /\ tx = <<>> /\ sm.pc = "T0"
    /\ sm.pc = "ready" /\ ~sm.write =>
         pc = "get" /\ sm.low /\ sm.lines = index /\ rx = <<>> /\ tx = <<>>

(* The inductive invariant of a bus master whose READY hangs in writes only. *)
DataInv ==
  /\ Runs /\ CycleOpen /\ HangsInWrites /\ InStep /\ AtRest /\ CutOff /\ Ended /\ ResultOpen
  /\ Stored /\ Fetched /\ OneByOne

-----------------------------------------------------------------------------
(* The constants, as the leaves need them. *)
LEMMA Lengths ==
  /\ Length \in Nat \ {0} /\ Depth \in Nat \ {0}
  /\ Cell = 0 .. Length - 1 /\ Nowhere = Length /\ 0 \in Cell
BY LengthsAssumption DEF Cell, Nowhere

LEMMA Bounds ==
  /\ Length \in Nat /\ Depth \in Nat /\ MaxTransfers \in Nat /\ MaxHangs \in Nat
BY LengthsAssumption, BoundsAssumption

(* A FIFO with room takes an element, one that is not empty gives one. *)
LEMMA FifoTyped ==
  ASSUME NEW S, NEW q \in Seq(S), Len(q) <= Depth
  PROVE  /\ <<>> \in Seq(S) /\ Len(<<>>) <= Depth
         /\ \A e \in S : Len(q) < Depth => Append(q, e) \in Seq(S) /\ Len(Append(q, e)) <= Depth
         /\ q # <<>> => Head(q) \in S /\ Tail(q) \in Seq(S) /\ Len(Tail(q)) <= Depth
BY Bounds

(* The byte the worker is at. *)
LEMMA IndexInLoop ==
  ASSUME TypeOK
  PROVE  pc \in {"first", "second", "get"} => index \in Cell /\ index \in Nat /\ index < Length
BY Lengths DEF TypeOK

(* Words put and bytes met are of their types. *)
LEMMA WordsTyped ==
  ASSUME TypeOK, NEW i \in Cell
  PROVE  First(i) \in Word /\ Second(i) \in Word /\ Floating \in AnyByte
BY Lengths, Bounds DEF TypeOK, First, Second, Word, AnyByte, Byte, Ops

(* The fields of a word, by its kind. *)
LEMMA WordFields ==
  ASSUME NEW w \in Word
  PROVE  /\ w.t = 1 => w.at \in Cell /\ w.write \in BOOLEAN
         /\ w.t = 2 => w.byte \in AnyByte
BY DEF Word

(* The fields of the state machine after a change of some of them. *)
LEMMA SmFields ==
  ASSUME TypeOK
  PROVE  /\ sm.on \in BOOLEAN /\ sm.pc \in {"T0", "second", "ready"} /\ sm.write \in BOOLEAN
         /\ sm.lines \in Cell \cup {Nowhere} /\ sm.byte \in AnyByte /\ sm.low \in BOOLEAN
BY DEF TypeOK, SmState

-----------------------------------------------------------------------------
(* Whose the bus is, which needs nothing of the data. *)

LEMMA PadsStep ==
  ASSUME PadsFollow, [Next]_vars
  PROVE  PadsFollow'
<1> USE DEF PadsFollow, Owned, Loop, At, Return
<1>1. CASE \E o \in Ops : Begin(o)
  BY <1>1 DEF Begin, busVars, padVars
<1>2. CASE Request
  BY <1>2 DEF Request, padVars
<1>3. CASE Granted
  BY <1>3 DEF Granted, busVars, padVars
<1>4. CASE GrantTimeout \/ Withdraw
  BY <1>4 DEF GrantTimeout, Withdraw, busVars, padVars
<1>5. CASE Quiesce
  BY <1>5 DEF Quiesce, busVars
<1>6. CASE TakeStrobes
  BY <1>6 DEF TakeStrobes, busVars
<1>7. CASE TakeAddress
  BY <1>7 DEF TakeAddress, busVars
<1>8. CASE Enable
  BY <1>8 DEF Enable, busVars, padVars
<1>9. CASE PutFirst
  BY <1>9 DEF PutFirst, Put, busVars, padVars
<1>10. CASE PutSecond
  BY <1>10 DEF PutSecond, Put, NextByte, busVars, padVars
<1>11. CASE Get
  BY <1>11 DEF Get, NextByte, busVars, padVars
<1>12. CASE Drain \/ SettleBus
  BY <1>12 DEF Drain, SettleBus, busVars, padVars
<1>13. CASE Park
  BY <1>13 DEF Park, busVars
<1>14. CASE Stop
  BY <1>14 DEF Stop, busVars, padVars
<1>15. CASE FreeAddress
  BY <1>15 DEF FreeAddress, busVars
<1>16. CASE FreeStrobes
  BY <1>16 DEF FreeStrobes, busVars
<1>17. CASE Listen
  BY <1>17 DEF Listen, busVars
<1>18. CASE Unhold
  BY <1>18 DEF Unhold, padVars
<1>19. CASE Await
  BY <1>19 DEF Await, busVars, padVars
<1>20. CASE StateMachine
  BY <1>20 DEF StateMachine, SmPullFirst, SmPullSecond, SmComplete, SmStep, busVars, padVars
<1>21. CASE CpuGrant \/ CpuResume
  BY <1>21 DEF CpuGrant, CpuResume, padVars
<1>22. CASE Hang \/ Heal
  BY <1>22 DEF Hang, Heal, busVars, padVars
<1>23. CASE UNCHANGED vars
  BY <1>23 DEF vars, busVars, padVars
<1>24. QED
  BY <1>1, <1>2, <1>3, <1>4, <1>5, <1>6, <1>7, <1>8, <1>9, <1>10, <1>11, <1>12, <1>13, <1>14,
     <1>15, <1>16, <1>17, <1>18, <1>19, <1>20, <1>21, <1>22, <1>23 DEF Next, Worker

(* While the 8088 has the bus the Pico drives none of its lines and its registers
   listen; while it drives an address, the strobes do not float
   (setup_pins_dma_control, restore_register_bus_after_dma). *)
THEOREM OneDriverAlways == Spec => []OneDriver
<1>1. Init => PadsFollow
  BY DEF Init, PadsFollow, Owned, Loop
<1>2. PadsFollow => OneDriver
  BY DEF PadsFollow, OneDriver, Owned, Loop
<1>3. QED
  BY <1>1, <1>2, PadsStep, PTL DEF Spec

-----------------------------------------------------------------------------
(* Types.  That a word pulled has the fields of its kind needs InStep. *)

LEMMA HeadInStep ==
  ASSUME TypeOK, InStep, pc \in Loop, tx # <<>>
  PROVE  /\ sm.pc = "second" => Head(tx) = Second(sm.lines) /\ sm.lines \in Cell
         /\ sm.pc # "second" => \E i \in Cell : Pulled = 2 * i /\ Head(tx) = First(i)
<1>1. Len(tx) \in Nat /\ Len(tx) >= 1 /\ Head(tx) = tx[1] /\ 1 \in 1 .. Len(tx)
  BY DEF TypeOK
<1>2. Pulled \in Int /\ Pulled + 1 <= 2 * Length
  BY <1>1, Lengths DEF TypeOK, Pulled, Sent
<1>3. ASSUME sm.pc = "second"
      PROVE  Head(tx) = Second(sm.lines) /\ sm.lines \in Cell
  BY <1>1, <1>2, <1>3, Lengths DEF InStep, InFifo, AtWord
<1>4. ASSUME sm.pc # "second"
      PROVE  \E i \in Cell : Pulled = 2 * i /\ Head(tx) = First(i)
  <2>1. PICK i \in 0 .. Length : Pulled = 2 * i
    BY <1>4 DEF InStep, InFifo, AtWord
  <2>2. i \in Cell
    BY <1>2, <2>1, Lengths
  <2>3. QED
    BY <1>1, <2>1, <2>2, Lengths DEF InStep, InFifo, AtWord
<1>5. QED
  BY <1>3, <1>4

(* The state machine takes words in the loop only. *)
LEMMA PullsInLoop ==
  ASSUME Runs, HangsInWrites, AtRest, SmPullFirst \/ SmPullSecond
  PROVE  pc \in Loop
BY DEF Runs, HangsInWrites, AtRest, SmPullFirst, SmPullSecond, SmStep

LEMMA TypeStep ==
  ASSUME TypeOK, Runs, HangsInWrites, AtRest, InStep, Ended, [Next]_vars
  PROVE  TypeOK'
<1> USE Bounds DEF Ops
<1>1. CASE \E o \in Ops : Begin(o)
  <2>1. PICK o \in Ops : Begin(o)
    BY <1>1
  <2>2. count + 1 \in 0 .. MaxTransfers
    BY <2>1 DEF Begin, TypeOK
  <2>3. buf' \in [Cell -> AnyByte]
    BY <2>1, <2>2 DEF Begin, AnyByte, Byte
  <2>4. QED
    BY <2>1, <2>2, <2>3 DEF Begin, At, TypeOK, busVars, padVars, smVars, envVars, Points
<1>2. CASE Request \/ Granted \/ GrantTimeout \/ Withdraw \/ Quiesce \/ Drain \/ SettleBus
  BY <1>2 DEF Request, Granted, GrantTimeout, Withdraw, Quiesce, Drain, SettleBus, At, Return, TypeOK,
     busVars, padVars, smVars, envVars, opVars, Points
<1>3. CASE FreeAddress \/ FreeStrobes \/ Listen \/ Unhold \/ Await
  BY <1>3 DEF FreeAddress, FreeStrobes, Listen, Unhold, Await, At, Return, TypeOK,
     busVars, padVars, smVars, envVars, opVars, Points
<1>4. CASE TakeStrobes \/ TakeAddress \/ Enable \/ Stop
  <2>1. sm' \in SmState
    BY <1>4 DEF TakeStrobes, TakeAddress, Enable, Stop, TypeOK, SmState
  <2>2. tx' \in Seq(Word) /\ Len(tx') <= Depth /\ rx' \in Seq(AnyByte) /\ Len(rx') <= Depth
    <3>1. (tx' = tx /\ rx' = rx) \/ (tx' = <<>> /\ rx' = <<>>)
      BY <1>4 DEF TakeStrobes, TakeAddress, Enable, Stop
    <3>2. QED
      BY <3>1, FifoTyped DEF TypeOK
  <2>3. CASE TakeStrobes \/ TakeAddress
    BY <2>1, <2>2, <2>3 DEF TakeStrobes, TakeAddress, At, TypeOK, busVars, padVars, envVars, opVars, Points
  <2>4. CASE Enable
    BY <2>1, <2>2, <2>4 DEF Enable, Ended, At, TypeOK, busVars, padVars, envVars, opVars, Points
  <2>5. CASE Stop
    BY <2>1, <2>2, <2>5 DEF Stop, At, TypeOK, busVars, padVars, envVars, opVars, Points
  <2>6. QED
    BY <1>4, <2>3, <2>4, <2>5
<1>5. CASE PutFirst
  <2>1. First(index) \in Word
    BY <1>5, WordsTyped, IndexInLoop DEF PutFirst, Put
  <2>2. tx' = tx \/ (Len(tx) < Depth /\ tx' = Append(tx, First(index)))
    BY <1>5 DEF PutFirst, Put
  <2>3. tx' \in Seq(Word) /\ Len(tx') <= Depth
    BY <2>1, <2>2, FifoTyped DEF TypeOK
  <2>4. QED
    BY <1>5, <2>3 DEF PutFirst, Put, TypeOK, busVars, padVars, envVars, Points
<1>6. CASE PutSecond
  <2>1. Second(index) \in Word /\ index \in Nat /\ index < Length
    BY <1>6, WordsTyped, IndexInLoop DEF PutSecond, Put
  <2>2. tx' = tx \/ (Len(tx) < Depth /\ tx' = Append(tx, Second(index)))
    BY <1>6 DEF PutSecond, Put
  <2>3. tx' \in Seq(Word) /\ Len(tx') <= Depth
    BY <2>1, <2>2, FifoTyped DEF TypeOK
  <2>4. index' \in 0 .. Length
    BY <1>6, <2>1 DEF PutSecond
  <2>5. pc' \in {"first", "second", "get"} => index' < Length
    BY <1>6, <2>1 DEF PutSecond, Put, NextByte, BatchEnd
  <2>6. pc' \in Points
    BY <1>6 DEF PutSecond, Put, NextByte, Points
  <2>7. QED
    BY <1>6, <2>3, <2>4, <2>5, <2>6 DEF PutSecond, Put, TypeOK, busVars, padVars, envVars
<1>7. CASE Get
  <2>1. index \in Cell /\ index \in Nat /\ index < Length
    BY <1>7, IndexInLoop DEF Get
  <2>2. rx' \in Seq(AnyByte) /\ Len(rx') <= Depth
    <3>1. rx' = rx \/ (rx # <<>> /\ rx' = Tail(rx))
      BY <1>7 DEF Get
    <3>2. QED
      BY <3>1, FifoTyped DEF TypeOK
  <2>3. buf' \in [Cell -> AnyByte]
    <3>1. buf' = buf \/ (rx # <<>> /\ buf' = [buf EXCEPT ![index] = Head(rx)])
      BY <1>7 DEF Get
    <3>2. rx # <<>> => Head(rx) \in AnyByte
      BY FifoTyped DEF TypeOK
    <3>3. QED
      BY <2>1, <3>1, <3>2 DEF TypeOK
  <2>4. index' \in 0 .. Length
    BY <1>7, <2>1 DEF Get
  <2>5. pc' \in {"first", "second", "get"} => index' < Length
    BY <1>7, <2>1 DEF Get, NextByte, BatchEnd
  <2>6. pc' \in Points
    BY <1>7 DEF Get, NextByte, Points
  <2>7. QED
    BY <1>7, <2>2, <2>3, <2>4, <2>5, <2>6 DEF Get, TypeOK, busVars, padVars, envVars
<1>8. CASE Park
  <2>1. mem' \in [Cell \cup {Nowhere} -> AnyByte]
    <3>1. sm.byte \in AnyByte
      BY SmFields
    <3>2. mem' = mem \/ mem' = [mem EXCEPT ![sm.lines] = sm.byte]
      BY <1>8 DEF Park
    <3>3. QED
      BY <3>1, <3>2 DEF TypeOK
  <2>2. QED
    BY <1>8, <2>1 DEF Park, At, TypeOK, busVars, smVars, envVars, opVars, Points
<1>9. CASE SmPullFirst \/ SmPullSecond
  <2>1. pc \in Loop /\ tx # <<>>
    BY <1>9, PullsInLoop DEF SmPullFirst, SmPullSecond
  <2>2. /\ sm.pc = "second" => Head(tx) \in Word /\ Head(tx).t = 2
        /\ sm.pc # "second" => Head(tx) \in Word /\ Head(tx).t = 1
    <3>1. /\ \A i : Second(i).t = 2
          /\ \A i : First(i).t = 1
      BY DEF First, Second
    <3>2. QED
      BY <2>1, <3>1, HeadInStep, WordsTyped
  <2>3. sm' \in SmState
    BY <1>9, <2>2, SmFields, WordFields DEF SmPullFirst, SmPullSecond, TypeOK, SmState
  <2>4. tx' \in Seq(Word) /\ Len(tx') <= Depth
    <3>1. tx' = Tail(tx)
      BY <1>9 DEF SmPullFirst, SmPullSecond
    <3>2. QED
      BY <2>1, <3>1, FifoTyped DEF TypeOK
  <2>5. QED
    BY <1>9, <2>3, <2>4 DEF SmPullFirst, SmPullSecond, SmStep, TypeOK, busVars, padVars, envVars, opVars
<1>10. CASE SmComplete
  <2>1. sm' \in SmState
    BY <1>10 DEF SmComplete, TypeOK, SmState
  <2>2. mem' \in [Cell \cup {Nowhere} -> AnyByte]
    <3>1. mem' = mem \/ mem' = [mem EXCEPT ![sm.lines] = sm.byte]
      BY <1>10 DEF SmComplete
    <3>2. QED
      BY <3>1, SmFields DEF TypeOK
  <2>3. rx' \in Seq(AnyByte) /\ Len(rx') <= Depth
    <3>1. Floating \in AnyByte /\ mem[sm.lines] \in AnyByte
      BY SmFields DEF TypeOK, AnyByte
    <3>2. rx' = rx \/ (Len(rx) < Depth /\ \E b \in AnyByte : rx' = Append(rx, b))
      BY <1>10, <3>1 DEF SmComplete
    <3>3. QED
      BY <3>2, FifoTyped DEF TypeOK
  <2>4. QED
    BY <1>10, <2>1, <2>2, <2>3 DEF SmComplete, SmStep, TypeOK, busVars, padVars, envVars, opVars
<1>11. CASE CpuGrant \/ CpuResume \/ Heal
  BY <1>11 DEF CpuGrant, CpuResume, Heal, TypeOK, busVars, padVars, smVars, envVars, opVars
<1>14. CASE Hang
  <2>1. hangs' \in 0 .. MaxHangs
    BY <1>14 DEF Hang, TypeOK
  <2>2. QED
    BY <1>14, <2>1 DEF Hang, TypeOK, busVars, padVars, smVars, envVars, opVars
<1>12. CASE UNCHANGED vars
  BY <1>12 DEF vars, TypeOK, busVars, padVars, smVars, envVars, opVars
<1>13. QED
  BY <1>1, <1>2, <1>3, <1>4, <1>5, <1>6, <1>7, <1>8, <1>9, <1>10, <1>11, <1>12, <1>14
     DEF Next, Worker, StateMachine

-----------------------------------------------------------------------------
(* The steps by what they touch, for the invariants of the data. *)

Handover ==
  \/ Request \/ Granted \/ GrantTimeout \/ Withdraw \/ Quiesce \/ FreeAddress \/ FreeStrobes \/ Listen
  \/ Unhold \/ Await

(* The bus changes hands, nothing else. *)
LEMMA HandoverFrame ==
  ASSUME Handover
  PROVE  /\ UNCHANGED <<sm, tx, rx, stuck, mem, op, index, buf, count>>
         /\ pc \in {"obtain", "grant", "withdraw", "quiesce", "free", "finish", "listen",
                    "unhold", "await"}
         /\ pc' \in {"obtain", "grant", "withdraw", "quiesce", "strobes", "finish", "listen",
                     "unhold", "await", "idle"}
         /\ pc' # "idle" => result' = result
         /\ pc' = "idle" => result' \in {"done", "failed"}
         /\ pc' = "obtain" => result = "none" /\ index < Length
         /\ pc' = "idle" /\ result' = "done" => result = "none" /\ index = Length
         /\ pc' \in {"grant", "quiesce", "strobes"} => pc \in {"obtain", "grant", "quiesce"}
<1>1. CASE Request \/ Granted \/ GrantTimeout \/ Withdraw \/ Quiesce
  BY <1>1 DEF Request, Granted, GrantTimeout, Withdraw, Quiesce, At, Return, smVars, envVars, opVars
<1>2. CASE FreeAddress \/ FreeStrobes \/ Listen \/ Unhold
  BY <1>2 DEF FreeAddress, FreeStrobes, Listen, Unhold, At, smVars, envVars, opVars
<1>3. CASE Await
  BY <1>3 DEF Await, Return, smVars, envVars
<1>4. QED
  BY <1>1, <1>2, <1>3 DEF Handover

(* The 8088 and READY leave the transfer alone. *)
Around == CpuGrant \/ CpuResume \/ Hang \/ Heal \/ UNCHANGED vars

LEMMA AroundFrame ==
  ASSUME Around
  PROVE  /\ UNCHANGED <<sm, tx, rx, mem, pc, op, index, buf, result, count>>
         /\ \/ stuck' = stuck
            \/ stuck' = FALSE /\ pc \notin {"park", "stop"}
            \/ /\ stuck' = TRUE /\ sm.on /\ sm.pc = "ready" /\ sm.low /\ ~stuck
               /\ (IF sm.write THEN "write" ELSE "read") \in HangOn
<1>1. CASE CpuGrant \/ CpuResume \/ UNCHANGED vars
  BY <1>1 DEF CpuGrant, CpuResume, vars, smVars, envVars, opVars
<1>2. CASE Hang
  BY <1>2 DEF Hang, smVars, opVars
<1>3. CASE Heal
  BY <1>3 DEF Heal, smVars, opVars
<1>4. QED
  BY <1>1, <1>2, <1>3 DEF Around

(* What each step leaves in the state machine. *)
LEMMA SmAfter ==
  ASSUME TypeOK
  PROVE  /\ TakeStrobes => /\ (sm'.on <=> sm.on) /\ sm'.pc = sm.pc /\ (sm'.write <=> sm.write)
                           /\ ~sm'.low
         /\ TakeAddress => /\ (sm'.on <=> sm.on) /\ sm'.pc = sm.pc /\ (sm'.write <=> sm.write)
                           /\ (sm'.low <=> sm.low)
         /\ Enable => /\ sm'.on /\ sm'.pc = sm.pc /\ (sm'.write <=> sm.write)
                      /\ (sm'.low <=> sm.low)
         /\ Stop => /\ ~sm'.on /\ sm'.pc = sm.pc /\ (sm'.write <=> sm.write)
                    /\ (sm'.low <=> sm.low)
         /\ SmPullFirst => /\ (sm'.on <=> sm.on) /\ sm'.pc = "second" /\ (sm'.write <=> Head(tx).write)
                           /\ sm'.lines = Head(tx).at /\ (sm'.low <=> sm.low)
         /\ SmPullSecond => /\ (sm'.on <=> sm.on) /\ sm'.pc = "ready" /\ (sm'.write <=> sm.write)
                            /\ sm'.lines = sm.lines /\ sm'.byte = Head(tx).byte /\ sm'.low
         /\ SmComplete => /\ (sm'.on <=> sm.on) /\ sm'.pc = "T0" /\ (sm'.write <=> sm.write)
                          /\ ~sm'.low
BY SmFields DEF TypeOK, SmState, TakeStrobes, TakeAddress, Enable, Stop, SmPullFirst, SmPullSecond, SmComplete

(* The steps of the loop, and of the state machine, leave the rest alone. *)
LEMMA LoopFrame ==
  /\ PutFirst \/ PutSecond \/ Get \/ Drain \/ SettleBus =>
       UNCHANGED <<sm, stuck, mem, op, count>> /\ pc \in Loop /\ (pc' \in Loop \/ pc' = "park")
  /\ PutFirst \/ PutSecond \/ Drain \/ SettleBus => UNCHANGED <<rx, buf>>
  /\ Get \/ Drain \/ SettleBus => UNCHANGED tx
  /\ PutFirst \/ Drain \/ SettleBus => UNCHANGED index
<1>1. PutFirst => /\ UNCHANGED <<sm, stuck, mem, op, count, rx, buf, index>>
                  /\ pc \in Loop /\ (pc' \in Loop \/ pc' = "park")
  BY DEF PutFirst, Put, Loop, envVars
<1>2. PutSecond => /\ UNCHANGED <<sm, stuck, mem, op, count, rx, buf>>
                   /\ pc \in Loop /\ (pc' \in Loop \/ pc' = "park")
  BY DEF PutSecond, Put, NextByte, Loop, envVars
<1>3. Get => /\ UNCHANGED <<sm, stuck, mem, op, count, tx>>
             /\ pc \in Loop /\ (pc' \in Loop \/ pc' = "park")
  BY DEF Get, NextByte, Loop, envVars
<1>4. Drain \/ SettleBus => /\ UNCHANGED <<sm, stuck, mem, op, count, rx, buf, tx, index>>
                            /\ pc \in Loop /\ (pc' \in Loop \/ pc' = "park")
  BY DEF Drain, SettleBus, At, Loop, smVars, envVars, opVars
<1>5. QED
  BY <1>1, <1>2, <1>3, <1>4

LEMMA PinsFrame ==
  /\ TakeStrobes \/ TakeAddress => UNCHANGED <<tx, rx>>
  /\ TakeStrobes \/ TakeAddress \/ Enable \/ Stop => UNCHANGED <<stuck, mem, op, index, buf, result, count>>
  /\ TakeStrobes => pc = "strobes" /\ pc' = "address"
  /\ TakeAddress => pc = "address" /\ pc' = "enable"
  /\ Enable => pc = "enable" /\ pc' = "first" /\ tx' = <<>> /\ rx' = <<>>
  /\ Stop => pc = "stop" /\ pc' = "free" /\ tx' = <<>> /\ rx' = <<>>
  /\ Park => pc = "park" /\ pc' = "stop" /\ UNCHANGED <<sm, tx, rx, stuck, op, index, buf, result, count>>
<1>1. TakeStrobes \/ TakeAddress => UNCHANGED <<stuck, mem, op, index, buf, result, count, tx, rx>>
  BY DEF TakeStrobes, TakeAddress, envVars, opVars
<1>2. Enable \/ Stop => UNCHANGED <<stuck, mem, op, index, buf, result, count>>
  BY DEF Enable, Stop, envVars, opVars
<1>3. Park => UNCHANGED <<sm, tx, rx, stuck, op, index, buf, result, count>>
  BY DEF Park, smVars, envVars, opVars
<1>4. QED
  BY <1>1, <1>2, <1>3 DEF TakeStrobes, TakeAddress, Enable, Stop, Park, At

(* A step of the state machine, in the loop or in front of the stop. *)
LEMMA SmFrame ==
  ASSUME StateMachine
  PROVE  /\ sm.on /\ UNCHANGED <<strobes, stuck, pc, op, index, buf, result, count>>
         /\ SmPullFirst \/ SmPullSecond => UNCHANGED <<rx, mem>> /\ tx # <<>> /\ tx' = Tail(tx)
         /\ SmPullFirst => sm.pc = "T0"
         /\ SmPullSecond => sm.pc = "second"
         /\ SmComplete => sm.pc = "ready" /\ ~stuck /\ UNCHANGED tx
BY DEF StateMachine, SmPullFirst, SmPullSecond, SmComplete, SmStep, padVars, envVars, opVars

(* Every step is one of these. *)
LEMMA Steps ==
  ASSUME [Next]_vars
  PROVE  \/ \E o \in Ops : Begin(o)
         \/ Handover \/ Around \/ StateMachine
         \/ TakeStrobes \/ TakeAddress \/ Enable \/ Park \/ Stop
         \/ PutFirst \/ PutSecond \/ Get \/ Drain \/ SettleBus
BY DEF Next, Worker, Handover, Around

LEMMA BeginFrame ==
  ASSUME \E o \in Ops : Begin(o)
  PROVE  /\ UNCHANGED <<sm, tx, rx, stuck, mem>>
         /\ pc = "idle" /\ pc' = "obtain" /\ index' = 0 /\ result' = "none"
BY DEF Begin, At, smVars, envVars

-----------------------------------------------------------------------------
(* Control: when the state machine runs, and what it is caught in. *)

LEMMA RunsStep ==
  ASSUME TypeOK, Runs, [Next]_vars
  PROVE  Runs'
<1> USE DEF Runs, Loop
<1>1. CASE (\E o \in Ops : Begin(o)) \/ Handover
  BY <1>1, BeginFrame, HandoverFrame
<1>2. CASE Around \/ StateMachine
  BY <1>2, AroundFrame, SmFrame, SmAfter DEF StateMachine
<1>3. CASE TakeStrobes \/ TakeAddress \/ Enable \/ Park \/ Stop
  BY <1>3, PinsFrame, SmAfter
<1>4. CASE PutFirst \/ PutSecond \/ Get \/ Drain \/ SettleBus
  BY <1>4, LoopFrame
<1>5. QED
  BY <1>1, <1>2, <1>3, <1>4, Steps

LEMMA CycleOpenStep ==
  ASSUME TypeOK, CycleOpen, [Next]_vars
  PROVE  CycleOpen'
<1> USE DEF CycleOpen
<1>1. CASE (\E o \in Ops : Begin(o)) \/ Handover
  BY <1>1, BeginFrame, HandoverFrame
<1>2. CASE Around \/ StateMachine
  BY <1>2, AroundFrame, SmFrame, SmAfter DEF StateMachine
<1>3. CASE TakeStrobes \/ TakeAddress \/ Enable \/ Park \/ Stop
  BY <1>3, PinsFrame, SmAfter
<1>4. CASE PutFirst \/ PutSecond \/ Get \/ Drain \/ SettleBus
  BY <1>4, LoopFrame
<1>5. QED
  BY <1>1, <1>2, <1>3, <1>4, Steps

LEMMA HangsInWritesStep ==
  ASSUME HangOn \subseteq {"write"}, TypeOK, HangsInWrites, CycleOpen, AtRest, [Next]_vars
  PROVE  HangsInWrites'
<1> USE DEF HangsInWrites
<1>0. stuck \in BOOLEAN /\ sm.write \in BOOLEAN /\ sm.low \in BOOLEAN
  BY SmFields DEF TypeOK
<1>1. CASE (\E o \in Ops : Begin(o)) \/ Handover
  BY <1>1, BeginFrame, HandoverFrame
<1>2. CASE Around
  <2>1. stuck' => stuck \/ (sm.pc = "ready" /\ sm.write)
    BY <1>0, <1>2, AroundFrame
  <2>2. QED
    BY <1>2, <2>1, AroundFrame
<1>3. CASE StateMachine
  BY <1>0, <1>3, SmFrame, SmAfter DEF StateMachine, CycleOpen
<1>4. CASE TakeStrobes \/ TakeAddress \/ Enable \/ Park \/ Stop
  BY <1>0, <1>4, PinsFrame, SmAfter DEF AtRest, Loop
<1>5. CASE PutFirst \/ PutSecond \/ Get \/ Drain \/ SettleBus
  BY <1>5, LoopFrame
<1>6. QED
  BY <1>1, <1>2, <1>3, <1>4, <1>5, Steps

(* A transfer leaves the loop when its bus is at rest or READY hangs. *)
LEMMA LeavesAtRest ==
  ASSUME OneByOne, Ended, PutFirst \/ PutSecond \/ Get \/ Drain \/ SettleBus, pc' = "park"
  PROVE  /\ stuck \/ (sm.pc = "T0" /\ tx = <<>>)
         /\ result' = "failed" \/ (SettleBus /\ result' = result)
<1>1. CASE PutFirst \/ PutSecond \/ Get
  BY <1>1 DEF PutFirst, PutSecond, Get, Put, NextByte
<1>2. CASE Drain
  BY <1>2 DEF Drain, Drained, OneByOne, Loop
<1>3. CASE SettleBus
  BY <1>3 DEF SettleBus, At, Ended, opVars
<1>4. QED
  BY <1>1, <1>2, <1>3

LEMMA AtRestStep ==
  ASSUME TypeOK, AtRest, Runs, HangsInWrites, OneByOne, Ended, [Next]_vars
  PROVE  AtRest'
<1>1. CASE (\E o \in Ops : Begin(o)) \/ Handover
  BY <1>1, BeginFrame, HandoverFrame DEF AtRest, Loop
<1>2. CASE Around
  <2>1. ASSUME pc \in {"park", "stop"}
        PROVE  UNCHANGED stuck
    BY <1>2, <2>1, AroundFrame DEF AtRest, Loop
  <2>2. QED
    BY <1>2, <2>1, AroundFrame DEF AtRest
<1>3. CASE SmPullFirst \/ SmPullSecond
  <2>1. pc' \in Loop
    BY <1>3, PullsInLoop, SmFrame DEF StateMachine
  <2>2. QED
    BY <2>1 DEF AtRest
<1>4. CASE SmComplete
  <2>1. pc' \in Loop
    BY <1>4, SmFrame DEF StateMachine, AtRest, Runs
  <2>2. QED
    BY <2>1 DEF AtRest
<1>5. CASE TakeStrobes \/ TakeAddress \/ Enable \/ Park \/ Stop
  <2>1. stuck \in BOOLEAN /\ sm.write \in BOOLEAN /\ sm.low \in BOOLEAN
    BY SmFields DEF TypeOK
  <2>2. QED
    BY <1>5, <2>1, PinsFrame, SmAfter DEF AtRest, Loop
<1>6. CASE PutFirst \/ PutSecond \/ Get \/ Drain \/ SettleBus
  <2>1. CASE pc' \in Loop
    BY <2>1 DEF AtRest
  <2>2. CASE pc' = "park"
    <3>1. stuck' \/ (sm'.pc = "T0" /\ tx' = <<>>)
      <4>1. PutFirst \/ PutSecond => stuck
        BY <2>2 DEF PutFirst, PutSecond, Put, NextByte
      <4>2. QED
        BY <1>6, <2>2, <4>1, LeavesAtRest, LoopFrame
    <3>2. sm'.pc # "second" /\ (sm'.pc = "ready" => sm'.write)
      BY <1>6, <2>2, LeavesAtRest, LoopFrame DEF HangsInWrites
    <3>3. QED
      BY <2>2, <3>1, <3>2 DEF AtRest
  <2>3. QED
    BY <1>6, <2>1, <2>2, LoopFrame
<1>7. QED
  BY <1>1, <1>2, <1>3, <1>4, <1>5, <1>6, Steps DEF StateMachine

LEMMA EndedStep ==
  ASSUME TypeOK, OneByOne, Ended, [Next]_vars
  PROVE  Ended'
<1>1. CASE \E o \in Ops : Begin(o)
  BY <1>1, BeginFrame, Lengths DEF Ended
<1>2. CASE Handover
  BY <1>2, HandoverFrame DEF Ended, BatchEnd
<1>3. CASE Around
  BY <1>3, AroundFrame DEF Ended, BatchEnd
<1>4. CASE StateMachine
  BY <1>4, SmFrame DEF StateMachine, Ended, BatchEnd
<1>5. CASE TakeStrobes \/ TakeAddress \/ Enable \/ Park \/ Stop
  BY <1>5, PinsFrame DEF Ended
<1>6. CASE PutFirst
  BY <1>6 DEF PutFirst, Put, Ended
<1>7. CASE PutSecond
  <2>1. pc' = "drain" => BatchEnd(index')
    BY <1>7 DEF PutSecond, Put, NextByte, TypeOK, Ops
  <2>2. QED
    BY <1>7, <2>1 DEF PutSecond, Put, NextByte, Ended, BatchEnd
<1>8. CASE Get
  BY <1>8 DEF Get, NextByte, Ended, BatchEnd
<1>9. CASE Drain
  <2>1. pc' = "settle" => tx' = <<>>
    BY <1>9, LoopFrame DEF Drain, Drained, OneByOne, Loop, TypeOK, Ops
  <2>2. QED
    BY <1>9, <2>1, LoopFrame DEF Drain, Ended, BatchEnd
<1>10. CASE SettleBus
  BY <1>10 DEF SettleBus, At, Ended
<1>11. QED
  BY <1>1, <1>2, <1>3, <1>4, <1>5, <1>6, <1>7, <1>8, <1>9, <1>10, Steps

LEMMA ResultOpenStep ==
  ASSUME TypeOK, ResultOpen, [Next]_vars
  PROVE  ResultOpen'
<1> USE DEF ResultOpen, Loop
<1>1. CASE (\E o \in Ops : Begin(o)) \/ Handover
  BY <1>1, BeginFrame, HandoverFrame
<1>2. CASE Around \/ StateMachine
  BY <1>2, AroundFrame, SmFrame
<1>3. CASE TakeStrobes \/ TakeAddress \/ Enable \/ Park \/ Stop
  BY <1>3, PinsFrame
<1>4. CASE PutFirst \/ PutSecond
  BY <1>4 DEF PutFirst, PutSecond, Put, NextByte
<1>5. CASE Get
  BY <1>5 DEF Get, NextByte
<1>6. CASE Drain \/ SettleBus
  BY <1>6 DEF Drain, SettleBus, At, opVars
<1>7. QED
  BY <1>1, <1>2, <1>3, <1>4, <1>5, <1>6, Steps

-----------------------------------------------------------------------------
(* Data: the words in the FIFO, and the one byte a read has under way. *)

LEMMA FifoElements ==
  ASSUME NEW S, NEW q \in Seq(S)
  PROVE  /\ Len(q) \in Nat
         /\ q # <<>> => Len(q) >= 1 /\ Head(q) = q[1] /\ Len(Tail(q)) = Len(q) - 1
         /\ q # <<>> => \A j \in 1 .. Len(q) - 1 : Tail(q)[j] = q[j + 1]
         /\ \A e \in S : /\ Len(Append(q, e)) = Len(q) + 1
                         /\ Append(q, e)[Len(q) + 1] = e
                         /\ \A j \in 1 .. Len(q) : Append(q, e)[j] = q[j]
OBVIOUS

(* A word put or pulled, and nothing else, moves the count of those pulled. *)
LEMMA PulledAfter ==
  ASSUME TypeOK
  PROVE  /\ Pulled \in Int /\ Sent \in Nat /\ Sent = Pulled + Len(tx) /\ Len(tx) \in Nat
         /\ PutFirst /\ pc' \in Loop =>
              /\ Pulled' = Pulled /\ Sent = 2 * index /\ Len(tx) < Depth
              /\ tx' = Append(tx, First(index)) /\ pc = "first" /\ pc' = "second"
         /\ PutSecond /\ pc' \in Loop =>
              /\ Pulled' = Pulled /\ Sent = 2 * index + 1 /\ Len(tx) < Depth
              /\ tx' = Append(tx, Second(index)) /\ pc = "second"
              /\ op = "read" => pc' = "get" /\ index' = index
         /\ Get /\ pc' \in Loop =>
              /\ Pulled' = Pulled /\ Sent = 2 * index + 2 /\ index' = index + 1
              /\ rx # <<>> /\ buf' = [buf EXCEPT ![index] = Head(rx)] /\ rx' = Tail(rx)
              /\ pc' \in {"first", "drain"}
         /\ Drain /\ pc' \in Loop => Pulled' = Pulled /\ pc' = "settle"
         /\ SettleBus => pc' = "park"
         /\ SmPullFirst \/ SmPullSecond => Pulled' = Pulled + 1
         /\ SmComplete \/ Around => Pulled' = Pulled
         /\ Enable => Pulled' = 2 * index
<1>1. index \in Nat /\ Len(tx) \in Nat
  BY Bounds DEF TypeOK
<1>2. Pulled \in Int /\ Sent \in Nat /\ Sent = Pulled + Len(tx)
  BY <1>1 DEF Pulled, Sent
<1>3. ASSUME PutFirst, pc' \in Loop
      PROVE  /\ Pulled' = Pulled /\ Sent = 2 * index /\ Len(tx) < Depth
             /\ tx' = Append(tx, First(index)) /\ pc = "first" /\ pc' = "second"
  <2>1. /\ pc = "first" /\ pc' = "second" /\ index' = index
        /\ Len(tx) < Depth /\ tx' = Append(tx, First(index))
    BY <1>3 DEF PutFirst, Put, Loop
  <2>2. Len(tx') = Len(tx) + 1
    BY <2>1, FifoElements, WordsTyped, IndexInLoop DEF TypeOK
  <2>3. QED
    BY <1>1, <2>1, <2>2 DEF Pulled, Sent
<1>4. ASSUME PutSecond, pc' \in Loop
      PROVE  /\ Pulled' = Pulled /\ Sent = 2 * index + 1 /\ Len(tx) < Depth
             /\ tx' = Append(tx, Second(index)) /\ pc = "second"
             /\ op = "read" => pc' = "get" /\ index' = index
  <2>1. /\ pc = "second" /\ Len(tx) < Depth /\ tx' = Append(tx, Second(index))
        /\ op = "read" => pc' = "get" /\ index' = index
        /\ op = "write" => pc' \in {"first", "drain"} /\ index' = index + 1
    BY <1>4 DEF PutSecond, Put, NextByte, Loop
  <2>2. Len(tx') = Len(tx) + 1
    BY <2>1, FifoElements, WordsTyped, IndexInLoop DEF TypeOK
  <2>3. QED
    BY <1>1, <2>1, <2>2 DEF Pulled, Sent, TypeOK, Ops
<1>5. ASSUME Get, pc' \in Loop
      PROVE  /\ Pulled' = Pulled /\ Sent = 2 * index + 2 /\ index' = index + 1
             /\ rx # <<>> /\ buf' = [buf EXCEPT ![index] = Head(rx)] /\ rx' = Tail(rx)
             /\ pc' \in {"first", "drain"}
  <2>1. /\ pc = "get" /\ pc' \in {"first", "drain"} /\ index' = index + 1 /\ tx' = tx
        /\ rx # <<>> /\ buf' = [buf EXCEPT ![index] = Head(rx)] /\ rx' = Tail(rx)
    BY <1>5 DEF Get, NextByte, Loop
  <2>2. QED
    BY <1>1, <2>1 DEF Pulled, Sent
<1>6. Drain /\ pc' \in Loop => Pulled' = Pulled /\ pc' = "settle"
  <2>1. Drain /\ pc' \in Loop => pc = "drain" /\ pc' = "settle" /\ index' = index /\ tx' = tx
    BY DEF Drain, Loop, smVars
  <2>2. QED
    BY <1>1, <2>1 DEF Pulled, Sent
<1>7. SmPullFirst \/ SmPullSecond => Pulled' = Pulled + 1
  <2>1. SmPullFirst \/ SmPullSecond => pc' = pc /\ index' = index /\ tx # <<>> /\ tx' = Tail(tx)
    BY SmFrame DEF StateMachine
  <2>2. tx # <<>> => Len(Tail(tx)) = Len(tx) - 1
    BY FifoElements DEF TypeOK
  <2>3. QED
    BY <1>1, <2>1, <2>2 DEF Pulled, Sent
<1>8. SmComplete \/ Around => Pulled' = Pulled
  BY SmFrame, AroundFrame DEF StateMachine, Pulled, Sent
<1>9. Enable => Pulled' = 2 * index
  BY <1>1, PinsFrame DEF Pulled, Sent
<1>10. SettleBus => pc' = "park"
  BY DEF SettleBus, At
<1>11. QED
  BY <1>1, <1>2, <1>3, <1>4, <1>5, <1>6, <1>7, <1>8, <1>9, <1>10

(* Steps that end outside the loop. *)
LEMMA LeavesLoop ==
  ASSUME (\E o \in Ops : Begin(o)) \/ Handover \/ TakeStrobes \/ TakeAddress \/ Park \/ Stop
         \/ SettleBus
  PROVE  pc' \notin Loop
BY BeginFrame, HandoverFrame, PinsFrame DEF SettleBus, At, Loop

(* The state machine acts in the loop only: what it is caught in after an abort hangs
   until it is stopped. *)
LEMMA ActsInLoop ==
  ASSUME Runs, HangsInWrites, AtRest, StateMachine
  PROVE  pc \in Loop
BY PullsInLoop, SmFrame DEF StateMachine, Runs, AtRest

LEMMA OneByOneStep ==
  ASSUME TypeOK, PadsFollow, Runs, CycleOpen, HangsInWrites, InStep, AtRest, Ended, OneByOne,
         [Next]_vars
  PROVE  OneByOne'
<1> SUFFICES ASSUME op' = "read", pc' \in Loop
             PROVE  /\ Pulled' >= 2 * index'
                    /\ pc' \notin {"second", "get"} => tx' = <<>>
                    /\ rx' # <<>> => /\ pc' = "get" /\ rx' = <<mem'[index']>> /\ tx' = <<>>
                                     /\ sm'.pc = "T0"
                    /\ sm'.pc = "ready" /\ ~sm'.write =>
                         /\ pc' = "get" /\ sm'.low /\ sm'.lines = index'
                         /\ rx' = <<>> /\ tx' = <<>>
  BY DEF OneByOne
<1> USE DEF OneByOne
<1>1. CASE Around
  BY <1>1, AroundFrame, PulledAfter
<1>2. CASE Enable
  <2>1. sm'.pc = "ready" => sm'.write
    BY <1>2, SmAfter, PinsFrame DEF AtRest, Loop
  <2>2. index' \in Nat /\ index' = index
    BY <1>2, PinsFrame, Bounds DEF TypeOK
  <2>3. QED
    BY <1>2, <2>1, <2>2, PinsFrame, PulledAfter
<1>3. CASE PutFirst
  <2>1. op = "read" /\ pc = "first" /\ pc' = "second" /\ pc \in Loop /\ Pulled' = Pulled
    BY <1>3, LoopFrame, PulledAfter DEF Loop
  <2>2. rx = <<>> /\ ~(sm.pc = "ready" /\ ~sm.write)
    BY <2>1
  <2>3. QED
    BY <1>3, <2>1, <2>2, LoopFrame
<1>4. CASE PutSecond
  <2>1. op = "read" /\ pc = "second" /\ pc' = "get" /\ pc \in Loop /\ Pulled' = Pulled
        /\ index' = index
    BY <1>4, LoopFrame, PulledAfter DEF Loop
  <2>2. rx = <<>> /\ ~(sm.pc = "ready" /\ ~sm.write)
    BY <2>1
  <2>3. QED
    BY <1>4, <2>1, <2>2, LoopFrame
<1>5. CASE Get
  <2>1. op = "read" /\ pc = "get" /\ pc \in Loop /\ Pulled' = Pulled /\ index' = index + 1
        /\ rx # <<>> /\ rx' = Tail(rx) /\ pc' \in {"first", "drain"}
    BY <1>5, LoopFrame, PulledAfter DEF Get
  <2>2. tx' = <<>> /\ sm'.pc = "T0" /\ Tail(rx) = <<>>
    BY <1>5, <2>1, LoopFrame
  <2>3. Pulled' = 2 * index'
    <3>1. Sent = 2 * index + 2 /\ Sent = Pulled + Len(tx) /\ Pulled \in Int
      BY <1>5, PulledAfter
    <3>2. Len(tx) = 0 /\ index \in Nat
      BY <1>5, <2>2, LoopFrame, Bounds DEF TypeOK
    <3>3. QED
      BY <2>1, <3>1, <3>2
  <2>4. index' \in Nat
    BY <2>1, Bounds DEF TypeOK
  <2>5. QED
    BY <2>1, <2>2, <2>3, <2>4
<1>6. CASE Drain
  <2>1. op = "read" /\ pc = "drain" /\ pc' = "settle" /\ pc \in Loop /\ Pulled' = Pulled
    BY <1>6, LoopFrame, PulledAfter DEF Drain
  <2>2. rx = <<>> /\ tx = <<>> /\ ~(sm.pc = "ready" /\ ~sm.write)
    BY <2>1
  <2>3. QED
    BY <1>6, <2>1, <2>2, LoopFrame
<1>7. CASE SmPullFirst
  <2>1. op = "read" /\ pc' = pc /\ index' = index /\ tx # <<>> /\ rx' = rx /\ sm'.pc = "second"
    BY <1>7, SmFrame, SmAfter DEF StateMachine
  <2>2. rx = <<>> /\ pc \in {"second", "get"}
    BY <2>1
  <2>3. Pulled' >= 2 * index'
    BY <1>7, <2>1, PulledAfter, Bounds DEF TypeOK
  <2>4. QED
    BY <2>1, <2>2, <2>3
<1>8. CASE SmPullSecond
  <2>1. op = "read" /\ pc' = pc /\ index' = index /\ tx # <<>> /\ rx' = rx /\ tx' = Tail(tx)
        /\ sm.pc = "second"
    BY <1>8, SmFrame DEF StateMachine
  <2>2. sm'.pc = "ready" /\ sm'.low /\ sm'.lines = sm.lines
    BY <1>8, SmAfter
  <2>3. rx = <<>>
    BY <2>1
  <2>4. sm.lines \in Nat /\ Pulled = 2 * sm.lines + 1 /\ index \in Nat /\ Pulled >= 2 * index
    BY <2>1, Bounds DEF InStep, InFifo, AtWord, Cell, TypeOK
  <2>5. Len(tx) >= 1 /\ Len(tx) \in Nat /\ Len(tx') = Len(tx) - 1
    BY <2>1, FifoElements DEF TypeOK
  <2>6. pc = "get" /\ sm.lines = index /\ Len(tx) = 1
    BY <2>4, <2>5 DEF Pulled, Sent
  <2>7. tx' = <<>>
    <3>1. tx' \in Seq(Word)
      BY <2>1, FifoTyped DEF TypeOK
    <3>2. QED
      BY <2>5, <2>6, <3>1
  <2>8. Pulled' >= 2 * index'
    BY <1>8, <2>1, <2>4, PulledAfter
  <2>9. QED
    BY <2>1, <2>2, <2>3, <2>6, <2>7, <2>8
<1>9. CASE SmComplete
  <2>1. op = "read" /\ pc' = pc /\ index' = index /\ tx' = tx /\ sm.pc = "ready" /\ sm'.pc = "T0"
        /\ strobes = "pio1"
    BY <1>9, SmFrame, SmAfter DEF StateMachine, PadsFollow
  <2>2. rx = <<>>
    BY <2>1
  <2>3. rx' # <<>> => pc = "get" /\ tx = <<>> /\ rx' = <<mem[index]>> /\ mem' = mem
    BY <1>9, <2>1, <2>2 DEF SmComplete, StrobeLow
  <2>4. QED
    BY <1>9, <2>1, <2>3, PulledAfter
<1>10. QED
  BY <1>1, <1>2, <1>3, <1>4, <1>5, <1>6, <1>7, <1>8, <1>9, Steps, LeavesLoop DEF StateMachine

(* Taking the first word of a FIFO moves the others up. *)
LEMMA InFifoPull ==
  ASSUME TypeOK, InFifo, tx # <<>>, tx' = Tail(tx), Pulled' = Pulled + 1, op' = op, buf' = buf
  PROVE  InFifo'
<1>1. \A i \in Cell : First(i)' = First(i) /\ Second(i)' = Second(i)
  BY DEF First, Second
<1>2. Len(tx) \in Nat /\ Len(tx') = Len(tx) - 1 /\ \A j \in 1 .. Len(tx) - 1 : tx'[j] = tx[j + 1]
  BY FifoElements DEF TypeOK
<1>3. SUFFICES ASSUME NEW j \in 1 .. Len(tx'), NEW i \in Cell
               PROVE  /\ Pulled' + j = 2 * i + 1 => tx'[j] = First(i)
                      /\ Pulled' + j = 2 * i + 2 => tx'[j] = Second(i)
  BY <1>1 DEF InFifo
<1>4. j \in Nat /\ j + 1 \in 1 .. Len(tx) /\ tx'[j] = tx[j + 1]
  BY <1>2
<1>5. Pulled' + j = Pulled + (j + 1)
  <2>1. Pulled \in Int
    BY PulledAfter
  <2>2. QED
    BY <1>4, <2>1
<1>6. /\ Pulled + (j + 1) = 2 * i + 1 => tx[j + 1] = First(i)
      /\ Pulled + (j + 1) = 2 * i + 2 => tx[j + 1] = Second(i)
  BY <1>4 DEF InFifo
<1>7. QED
  BY <1>4, <1>5, <1>6

(* A word put goes after the others; it is the next one. *)
LEMMA InFifoPut ==
  ASSUME TypeOK, InFifo, NEW w \in Word, tx' = Append(tx, w), Pulled' = Pulled,
         op' = op, buf' = buf,
         \A i \in Cell : /\ Sent + 1 = 2 * i + 1 => w = First(i)
                         /\ Sent + 1 = 2 * i + 2 => w = Second(i)
  PROVE  InFifo'
<1>1. \A i \in Cell : First(i)' = First(i) /\ Second(i)' = Second(i)
  BY DEF First, Second
<1>2. /\ Len(tx) \in Nat /\ Len(tx') = Len(tx) + 1 /\ tx'[Len(tx) + 1] = w
      /\ \A j \in 1 .. Len(tx) : tx'[j] = tx[j]
  BY FifoElements DEF TypeOK
<1>3. SUFFICES ASSUME NEW j \in 1 .. Len(tx'), NEW i \in Cell
               PROVE  /\ Pulled + j = 2 * i + 1 => tx'[j] = First(i)
                      /\ Pulled + j = 2 * i + 2 => tx'[j] = Second(i)
  BY <1>1 DEF InFifo
<1>4. CASE j \in 1 .. Len(tx)
  BY <1>2, <1>4 DEF InFifo
<1>5. CASE j = Len(tx) + 1
  <2>1. Pulled + j = Sent + 1
    <3>1. Pulled \in Int /\ Sent = Pulled + Len(tx)
      BY PulledAfter
    <3>2. QED
      BY <1>2, <1>5, <3>1
  <2>2. QED
    BY <1>2, <1>5, <2>1
<1>6. QED
  BY <1>2, <1>4, <1>5

LEMMA InStepStep ==
  ASSUME TypeOK, Runs, CycleOpen, HangsInWrites, InStep, AtRest, Ended, [Next]_vars
  PROVE  InStep'
<1> SUFFICES ASSUME pc' \in Loop
             PROVE  InFifo' /\ AtWord'
  BY DEF InStep
<1>1. CASE Around \/ Drain
  <2>1. UNCHANGED <<sm, tx, op, buf>> /\ Pulled' = Pulled /\ InFifo /\ AtWord
    BY <1>1, AroundFrame, LoopFrame, PulledAfter DEF InStep
  <2>2. QED
    BY <2>1 DEF InFifo, AtWord, First, Second, Writing
<1>2. CASE Enable
  <2>1. tx' = <<>> /\ Pulled' = 2 * index /\ index \in 0 .. Length
    BY <1>2, PinsFrame, PulledAfter DEF TypeOK
  <2>2. sm'.pc # "second" /\ ~sm'.low
    BY <1>2, SmAfter, PinsFrame DEF AtRest, Loop
  <2>3. QED
    BY <2>1, <2>2 DEF InFifo, AtWord
<1>3. CASE PutFirst
  <2>1. /\ UNCHANGED <<sm, op, buf>> /\ Pulled' = Pulled /\ InFifo /\ AtWord
        /\ tx' = Append(tx, First(index)) /\ Sent = 2 * index /\ pc = "first"
    BY <1>3, LoopFrame, PulledAfter DEF InStep
  <2>2. First(index) \in Word /\ index \in Nat
    BY <2>1, WordsTyped, IndexInLoop
  <2>3. \A i \in Cell : /\ Sent + 1 = 2 * i + 1 => First(index) = First(i)
                        /\ Sent + 1 = 2 * i + 2 => First(index) = Second(i)
    BY <2>1, <2>2 DEF Cell
  <2>4. InFifo'
    BY <2>1, <2>2, <2>3, InFifoPut
  <2>5. QED
    BY <2>1, <2>4 DEF AtWord, Second, Writing
<1>4. CASE PutSecond
  <2>1. /\ UNCHANGED <<sm, op, buf>> /\ Pulled' = Pulled /\ InFifo /\ AtWord
        /\ tx' = Append(tx, Second(index)) /\ Sent = 2 * index + 1 /\ pc = "second"
    BY <1>4, LoopFrame, PulledAfter DEF InStep
  <2>2. Second(index) \in Word /\ index \in Nat
    BY <2>1, WordsTyped, IndexInLoop
  <2>3. \A i \in Cell : /\ Sent + 1 = 2 * i + 1 => Second(index) = First(i)
                        /\ Sent + 1 = 2 * i + 2 => Second(index) = Second(i)
    BY <2>1, <2>2 DEF Cell
  <2>4. InFifo'
    BY <2>1, <2>2, <2>3, InFifoPut
  <2>5. QED
    BY <2>1, <2>4 DEF AtWord, Second, Writing
<1>5. CASE Get
  <2>1. UNCHANGED <<sm, tx, op>> /\ Pulled' = Pulled /\ op = "read" /\ InFifo /\ AtWord
    BY <1>5, LoopFrame, PulledAfter DEF Get, Ended, InStep
  <2>2. \A i : First(i)' = First(i) /\ Second(i)' = Second(i)
    BY <2>1 DEF First, Second
  <2>3. InFifo'
    BY <2>1, <2>2 DEF InFifo
  <2>4. AtWord'
    BY <2>1 DEF AtWord, Second, Writing
  <2>5. QED
    BY <2>3, <2>4
<1>6. CASE SmPullFirst
  <2>1. /\ UNCHANGED <<op, buf>> /\ pc \in Loop /\ tx # <<>> /\ tx' = Tail(tx)
        /\ Pulled' = Pulled + 1 /\ sm.pc = "T0"
    BY <1>6, SmFrame, PulledAfter DEF StateMachine
  <2>2. PICK i \in Cell : Pulled = 2 * i /\ Head(tx) = First(i)
    BY <2>1, HeadInStep
  <2>3. /\ sm'.pc = "second" /\ sm'.lines = i /\ (sm'.write <=> Writing) /\ ~sm'.low
    <3>1. First(i).at = i /\ (First(i).write <=> Writing)
      BY DEF First, Writing
    <3>2. sm'.pc = "second" /\ sm'.lines = First(i).at /\ (sm'.write <=> First(i).write)
      BY <1>6, <2>2, SmAfter
    <3>3. ~sm'.low
      BY <1>6, <2>1, SmAfter DEF CycleOpen
    <3>4. QED
      BY <3>1, <3>2, <3>3
  <2>4. InFifo'
    BY <2>1, InFifoPull DEF InStep
  <2>5. QED
    BY <2>1, <2>2, <2>3, <2>4 DEF AtWord, Writing
<1>7. CASE SmPullSecond
  <2>1. /\ UNCHANGED <<op, buf>> /\ pc \in Loop /\ tx # <<>> /\ tx' = Tail(tx)
        /\ Pulled' = Pulled + 1 /\ sm.pc = "second"
    BY <1>7, SmFrame, PulledAfter DEF StateMachine
  <2>2. /\ Head(tx) = Second(sm.lines) /\ sm.lines \in Cell /\ Pulled = 2 * sm.lines + 1
        /\ (sm.write <=> Writing)
    BY <2>1, HeadInStep DEF InStep, AtWord
  <2>3. /\ sm'.pc = "ready" /\ sm'.lines = sm.lines /\ (sm'.write <=> sm.write)
        /\ sm'.byte = Second(sm.lines).byte
    BY <1>7, <2>2, SmAfter
  <2>4. InFifo'
    BY <2>1, InFifoPull DEF InStep
  <2>5. Pulled' = 2 * (sm.lines + 1) /\ sm.lines + 1 \in 0 .. Length
    BY <2>1, <2>2, Lengths
  <2>6. QED
    <3>1. Second(sm.lines)' = Second(sm.lines) /\ Writing' = Writing
      BY <2>1, <2>3 DEF Second, Writing
    <3>2. Pulled' = 2 * sm'.lines + 2
      BY <2>3, <2>5, <2>2, Lengths
    <3>3. QED
      BY <2>2, <2>3, <2>4, <2>5, <3>1, <3>2 DEF AtWord
<1>8. CASE SmComplete
  <2>1. /\ UNCHANGED <<op, buf, tx>> /\ pc \in Loop /\ Pulled' = Pulled /\ sm.pc = "ready"
    BY <1>8, SmFrame, PulledAfter DEF StateMachine
  <2>2. sm'.pc = "T0" /\ ~sm'.low
    BY <1>8, SmAfter
  <2>3. InFifo'
    BY <2>1 DEF InStep, InFifo, First, Second
  <2>4. QED
    BY <2>1, <2>2, <2>3 DEF InStep, AtWord
<1>10. QED
  BY <1>1, <1>2, <1>3, <1>4, <1>5, <1>6, <1>7, <1>8, Steps, LeavesLoop DEF StateMachine

-----------------------------------------------------------------------------
(* Data: what reaches memory and the buffer. *)

(* A cycle that stores, stores a byte of the buffer in its place. *)
LEMMA StoresItsByte ==
  ASSUME TypeOK, InStep, pc \in Loop, sm.low, sm.write
  PROVE  Writing /\ sm.lines \in Cell /\ sm.byte = buf[sm.lines]
<1>1. AtWord
  BY DEF InStep
<1>2. Writing /\ sm.lines \in Cell /\ sm.byte = Second(sm.lines).byte
  BY <1>1 DEF AtWord
<1>3. Second(sm.lines).byte = buf[sm.lines]
  BY <1>2 DEF Second, Writing
<1>4. QED
  BY <1>2, <1>3

(* The cycle that the end of a batch finds hanging is that of its last byte. *)
LEMMA HangsAtLast ==
  ASSUME TypeOK, InStep, Ended, pc = "settle", sm.low
  PROVE  Pulled = 2 * index /\ sm.lines = index - 1 /\ sm.lines \in LastOfBatch
<1>1. tx = <<>> /\ BatchEnd(index) /\ AtWord /\ index \in Nat
  BY Bounds DEF Ended, InStep, TypeOK, Loop
<1>2. Pulled = 2 * index
  BY <1>1 DEF Pulled, Sent
<1>3. sm.lines \in Cell /\ sm.lines \in Nat /\ Pulled = 2 * sm.lines + 2
  BY <1>1 DEF AtWord, Cell
<1>4. sm.lines = index - 1 /\ sm.lines + 1 = index
  BY <1>1, <1>2, <1>3
<1>5. QED
  BY <1>1, <1>2, <1>3, <1>4 DEF LastOfBatch

LEMMA CutOffStep ==
  ASSUME TypeOK, CycleOpen, HangsInWrites, InStep, OneByOne, Ended, Runs, AtRest, CutOff,
         [Next]_vars
  PROVE  CutOff'
<1> SUFFICES ASSUME pc' = "park", sm'.low
             PROVE  /\ Writing' /\ sm'.lines \in Cell /\ sm'.byte = buf'[sm'.lines]
                    /\ result' = "none" => sm'.lines \in LastOfBatch
  <2>1. LastOfBatch' = LastOfBatch
    BY DEF LastOfBatch, BatchEnd
  <2>2. QED
    BY <2>1 DEF CutOff
<1>1. CASE Around
  BY <1>1, AroundFrame DEF CutOff, Writing
<1>2. CASE (\E o \in Ops : Begin(o)) \/ Handover \/ TakeStrobes \/ TakeAddress \/ Enable \/ Park \/ Stop
  BY <1>2, BeginFrame, HandoverFrame, PinsFrame
<1>3. CASE StateMachine
  BY <1>3, ActsInLoop, SmFrame DEF Loop
<1>4. CASE PutFirst \/ PutSecond \/ Get \/ Drain \/ SettleBus
  <2>1. UNCHANGED <<sm, op>> /\ pc \in Loop /\ sm.low
    BY <1>4, LoopFrame
  <2>2. sm.pc = "ready" /\ stuck
    <3>1. PutFirst \/ PutSecond => stuck
      BY DEF PutFirst, PutSecond, Put, NextByte
    <3>2. QED
      BY <1>4, <2>1, <3>1, LeavesAtRest DEF CycleOpen
  <2>3. Writing /\ sm.lines \in Cell /\ sm.byte = buf[sm.lines]
    BY <2>1, <2>2, StoresItsByte DEF HangsInWrites
  <2>4. buf' = buf
    BY <1>4, LoopFrame DEF Get, NextByte
  <2>5. result' = "none" => sm.lines \in LastOfBatch
    <3>1. result' = "none" => pc = "settle"
      BY <1>4, LeavesAtRest DEF SettleBus, At
    <3>2. QED
      BY <2>1, <3>1, HangsAtLast
  <2>6. QED
    BY <2>1, <2>3, <2>4, <2>5 DEF Writing
<1>5. QED
  BY <1>1, <1>2, <1>3, <1>4, Steps

(* Memory changes in a write only, and only where its byte belongs. *)
LEMMA MemoryAfter ==
  ASSUME TypeOK, PadsFollow, Runs, CycleOpen, HangsInWrites, InStep, AtRest, CutOff,
         [Next]_vars, mem' # mem
  PROVE  /\ SmComplete \/ Park
         /\ Writing /\ sm.low /\ sm.lines \in Cell /\ sm.byte = buf[sm.lines]
         /\ mem' = [mem EXCEPT ![sm.lines] = buf[sm.lines]]
<1>1. CASE SmComplete
  <2>1. sm.write /\ StrobeLow /\ mem' = [mem EXCEPT ![sm.lines] = sm.byte]
    BY <1>1 DEF SmComplete
  <2>2. pc \in Loop
    BY <1>1, ActsInLoop DEF StateMachine
  <2>3. QED
    BY <1>1, <2>1, <2>2, StoresItsByte DEF StrobeLow
<1>2. CASE Park
  <2>1. StrobeLow /\ mem' = [mem EXCEPT ![sm.lines] = sm.byte] /\ pc = "park"
    BY <1>2 DEF Park, At
  <2>2. QED
    BY <1>2, <2>1 DEF CutOff, StrobeLow
<1>3. CASE (\E o \in Ops : Begin(o)) \/ Handover \/ Around \/ TakeStrobes \/ TakeAddress \/ Enable \/ Stop
  BY <1>3, BeginFrame, HandoverFrame, AroundFrame, PinsFrame
<1>4. CASE PutFirst \/ PutSecond \/ Get \/ Drain \/ SettleBus
  BY <1>4, LoopFrame
<1>5. CASE SmPullFirst \/ SmPullSecond
  BY <1>5, SmFrame DEF StateMachine
<1>6. QED
  BY <1>1, <1>2, <1>3, <1>4, <1>5, Steps DEF StateMachine

LEMMA FetchedStep ==
  ASSUME TypeOK, PadsFollow, Runs, CycleOpen, HangsInWrites, InStep, AtRest, CutOff, Ended,
         OneByOne, Fetched, [Next]_vars
  PROVE  Fetched'
<1> SUFFICES ASSUME op' = "read", pc' # "idle", NEW i \in Cell, i < index'
             PROVE  buf'[i] = mem'[i]
  BY DEF Fetched
<1>1. CASE \E o \in Ops : Begin(o)
  BY <1>1, BeginFrame DEF Cell
<1>2. CASE Get
  <2>1. /\ op = "read" /\ mem' = mem /\ pc \in Loop /\ pc = "get" /\ index \in Cell
        /\ index \in Nat
    BY <1>2, LoopFrame, IndexInLoop DEF Get
  <2>2. CASE pc' \in Loop
    <3>1. rx # <<>> /\ buf' = [buf EXCEPT ![index] = Head(rx)] /\ index' = index + 1
      BY <1>2, <2>2, PulledAfter
    <3>2. Head(rx) = mem[index]
      BY <2>1, <3>1 DEF OneByOne
    <3>3. i # index => i < index
      BY <2>1, <3>1 DEF Cell
    <3>4. QED
      BY <2>1, <3>1, <3>2, <3>3 DEF Fetched, TypeOK
  <2>3. CASE pc' = "park"
    BY <1>2, <2>1, <2>3 DEF Get, NextByte, Fetched
  <2>4. QED
    BY <1>2, <2>2, <2>3, LoopFrame
<1>3. CASE ~Get /\ ~(\E o \in Ops : Begin(o))
  <2>1. UNCHANGED <<op, buf>>
    BY <1>3, Steps, HandoverFrame, AroundFrame, SmFrame, PinsFrame, LoopFrame
  <2>2. index' = index
    <3>1. PutSecond => index' = index
      BY <2>1 DEF PutSecond
    <3>2. QED
      BY <1>3, <3>1, Steps, HandoverFrame, AroundFrame, SmFrame, PinsFrame, LoopFrame
  <2>3. mem' = mem
    BY <2>1, MemoryAfter DEF Writing
  <2>4. pc # "idle"
    BY <1>3, Steps, HandoverFrame, AroundFrame, ActsInLoop, PinsFrame, LoopFrame DEF Loop
  <2>5. QED
    BY <2>1, <2>2, <2>3, <2>4 DEF Fetched
<1>4. QED
  BY <1>1, <1>2, <1>3

LEMMA StoredStep ==
  ASSUME TypeOK, PadsFollow, Runs, CycleOpen, HangsInWrites, InStep, AtRest, CutOff, Ended,
         ResultOpen, Stored, [Next]_vars
  PROVE  Stored'
<1> SUFFICES ASSUME Writing', result' = "none", NEW i \in Cell \ LastOfBatch, Past(i)'
             PROVE  mem'[i] = buf'[i]
  <2>1. LastOfBatch' = LastOfBatch
    BY DEF LastOfBatch, BatchEnd
  <2>2. QED
    BY <2>1 DEF Stored
<1>0. i \in Nat /\ i \in Cell /\ index \in Nat /\ Pulled \in Int
  BY PulledAfter, Bounds DEF Cell, TypeOK
<1>1. CASE \E o \in Ops : Begin(o)
  BY <1>0, <1>1, BeginFrame DEF Past, Loop
<1>2. ASSUME Writing, result = "none", buf' = buf, Past(i), mem' = mem
      PROVE  mem'[i] = buf'[i]
  BY <1>2 DEF Stored
<1>3. CASE Handover \/ TakeStrobes \/ TakeAddress \/ Stop
  <2>1. pc \notin Loop /\ pc' \notin Loop
    BY <1>3, HandoverFrame, PinsFrame DEF Loop
  <2>2. UNCHANGED <<op, index, buf, mem>> /\ result = "none"
    BY <1>3, HandoverFrame, PinsFrame
  <2>3. QED
    BY <1>2, <2>1, <2>2 DEF Past, Writing
<1>4. CASE Around
  <2>1. UNCHANGED <<sm, mem, pc, op, index, buf, result>> /\ Pulled' = Pulled
    BY <1>4, AroundFrame, PulledAfter
  <2>2. QED
    BY <1>2, <2>1 DEF Past, Writing
<1>5. CASE Enable
  <2>1. /\ UNCHANGED <<mem, op, index, buf, result>> /\ pc \notin Loop /\ pc' \in Loop
        /\ Pulled' = 2 * index
    BY <1>5, PinsFrame, PulledAfter DEF Loop
  <2>2. QED
    BY <1>0, <1>2, <2>1 DEF Past, Writing
<1>6. CASE Park
  <2>1. UNCHANGED <<sm, op, index, buf, result>> /\ pc \notin Loop /\ pc' \notin Loop
    BY <1>6, PinsFrame DEF Loop
  <2>2. mem[i] = buf[i]
    BY <2>1 DEF Past, Stored, Writing
  <2>3. mem' = mem \/ mem' = [mem EXCEPT ![sm.lines] = buf[sm.lines]]
    BY MemoryAfter
  <2>4. QED
    BY <1>0, <2>1, <2>2, <2>3 DEF TypeOK
<1>7. CASE PutFirst \/ PutSecond \/ Get \/ Drain
  <2>1. /\ UNCHANGED <<sm, mem, op>> /\ pc \in Loop /\ pc' \in Loop \cup {"park"}
        /\ result = "none" /\ Writing
    BY <1>7, LoopFrame DEF ResultOpen, Writing
  <2>2. ~Get
    BY <2>1 DEF Get, Ended, Writing
  <2>3. pc' # "park"
    <3>1. PutFirst \/ PutSecond \/ Drain => (pc' = "park" => result' = "failed")
      BY DEF PutFirst, PutSecond, Put, Drain, NextByte
    <3>2. QED
      BY <1>7, <2>2, <3>1
  <2>4. buf' = buf /\ Pulled' = Pulled
    BY <1>7, <2>1, <2>2, <2>3, LoopFrame, PulledAfter
  <2>5. QED
    BY <1>2, <2>1, <2>3, <2>4 DEF Past
<1>8. CASE SettleBus
  <2>1. /\ UNCHANGED <<sm, mem, op, buf, index, result>> /\ pc = "settle" /\ pc \in Loop
        /\ pc' \notin Loop /\ Writing
    BY <1>8, LoopFrame DEF SettleBus, At, opVars, Writing, Loop
  <2>2. Pulled = 2 * index
    BY <1>0, <2>1 DEF Ended, Pulled, Sent
  <2>3. i < index
    BY <2>1 DEF Past
  <2>4. ~(sm.low /\ sm.lines = i)
    BY <2>1, HangsAtLast
  <2>5. Past(i)
    BY <1>0, <2>1, <2>2, <2>3, <2>4 DEF Past
  <2>6. QED
    BY <1>2, <2>1, <2>5
<1>9. CASE StateMachine
  <2>1. /\ UNCHANGED <<op, buf, pc, result>> /\ pc \in Loop /\ Writing /\ AtWord
        /\ 2 * i + 2 <= Pulled' /\ ~(sm'.low /\ sm'.lines = i)
    BY <1>9, SmFrame, ActsInLoop DEF Writing, Past, InStep
  <2>2. CASE SmPullFirst
    <3>1. Pulled' = Pulled + 1 /\ mem' = mem /\ ~sm.low /\ sm.pc = "T0"
      BY <1>9, <2>2, SmFrame, PulledAfter DEF CycleOpen
    <3>2. PICK k \in 0 .. Length : Pulled = 2 * k
      BY <2>1, <3>1 DEF AtWord
    <3>3. 2 * i + 2 <= Pulled
      BY <1>0, <2>1, <3>1, <3>2, Bounds
    <3>4. QED
      BY <1>2, <2>1, <3>1, <3>3 DEF Past
  <2>3. CASE SmPullSecond
    <3>1. /\ Pulled' = Pulled + 1 /\ mem' = mem /\ ~sm.low /\ sm.pc = "second"
          /\ sm'.low /\ sm'.lines = sm.lines
      BY <1>9, <2>3, SmFrame, PulledAfter, SmAfter DEF CycleOpen
    <3>2. Pulled = 2 * sm.lines + 1 /\ sm.lines \in Nat /\ i # sm.lines
      BY <2>1, <3>1 DEF AtWord, Cell
    <3>3. 2 * i + 2 <= Pulled
      BY <1>0, <2>1, <3>1, <3>2
    <3>4. QED
      BY <1>2, <2>1, <3>1, <3>3 DEF Past
  <2>4. CASE SmComplete
    <3>1. Pulled' = Pulled /\ strobes = "pio1"
      BY <2>1, <2>4, PulledAfter DEF PadsFollow
    <3>2. CASE sm.low
      <4>1. sm.write /\ sm.lines \in Cell /\ sm.byte = buf[sm.lines]
        BY <2>1, <3>2, StoresItsByte DEF AtWord
      <4>2. mem' = [mem EXCEPT ![sm.lines] = buf[sm.lines]]
        BY <2>4, <3>1, <3>2, <4>1 DEF SmComplete, StrobeLow
      <4>3. i # sm.lines => mem[i] = buf[i]
        BY <2>1, <3>1 DEF Past, Stored
      <4>4. QED
        BY <1>0, <2>1, <4>2, <4>3 DEF TypeOK
    <3>3. CASE ~sm.low
      <4>1. mem' = mem
        BY <3>3, MemoryAfter
      <4>2. QED
        BY <1>2, <2>1, <3>1, <3>3, <4>1 DEF Past
    <3>4. QED
      BY <3>2, <3>3
  <2>5. QED
    BY <1>9, <2>2, <2>3, <2>4 DEF StateMachine
<1>10. QED
  BY <1>1, <1>3, <1>4, <1>5, <1>6, <1>7, <1>8, <1>9, Steps

-----------------------------------------------------------------------------
(* The theorems of the data. *)

LEMMA InitInv == Init => TypeOK /\ PadsFollow /\ DataInv
<1> SUFFICES ASSUME Init PROVE TypeOK /\ PadsFollow /\ DataInv
  OBVIOUS
<1>1. TypeOK
  <2>1. /\ [by |-> 0, at |-> 0] \in AnyByte /\ Floating \in AnyByte
        /\ \A a \in Cell \cup {Nowhere} : [by |-> 0, at |-> a] \in AnyByte
    BY Lengths, Bounds DEF AnyByte, Byte, Floating
  <2>2. sm \in SmState
    BY <2>1 DEF Init, SmState
  <2>3. mem \in [Cell \cup {Nowhere} -> AnyByte] /\ buf \in [Cell -> AnyByte]
    BY <2>1 DEF Init
  <2>4. tx \in Seq(Word) /\ Len(tx) <= Depth /\ rx \in Seq(AnyByte) /\ Len(rx) <= Depth
    BY Bounds DEF Init
  <2>5. hangs \in 0 .. MaxHangs /\ index \in 0 .. Length /\ count \in 0 .. MaxTransfers
    BY Bounds DEF Init
  <2>6. pc = "idle" /\ pc \in Points /\ op \in Ops
    BY DEF Init, Points, Ops
  <2>7. /\ hold \in BOOLEAN /\ hlda \in BOOLEAN /\ strobes \in {"none", "pio1", "sio"}
        /\ addrOut \in BOOLEAN /\ listening \in BOOLEAN /\ stuck \in BOOLEAN
        /\ result \in {"none", "done", "failed"}
    BY DEF Init
  <2>8. QED
    BY <2>2, <2>3, <2>4, <2>5, <2>6, <2>7 DEF TypeOK
<1>2. PadsFollow
  BY DEF Init, PadsFollow, Owned, Loop
<1>3. Runs /\ CycleOpen /\ HangsInWrites /\ InStep /\ AtRest /\ CutOff
  BY DEF Init, Runs, CycleOpen, HangsInWrites, InStep, AtRest, CutOff, Loop
<1>4. Ended /\ ResultOpen /\ Stored /\ Fetched /\ OneByOne
  BY DEF Init, Ended, ResultOpen, Stored, Fetched, OneByOne, Loop, Writing
<1>5. QED
  BY <1>1, <1>2, <1>3, <1>4 DEF DataInv

LEMMA DataStep ==
  ASSUME HangOn \subseteq {"write"}, TypeOK, PadsFollow, DataInv, [Next]_vars
  PROVE  TypeOK' /\ PadsFollow' /\ DataInv'
<1> USE DEF DataInv
<1>1. TypeOK' /\ PadsFollow'
  BY TypeStep, PadsStep
<1>2. Runs' /\ CycleOpen' /\ HangsInWrites' /\ InStep'
  BY RunsStep, CycleOpenStep, HangsInWritesStep, InStepStep
<1>3. AtRest' /\ CutOff' /\ Ended' /\ ResultOpen'
  BY AtRestStep, CutOffStep, EndedStep, ResultOpenStep
<1>4. Stored' /\ Fetched' /\ OneByOne'
  BY StoredStep, FetchedStep, OneByOneStep
<1>5. QED
  BY <1>1, <1>2, <1>3, <1>4

(* No FIFO overflows, no word of the wrong kind is taken and no byte outside the
   buffer is touched, for every length of transfer, batch and FIFO (dma_write_to_victor_ram,
   dma_read_from_victor_ram, dma_master.pio). *)
THEOREM TypeCorrect ==
  ASSUME HangOn \subseteq {"write"}
  PROVE  Spec => [](TypeOK /\ PadsFollow /\ DataInv)
<1>1. TypeOK /\ PadsFollow /\ DataInv /\ [Next]_vars => (TypeOK /\ PadsFollow /\ DataInv)'
  BY DataStep
<1>2. QED
  BY <1>1, InitInv, PTL DEF Spec

-----------------------------------------------------------------------------
(* The bus master implements BlockCopy. *)

LEMMA CopyStep ==
  ASSUME TypeOK, PadsFollow, DataInv, [Next]_vars
  PROVE  [Copy!Next]_(Copy!copyVars)
<1> USE DEF DataInv
<1>1. CASE \E o \in Ops : Begin(o)
  <2>1. PICK o \in {"read", "write"} : Begin(o)
    BY <1>1 DEF Ops
  <2>2. Copy!Begin(o)
    BY <2>1 DEF Begin, At, Copy!Begin, smVars
  <2>3. QED
    BY <2>2 DEF Copy!Next
<1>2. CASE Handover
  <2>1. UNCHANGED <<mem, op, buf, count>> /\ pc # "idle"
    BY <1>2, HandoverFrame
  <2>2. CASE pc' # "idle"
    BY <2>1, <2>2 DEF Copy!copyVars
  <2>3. CASE pc' = "idle" /\ result' = "failed"
    <3>1. Copy!Finish("failed")
      BY <2>1, <2>3 DEF Copy!Finish
    <3>2. QED
      BY <3>1 DEF Copy!Next
  <2>4. CASE pc' = "idle" /\ result' = "done"
    <3>1. result = "none" /\ index = Length /\ pc \notin Loop
      BY <1>2, <2>4, HandoverFrame DEF Loop
    <3>2. ASSUME NEW i \in Cell
          PROVE  buf[i] = mem[i] \/ (op = "write" /\ i \in LastOfBatch)
      <4>1. i < index
        BY <3>1, Bounds DEF Cell
      <4>2. CASE op = "read"
        BY <2>1, <4>1, <4>2 DEF Fetched
      <4>3. CASE op = "write"
        BY <3>1, <4>1, <4>3 DEF Stored, Past, Writing
      <4>4. QED
        BY <4>2, <4>3 DEF TypeOK, Ops
    <3>3. Copy!Finish("done")
      BY <2>1, <2>4, <3>2 DEF Copy!Finish, Copy!Copied
    <3>4. QED
      BY <3>3 DEF Copy!Next
  <2>5. QED
    BY <1>2, <2>2, <2>3, <2>4, HandoverFrame
<1>3. CASE Get
  <2>1. UNCHANGED <<mem, op, count>> /\ pc # "idle" /\ pc' # "idle" /\ op = "read" /\ index \in Cell
    BY <1>3, LoopFrame, IndexInLoop DEF Get, Ended, Loop
  <2>2. buf' = buf \/ (Head(rx) \in AnyByte /\ buf' = [buf EXCEPT ![index] = Head(rx)])
    BY <1>3, FifoTyped DEF Get, TypeOK
  <2>3. CASE buf' = buf
    BY <2>1, <2>3 DEF Copy!copyVars
  <2>4. CASE Head(rx) \in AnyByte /\ buf' = [buf EXCEPT ![index] = Head(rx)]
    <3>1. Copy!Fetch(index)
      BY <2>1, <2>4 DEF Copy!Fetch
    <3>2. QED
      BY <2>1, <3>1 DEF Copy!Next
  <2>5. QED
    BY <2>2, <2>3, <2>4
<1>4. CASE Around
  BY <1>4, AroundFrame DEF Copy!copyVars
<1>5. CASE StateMachine \/ Park
  <2>1. UNCHANGED <<op, buf, count>> /\ pc # "idle" /\ pc' # "idle"
    BY <1>5, SmFrame, ActsInLoop, PinsFrame DEF Loop
  <2>2. CASE mem' = mem
    BY <2>1, <2>2 DEF Copy!copyVars
  <2>3. CASE mem' # mem
    <3>1. op = "write" /\ sm.lines \in Cell /\ mem' = [mem EXCEPT ![sm.lines] = buf[sm.lines]]
      BY <2>3, MemoryAfter DEF Writing
    <3>2. Copy!Store(sm.lines)
      BY <2>1, <3>1 DEF Copy!Store
    <3>3. QED
      BY <3>1, <3>2 DEF Copy!Next
  <2>4. QED
    BY <2>2, <2>3
<1>6. CASE TakeStrobes \/ TakeAddress \/ Enable \/ Stop
  BY <1>6, PinsFrame DEF Copy!copyVars
<1>7. CASE PutFirst \/ PutSecond \/ Drain \/ SettleBus
  BY <1>7, LoopFrame DEF Copy!copyVars, Loop
<1>8. QED
  BY <1>1, <1>2, <1>3, <1>4, <1>5, <1>6, <1>7, Steps

(* A transfer is a copy or a failure, for every length of transfer, batch and FIFO, as
   long as READY hangs in write cycles only (dma_read_from_victor_ram,
   dma_write_to_victor_ram). *)
THEOREM CopiesOrFailsAlways ==
  ASSUME HangOn \subseteq {"write"}
  PROVE  Spec => CopiesOrFails
<1>1. Init => Copy!Init
  <2>1. Init => mem \in [Cell \cup {Nowhere} -> AnyByte]
    BY InitInv DEF TypeOK
  <2>2. QED
    BY <2>1 DEF Init, Copy!Init
<1>2. TypeOK /\ PadsFollow /\ DataInv /\ [Next]_vars => [Copy!Next]_(Copy!copyVars)
  BY CopyStep
<1>3. QED
  BY <1>1, <1>2, TypeCorrect, PTL DEF Spec, CopiesOrFails, Copy!Spec
=============================================================================
