--------------------------- MODULE DeferQueueProofs ---------------------------
(***************************************************************************)
(* Proofs about the deferred-operation ring, for every ring size, entry    *)
(* set and counter width: typing, the ownership of the slot under copy,    *)
(* and that the ring implements the bounded FIFO.                          *)
(***************************************************************************)
EXTENDS DeferQueue, TLAPS

(* The inductive invariant: TypeOK and what each end knows about the ring at
   each of its program points. *)
IInv ==
  /\ TypeOK
  /\ CopyIsOldest
  /\ StoreIsInvisible
  /\ TakesFromNonEmpty
  /\ PublishesWhatItStored

(* The successor of a slot is a slot: the mask never leaves the ring. *)
LEMMA SuccInRing ==
  ASSUME NEW i \in Slots
  PROVE  Succ(i) \in Slots
BY SizeAssumption DEF Succ, Slots

(* The refusal counter wraps inside its width. *)
LEMMA WrapIncInWidth ==
  ASSUME NEW n \in 0 .. DropWrap - 1
  PROVE  WrapInc(n) \in 0 .. DropWrap - 1
BY WrapAssumption DEF WrapInc

(* The ring starts in a state of the inductive invariant. *)
LEMMA InitIInv == Init => IInv
BY SizeAssumption, WrapAssumption
   DEF Init, IInv, TypeOK, CopyIsOldest, StoreIsInvisible, TakesFromNonEmpty,
       PublishesWhatItStored, Slots

(* Every step of the ISR or of the worker keeps the inductive invariant. *)
LEMMA NextIInv == IInv /\ [Next]_vars => IInv'
<1> SUFFICES ASSUME IInv, [Next]_vars
             PROVE  IInv'
  OBVIOUS
<1> USE SizeAssumption, WrapAssumption
<1> USE DEF IInv, TypeOK, CopyIsOldest, StoreIsInvisible, TakesFromNonEmpty,
            PublishesWhatItStored, Count
<1>1. ASSUME NEW e \in Entry, EnqueueTest(e)
      PROVE  IInv'
  <2>1. drops' \in 0 .. DropWrap - 1
    BY <1>1, WrapIncInWidth DEF EnqueueTest
  <2>2. ~Full => Count < Size - 1
    BY DEF Full, Succ, Slots
  <2>3. QED
    BY <1>1, <2>1, <2>2 DEF EnqueueTest
<1>2. CASE EnqueueStore
  <2>1. entries' \in [Slots -> Entry]
    BY <1>2 DEF EnqueueStore
  <2>2. head # tail \/ Count = 0
    OBVIOUS
  <2>3. CopyIsOldest'
    BY <1>2 DEF EnqueueStore, Slots
  <2>4. QED
    BY <1>2, <2>1, <2>3 DEF EnqueueStore
<1>3. CASE EnqueuePublish
  <2>1. head' \in Slots
    BY <1>3, SuccInRing DEF EnqueuePublish
  <2>2. Count' = Count + 1
    BY <1>3 DEF EnqueuePublish, Succ, Slots
  <2>3. Count \in Nat
    BY DEF Slots
  <2>4. QED
    BY <1>3, <2>1, <2>2, <2>3 DEF EnqueuePublish
<1>4. CASE DequeueTest
  <2>1. Count > 0
    BY <1>4 DEF DequeueTest, Empty, Slots
  <2>2. QED
    BY <1>4, <2>1 DEF DequeueTest
<1>5. CASE DequeueCopy
  BY <1>5 DEF DequeueCopy
<1>6. CASE DequeueRelease
  <2>1. tail' \in Slots
    BY <1>6, SuccInRing DEF DequeueRelease
  <2>2. Count' = Count - 1
    BY <1>6 DEF DequeueRelease, Succ, Slots
  <2>3. Count \in Nat
    BY DEF Slots
  <2>4. QED
    BY <1>6, <2>1, <2>2, <2>3 DEF DequeueRelease
<1>7. CASE UNCHANGED vars
  BY <1>7 DEF vars
<1>8. QED
  BY <1>1, <1>2, <1>3, <1>4, <1>5, <1>6, <1>7 DEF Next, Produce, Consume

(* The inductive invariant holds in every reachable state. *)
THEOREM Invariance == Spec => []IInv
<1>1. QED
  BY InitIInv, NextIInv, PTL DEF Spec

(* Indices, counter and program points stay in their ranges, for every ring
   size (defer_enqueue_fast, defer_dequeue). *)
THEOREM TypeCorrect == Spec => []TypeOK
<1>1. IInv => TypeOK
  BY DEF IInv
<1>2. QED
  BY <1>1, Invariance, PTL

(* The ISR never overwrites the slot the worker is copying out of
   (reg_queue_processor.c defer_dequeue copies before it advances tail). *)
THEOREM CopySafe == Spec => []CopyIsOldest
<1>1. IInv => CopyIsOldest
  BY DEF IInv
<1>2. QED
  BY <1>1, Invariance, PTL

-----------------------------------------------------------------------------
(* Refinement. *)

(* What the mapped queue looks like in terms of the ring. *)
QueuedFacts ==
  /\ Count \in Nat
  /\ Queued \in Seq(Entry)
  /\ Len(Queued) = Count
  /\ \A i \in 1 .. Count : Queued[i] = entries[Slot(i)] /\ Slot(i) \in Slots

(* The queued entries form a sequence as long as the ring's population. *)
LEMMA QueuedIsSeq == TypeOK => QueuedFacts
<1> SUFFICES ASSUME TypeOK
             PROVE  QueuedFacts
  OBVIOUS
<1> USE SizeAssumption DEF TypeOK, Count, Slot, Slots
<1>1. Count \in Nat
  OBVIOUS
<1>2. \A i \in 1 .. Count : Slot(i) \in Slots
  OBVIOUS
<1>3. Queued \in [1 .. Count -> Entry]
  BY <1>2 DEF Queued
<1>4. QED
  BY <1>1, <1>2, <1>3 DEF Queued, QueuedFacts

(* The same of the next state. *)
LEMMA QueuedIsSeqNext == TypeOK' => QueuedFacts'
BY QueuedIsSeq, PTL

(* Every step of the ring is a step of the bounded FIFO or leaves it alone:
   publishing appends, releasing removes the oldest, a full test refuses. *)
LEMMA StepRefines == IInv /\ [Next]_vars => [Fifo!Next]_(Fifo!absVars)
<1> SUFFICES ASSUME IInv, [Next]_vars
             PROVE  [Fifo!Next]_(Fifo!absVars)
  OBVIOUS
<1> USE SizeAssumption
<1>q. /\ TypeOK
      /\ TypeOK'
  BY NextIInv DEF IInv
<1>n. QueuedFacts
  BY <1>q, QueuedIsSeq
<1>m. QueuedFacts'
  BY <1>q, QueuedIsSeqNext
<1> USE DEF QueuedFacts
<1>1. ASSUME NEW e \in Entry, EnqueueTest(e)
      PROVE  [Fifo!Next]_(Fifo!absVars)
  <2>1. Queued' = Queued
    BY <1>1 DEF EnqueueTest, Queued, Count, Slot
  <2>2. CASE Full
    <3>1. Count = Size - 1
      BY <2>2, <1>q DEF Full, Succ, Count, TypeOK, Slots
    <3>2. Fifo!Refuse
      BY <1>1, <2>1, <2>2, <3>1, <1>n DEF EnqueueTest, Fifo!Refuse, Fifo!WrapInc, WrapInc
    <3>3. QED
      BY <3>2 DEF Fifo!Next
  <2>3. CASE ~Full
    BY <1>1, <2>1, <2>3 DEF EnqueueTest, Fifo!absVars
  <2>4. QED
    BY <2>2, <2>3
<1>2. CASE EnqueueStore
  <2>1. Count' = Count /\ \A i \in 1 .. Count : Slot(i)' = Slot(i)
    BY <1>2 DEF EnqueueStore, Count, Slot
  <2>2. \A i \in 1 .. Count : Slot(i) # head
    BY <1>q DEF TypeOK, Slots, Count, Slot
  <2>3. \A i \in 1 .. Count : entries'[Slot(i)] = entries[Slot(i)]
    BY <1>2, <1>n, <1>q, <2>2 DEF EnqueueStore, TypeOK
  <2>4. Queued' = Queued
    BY <2>1, <2>3 DEF Queued
  <2>5. QED
    BY <1>2, <2>4 DEF EnqueueStore, Fifo!absVars
<1>3. CASE EnqueuePublish
  <2>1. Count' = Count + 1 /\ Count < Size - 1
    BY <1>3, <1>q DEF EnqueuePublish, Succ, Slots, Count, TypeOK, IInv, StoreIsInvisible
  <2>2. \A i \in 1 .. Count + 1 : Slot(i)' = Slot(i)
    BY <1>3 DEF EnqueuePublish, Slot
  <2>3. Slot(Count + 1) = head
    BY <2>1, <1>q DEF TypeOK, Slots, Count, Slot
  <2>4. pval \in Entry /\ entries[head] = pval /\ entries' = entries
    BY <1>3, <1>q DEF EnqueuePublish, IInv, PublishesWhatItStored, TypeOK
  <2>5. /\ Append(Queued, pval) \in Seq(Entry)
        /\ Len(Append(Queued, pval)) = Count + 1
        /\ \A i \in 1 .. Count : Append(Queued, pval)[i] = Queued[i]
        /\ Append(Queued, pval)[Count + 1] = pval
    BY <1>n, <2>4
  <2>6. \A i \in 1 .. Count + 1 : Queued'[i] = Append(Queued, pval)[i]
    BY <1>n, <1>m, <2>1, <2>2, <2>3, <2>4, <2>5
  <2>7. Queued' = Append(Queued, pval)
    BY <1>m, <2>1, <2>5, <2>6
  <2>8. Fifo!Accept(pval)
    BY <1>3, <1>n, <2>1, <2>7 DEF EnqueuePublish, Fifo!Accept
  <2>9. QED
    BY <2>4, <2>8 DEF Fifo!Next
<1>4. CASE DequeueTest
  <2>1. Queued' = Queued
    BY <1>4 DEF DequeueTest, Queued, Count, Slot
  <2>2. QED
    BY <1>4, <2>1 DEF DequeueTest, Fifo!absVars
<1>5. CASE DequeueCopy
  <2>1. Queued' = Queued
    BY <1>5 DEF DequeueCopy, Queued, Count, Slot
  <2>2. QED
    BY <1>5, <2>1 DEF DequeueCopy, Fifo!absVars
<1>6. CASE DequeueRelease
  <2>1. Count > 0 /\ ccopy = entries[tail]
    BY <1>6 DEF DequeueRelease, IInv, CopyIsOldest
  <2>2. Count' = Count - 1
    BY <1>6, <1>q, <2>1 DEF DequeueRelease, Succ, Slots, Count, TypeOK
  <2>3. \A i \in 1 .. Count - 1 : Slot(i)' = Slot(i + 1)
    BY <1>6, <1>q DEF DequeueRelease, Slot, Succ, TypeOK, Slots, Count
  <2>4. Slot(1) = tail
    BY <1>q DEF Slot, TypeOK, Slots
  <2>5. Queued # <<>> /\ Head(Queued) = ccopy
    BY <1>n, <2>1, <2>4
  <2>6. /\ Tail(Queued) \in Seq(Entry)
        /\ Len(Tail(Queued)) = Count - 1
        /\ \A i \in 1 .. Count - 1 : Tail(Queued)[i] = Queued[i + 1]
    BY <1>n, <2>5
  <2>7. entries' = entries
    BY <1>6 DEF DequeueRelease
  <2>8. \A i \in 1 .. Count - 1 : Queued'[i] = Tail(Queued)[i]
    BY <1>n, <1>m, <2>1, <2>2, <2>3, <2>6, <2>7
  <2>9. Queued' = Tail(Queued)
    BY <1>m, <2>2, <2>6, <2>8
  <2>10. Fifo!Take
    BY <1>6, <2>5, <2>9 DEF DequeueRelease, Fifo!Take
  <2>11. QED
    BY <2>10 DEF Fifo!Next
<1>7. CASE UNCHANGED vars
  <2>1. Queued' = Queued
    BY <1>7 DEF vars, Queued, Count, Slot
  <2>2. QED
    BY <1>7, <2>1 DEF vars, Fifo!absVars
<1>8. QED
  BY <1>1, <1>2, <1>3, <1>4, <1>5, <1>6, <1>7 DEF Next, Produce, Consume

(* The empty ring is the empty buffer. *)
LEMMA InitRefines == Init => Fifo!Init
<1> SUFFICES ASSUME Init
             PROVE  Fifo!Init
  OBVIOUS
<1>1. TypeOK /\ Count = 0
  BY InitIInv DEF IInv, Init, Count
<1>2. Queued = <<>>
  BY <1>1, QueuedIsSeq DEF QueuedFacts
<1>3. QED
  BY <1>2 DEF Init, Fifo!Init

(* The ring of defer_enqueue_fast and defer_dequeue implements the bounded
   FIFO of Size - 1 entries: nothing accepted is lost, repeated or reordered,
   and an entry is refused only when Size - 1 are waiting. *)
THEOREM RingIsFifo == Spec => Fifo!Spec
<1>1. QED
  BY InitRefines, StepRefines, Invariance, PTL DEF Spec, Fifo!Spec
=============================================================================
