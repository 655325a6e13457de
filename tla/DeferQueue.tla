------------------------------ MODULE DeferQueue ------------------------------
(***************************************************************************)
(* The single-producer single-consumer ring of reg_queue_processor.h: the  *)
(* register ISR publishes raw bus operations, the core-1 worker takes them *)
(* one at a time.  Every load or store of a shared cell is a step of its   *)
(* own, so the result does not depend on the two ends sharing a core.      *)
(* One slot always stays empty: head = tail means empty.                   *)
(***************************************************************************)
EXTENDS Naturals, Sequences

CONSTANTS
  Entry,     \* the values of defer_entry_t.raw_value
  Size,      \* DEFER_QUEUE_SIZE, 256 in the code
  DropWrap   \* 2^32 in the code: drops is a uint32_t

ASSUME SizeAssumption == Size \in Nat /\ Size > 1
ASSUME WrapAssumption == DropWrap \in Nat /\ DropWrap > 0

VARIABLES
  entries,   \* the slots
  head,      \* producer index
  tail,      \* consumer index
  drops,     \* entries refused because the ring was full
  ppc,       \* where the ISR is in defer_enqueue_fast
  pval,      \* the entry it carries
  cpc,       \* where the worker is in defer_dequeue
  ccopy,     \* its local copy of the entry
  taken      \* history: the entry handed over last, as a sequence of 0 or 1

vars == <<entries, head, tail, drops, ppc, pval, cpc, ccopy, taken>>

Slots == 0 .. Size - 1

WrapInc(n) == IF n = DropWrap - 1 THEN 0 ELSE n + 1

SuccNoWrap(i) == i + 1

(* (i + 1) & DEFER_QUEUE_MASK *)
Succ(i) == IF i = Size - 1 THEN 0 ELSE i + 1

NeverFull == FALSE
(* next == queue->tail *)
Full == Succ(head) = tail

Empty == head = tail

Init ==
  \E e \in Entry :
    /\ entries = [i \in Slots |-> e]
    /\ head = 0
    /\ tail = 0
    /\ drops = 0
    /\ ppc = "idle"
    /\ pval = e
    /\ cpc = "idle"
    /\ ccopy = e
    /\ taken = <<>>

-----------------------------------------------------------------------------
(* Producer: defer_enqueue_fast. *)

(* Loads head and tail; a full ring is counted and the entry is refused. *)
EnqueueTest(e) ==
  /\ ppc = "idle"
  /\ IF Full
       THEN drops' = WrapInc(drops) /\ UNCHANGED <<ppc, pval>>
       ELSE ppc' = "store" /\ pval' = e /\ UNCHANGED drops
  /\ UNCHANGED <<entries, head, tail, cpc, ccopy, taken>>

EnqueueStore ==
  /\ ppc = "store"
  /\ entries' = [entries EXCEPT ![head] = pval]
  /\ ppc' = "publish"
  /\ UNCHANGED <<head, tail, drops, pval, cpc, ccopy, taken>>

(* After the dmb: the new head makes the slot visible to the consumer. *)
EnqueuePublish ==
  /\ ppc = "publish"
  /\ head' = Succ(head)
  /\ ppc' = "idle"
  /\ UNCHANGED <<entries, tail, drops, pval, cpc, ccopy, taken>>

-----------------------------------------------------------------------------
(* Consumer: defer_dequeue. *)

DequeueTest ==
  /\ cpc = "idle"
  /\ ~Empty
  /\ cpc' = "copy"
  /\ UNCHANGED <<entries, head, tail, drops, ppc, pval, ccopy, taken>>

DequeueCopy ==
  /\ cpc = "copy"
  /\ ccopy' = entries[tail]
  /\ cpc' = "release"
  /\ UNCHANGED <<entries, head, tail, drops, ppc, pval, taken>>

(* After the dmb: the advanced tail gives the slot back to the producer. *)
DequeueRelease ==
  /\ cpc = "release"
  /\ tail' = Succ(tail)
  /\ taken' = <<ccopy>>
  /\ cpc' = "idle"
  /\ UNCHANGED <<entries, head, drops, ppc, pval, ccopy>>

-----------------------------------------------------------------------------
Produce == (\E e \in Entry : EnqueueTest(e)) \/ EnqueueStore \/ EnqueuePublish
Consume == DequeueTest \/ DequeueCopy \/ DequeueRelease

Next == Produce \/ Consume

Spec == Init /\ [][Next]_vars

(* The worker loop of core 1 never blocks with the queue non-empty. *)
FairSpec == Spec /\ WF_vars(Consume)

-----------------------------------------------------------------------------
(* Type invariant: every index stays inside the ring. *)
TypeOK ==
  /\ entries \in [Slots -> Entry]
  /\ head \in Slots
  /\ tail \in Slots
  /\ drops \in 0 .. DropWrap - 1
  /\ ppc \in {"idle", "store", "publish"}
  /\ pval \in Entry
  /\ cpc \in {"idle", "copy", "release"}
  /\ ccopy \in Entry
  /\ taken = <<>> \/ \E e \in Entry : taken = <<e>>

(* Entries between tail and head, and the slot of the i-th of them. *)
Count == IF head >= tail THEN head - tail ELSE head - tail + Size
Slot(i) == IF tail + i - 1 < Size THEN tail + i - 1 ELSE tail + i - 1 - Size

Queued == [i \in 1 .. Count |-> entries[Slot(i)]]

(* The worker's copy of a slot it has not yet released is still the oldest
   queued entry: the ISR never overwrites the slot under defer_dequeue. *)
CopyIsOldest == cpc = "release" => Count > 0 /\ ccopy = entries[tail]

(* The entry the ISR is writing lies outside what the worker can see, and the
   ring was not filled up behind its full test. *)
StoreIsInvisible == ppc # "idle" => Count < Size - 1

(* Consumer and producer positions are consistent with their program points. *)
TakesFromNonEmpty == cpc # "idle" => Count > 0

PublishesWhatItStored == ppc = "publish" => entries[head] = pval

Fifo == INSTANCE BoundedFifo
          WITH Entry <- Entry, Capacity <- Size - 1, DropWrap <- DropWrap,
               fifo <- Queued, drops <- drops, taken <- taken

(* The ring is a bounded FIFO: every step of either end is a step of the
   abstract buffer or a stutter, and an entry waiting is eventually taken
   (defer_enqueue_fast and defer_dequeue against BoundedFifo). *)
ImplementsFifo == Fifo!FairSpec
ImplementsFifoSafety == Fifo!Spec
=============================================================================
