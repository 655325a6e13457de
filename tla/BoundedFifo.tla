----------------------------- MODULE BoundedFifo -----------------------------
(***************************************************************************)
(* What the deferred-operation queue between the register interrupt and    *)
(* the worker promises: a first-in first-out buffer of bounded capacity    *)
(* that refuses (and counts) an entry only when it is full, and never      *)
(* loses, repeats or reorders an accepted one.                             *)
(***************************************************************************)
EXTENDS Naturals, Sequences

CONSTANTS
  Entry,     \* what an entry can be (the raw 32-bit PIO word)
  Capacity,  \* entries the buffer holds
  DropWrap   \* the refusal counter is a machine word: it counts modulo this

VARIABLES
  fifo,      \* accepted entries, oldest first
  drops,     \* refused entries, modulo DropWrap
  taken      \* the entry handed to the consumer last, as a sequence of 0 or 1

absVars == <<fifo, drops, taken>>

WrapInc(n) == IF n = DropWrap - 1 THEN 0 ELSE n + 1

Init ==
  /\ fifo = <<>>
  /\ drops = 0
  /\ taken = <<>>

Accept(e) ==
  /\ Len(fifo) < Capacity
  /\ fifo' = Append(fifo, e)
  /\ UNCHANGED <<drops, taken>>

Refuse ==
  /\ Len(fifo) = Capacity
  /\ drops' = WrapInc(drops)
  /\ UNCHANGED <<fifo, taken>>

Take ==
  /\ fifo # <<>>
  /\ taken' = <<Head(fifo)>>
  /\ fifo' = Tail(fifo)
  /\ UNCHANGED drops

Next == (\E e \in Entry : Accept(e)) \/ Refuse \/ Take

Spec == Init /\ [][Next]_absVars

(* The consumer never stops while something is waiting. *)
FairSpec == Spec /\ WF_absVars(Take)
=============================================================================
