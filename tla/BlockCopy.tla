----------------------------- MODULE BlockCopy -----------------------------
(***************************************************************************)
(* What a block transfer promises the SASI commands that call it           *)
(* (dma_read_from_victor_ram, dma_write_to_victor_ram): a copy between the *)
(* buffer and the memory of the Victor that either says true, with every   *)
(* byte in its place, or says false, with no byte anywhere else than its   *)
(* place.  The one thing a true write does not promise are the bytes of    *)
(* Doubtful.                                                               *)
(***************************************************************************)
EXTENDS Naturals

CONSTANTS
  Cell,      \* the bytes of a block, and their places in memory
  Memory,    \* all of memory that is in reach
  Doubtful,  \* bytes a write may lose although it returns true
  Data,      \* what a byte can be
  Fresh(_),  \* the buffer of the n-th transfer, when it is a write
  Blank      \* the buffer of a read before it has read anything

VARIABLES mem, buf, op, busy, result, count

copyVars == <<mem, buf, op, busy, result, count>>

Init ==
  /\ mem \in [Memory -> Data]
  /\ buf = Blank
  /\ op = "read"
  /\ busy = FALSE
  /\ result = "none"
  /\ count = 0

Begin(o) ==
  /\ ~busy
  /\ busy' = TRUE
  /\ op' = o
  /\ count' = count + 1
  /\ buf' = IF o = "write" THEN Fresh(count + 1) ELSE Blank
  /\ result' = "none"
  /\ UNCHANGED mem

(* A read may fetch anything, as long as it is right when the read is done. *)
Fetch(i) ==
  /\ busy /\ op = "read"
  /\ \E d \in Data : buf' = [buf EXCEPT ![i] = d]
  /\ UNCHANGED <<mem, op, busy, result, count>>

(* A write stores its own bytes, in any order, each in its place. *)
Store(i) ==
  /\ busy /\ op = "write"
  /\ mem' = [mem EXCEPT ![i] = buf[i]]
  /\ UNCHANGED <<buf, op, busy, result, count>>

Copied == \A i \in Cell : buf[i] = mem[i] \/ (op = "write" /\ i \in Doubtful)

Finish(r) ==
  /\ busy
  /\ r = "done" => Copied
  /\ busy' = FALSE
  /\ result' = r
  /\ UNCHANGED <<mem, buf, op, count>>

Next ==
  \/ \E o \in {"read", "write"} : Begin(o)
  \/ \E i \in Cell : Fetch(i) \/ Store(i)
  \/ \E r \in {"done", "failed"} : Finish(r)

Spec == Init /\ [][Next]_copyVars
=============================================================================
