----------------------------- MODULE CoreLoops -----------------------------
(***************************************************************************)
(* The main loops of the two cores, as far as they watch the board rather  *)
(* than serve it.  Core 1 executes deferred operations, logs the SASI      *)
(* commands among them, writes the log to the card when the bus has been   *)
(* idle, and executes console operations.  Core 0 may write the log too    *)
(* (SASI_LOG_AUTO_FLUSH_DEFAULT), and watches whether core 1 makes any     *)
(* progress.  Both cores use FatFs, one at a time (fatfs_guard).           *)
(***************************************************************************)
EXTENDS Naturals, Sequences

CONSTANTS
  Size,        \* SASI_LOG_BUFFER_SIZE, 512
  Batch,       \* records that fit into sasi_log_batch, about 25
  Wrap,        \* the ring indices are machine words: they count modulo this
  AutoFlush,   \* whether core 0 writes the log as well
  MaxCommands, \* bound: commands of the host
  MaxFaults    \* bound: writes of the log that fail on an open file

ASSUME SizesAssumption ==
  /\ Size \in Nat \ {0} /\ Batch \in Nat \ {0}
  /\ Wrap \in Nat /\ Wrap > Size /\ Wrap % Size = 0
ASSUME BoundsAssumption ==
  AutoFlush \in BOOLEAN /\ MaxCommands \in Nat /\ MaxFaults \in Nat

VARIABLES
  ring, write, read, \* sasi_log_buffer
  enabled, fileOpen, \* sasi_log_enabled, sasi_log_file_open
  batch,     \* sasi_log_batch up to batch_pos
  guard,     \* who holds fatfs_mutex: a core, or Nobody
  idle,      \* was_bus_free, and whether 50 ms have passed since bus_free_since
  busFree,   \* bus_ctrl is zero
  inDma,     \* sasi_in_dma_transfer
  processed, \* defer_queue.processed
  ready,     \* storage_ready
  pc,        \* where each core is
  ret,       \* where core 1 goes after pushing a record or using the card
  local,     \* the indices loaded by a push, the record copied by a flush
  due,       \* 100 ms have passed since the last check
  busyIsr,   \* more than 1000 calls of the register ISR since then
  seen,      \* last_defer_processed, and the count the check under way has read
  reported,  \* stuck_already_reported
  file,      \* the records in SASI_LOG.TXT
  accepted,  \* history: the records the ring has taken
  commands,  \* history: commands so far
  faults     \* history: failed writes so far

ringVars == <<ring, write, read>>
logVars == <<enabled, fileOpen, batch, file>>
cardVars == <<guard, idle, faults>>
workVars == <<busFree, inDma, processed, ready>>
watchVars == <<due, busyIsr, seen, reported>>
histVars == <<accepted, commands>>
vars == <<ringVars, logVars, cardVars, workVars, pc, ret, local, watchVars, histVars>>

Core == {0, 1}
Nobody == 2

Goto(c, q) == pc' = [pc EXCEPT ![c] = q]
Inc(i) == (i + 1) % Wrap
Waiting == (write - read) % Wrap
(* The records between the two indices, oldest first. *)
Pending == [i \in 1 .. Waiting |-> ring[(read + i - 1) % Size]]

-----------------------------------------------------------------------------
(* Core 1: sasi_log_push, one load or store a step.  It refuses a record when the
   ring is full, or the log disabled. *)

FullOneLate(w, r) == (w - r) % Wrap > Size
Full(w, r) == (w - r) % Wrap >= Size

PushTest ==
  /\ pc[1] = "push"
  /\ local' = [local EXCEPT !.write = write, !.read = read]
  /\ Goto(1, IF enabled /\ ~Full(write, read) THEN "store" ELSE ret.push)
  /\ UNCHANGED <<ringVars, logVars, cardVars, workVars, ret, watchVars, histVars>>

PushStore ==
  /\ pc[1] = "store"
  /\ ring' = [ring EXCEPT ![local.write % Size] = Len(accepted) + 1]
  /\ Goto(1, "publish")
  /\ UNCHANGED <<write, read, logVars, cardVars, workVars, ret, local, watchVars, histVars>>

PushPublish ==
  /\ pc[1] = "publish"
  /\ write' = Inc(write)
  /\ accepted' = Append(accepted, Len(accepted) + 1)
  /\ Goto(1, ret.push)
  /\ UNCHANGED <<ring, read, logVars, cardVars, workVars, ret, local, watchVars, commands>>

-----------------------------------------------------------------------------
(* Either core: sasi_log_flush_if_ready.  The tests, the last of them being
   whether there is anything to write. *)

After(c) == IF c = 0 THEN "check" ELSE "service"

FlushTestForgets(c) ==
  /\ pc[c] = "flush"
  /\ \/ /\ ~enabled \/ ~fileOpen
        /\ Goto(c, After(c))
        /\ UNCHANGED idle
     \/ /\ enabled /\ fileOpen
        /\ idle' = [was |-> busFree /\ ~idle.was, long |-> idle.long /\ idle.was /\ busFree]
        /\ Goto(c, IF busFree /\ idle.was /\ idle.long /\ Waiting # 0 THEN "try" ELSE After(c))
  /\ UNCHANGED <<ringVars, logVars, guard, faults, workVars, ret, local, watchVars, histVars>>

FlushTest(c) ==
  /\ pc[c] = "flush"
  /\ \/ /\ ~enabled \/ ~fileOpen
        /\ Goto(c, After(c))
        /\ UNCHANGED idle
     \/ /\ enabled /\ fileOpen
        /\ idle' = [was |-> busFree, long |-> idle.long /\ idle.was /\ busFree]
        /\ Goto(c, IF busFree /\ idle.was /\ idle.long /\ Waiting # 0 THEN "try" ELSE After(c))
  /\ UNCHANGED <<ringVars, logVars, guard, faults, workVars, ret, local, watchVars, histVars>>

TryLockAnyway(c) ==
  /\ pc[c] = "try"
  /\ Goto(c, "format")
  /\ guard' = c
  /\ UNCHANGED <<ringVars, logVars, idle, faults, workVars, ret, local, watchVars, histVars>>

TryLock(c) ==
  /\ pc[c] = "try"
  /\ IF guard = Nobody THEN guard' = c /\ Goto(c, "format")
                       ELSE UNCHANGED guard /\ Goto(c, After(c))
  /\ UNCHANGED <<ringVars, logVars, idle, faults, workVars, ret, local, watchVars, histVars>>

(* sasi_log_flush_locked: records are formatted into the batch until the ring is
   empty or the batch full ... *)
Format(c) ==
  /\ pc[c] = "format"
  /\ \/ /\ read # write /\ Len(batch) < Batch
        /\ local' = [local EXCEPT !.entry = ring[read % Size]]
        /\ Goto(c, "release")
     \/ /\ read = write \/ Len(batch) = Batch
        /\ Goto(c, IF batch = <<>> THEN "unlock" ELSE "write")
        /\ UNCHANGED local
  /\ UNCHANGED <<ringVars, logVars, cardVars, workVars, ret, watchVars, histVars>>

Release(c) ==
  /\ pc[c] = "release"
  /\ batch' = Append(batch, local.entry)
  /\ read' = Inc(read)
  /\ Goto(c, "format")
  /\ UNCHANGED <<ring, write, enabled, fileOpen, file, cardVars, workVars, ret, local, watchVars, histVars>>

(* ... and written in one piece. *)
WriteBatch(c) ==
  /\ pc[c] = "write"
  /\ fileOpen
  /\ file' = file \o batch
  /\ batch' = <<>>
  /\ Goto(c, "unlock")
  /\ UNCHANGED <<ringVars, enabled, fileOpen, cardVars, workVars, ret, local, watchVars, histVars>>

(* The write fails, or ends early on a full card; on a file that is closed it fails
   in any case (FatFs checks its handle). *)
WriteFails(c) ==
  /\ pc[c] = "write"
  /\ \/ /\ fileOpen /\ faults < MaxFaults
        /\ faults' = faults + 1
        /\ \E n \in 0 .. Len(batch) - 1 : file' = file \o SubSeq(batch, 1, n)
     \/ /\ ~fileOpen
        /\ UNCHANGED <<faults, file>>
  /\ batch' = <<>>
  /\ fileOpen' = FALSE /\ enabled' = FALSE
  /\ Goto(c, "unlock")
  /\ UNCHANGED <<ringVars, guard, idle, workVars, ret, local, watchVars, histVars>>

Unlock(c) ==
  /\ pc[c] = "unlock"
  /\ guard' = Nobody
  /\ idle' = [idle EXCEPT !.long = FALSE]
  /\ Goto(c, After(c))
  /\ UNCHANGED <<ringVars, logVars, faults, workVars, ret, local, watchVars, histVars>>

Flush(c) ==
  \/ FlushTest(c) \/ TryLock(c) \/ Format(c) \/ Release(c)
  \/ WriteBatch(c) \/ WriteFails(c) \/ Unlock(c)

-----------------------------------------------------------------------------
(* Core 1: the end of core1_main, and defer_worker_main. *)

(* sasi_log_init: the marker file and a log file that can be opened and written. *)
InitLog ==
  /\ pc[1] = "boot"
  /\ \E usable \in BOOLEAN : enabled' = usable /\ fileOpen' = usable
  /\ ready' = TRUE
  /\ Goto(1, "loop")
  /\ UNCHANGED <<ringVars, batch, file, cardVars, busFree, inDma, processed, ret, local, watchVars, histVars>>

(* A command of the host: its first record, the card, its second record.  READ and
   WRITE are a DMA transfer as well. *)
TakeCommand ==
  /\ pc[1] = "loop"
  /\ busFree /\ commands < MaxCommands
  /\ commands' = commands + 1
  /\ busFree' = FALSE
  /\ Goto(1, "push")
  /\ \E d \in BOOLEAN : ret' = [push |-> IF d THEN "transfer" ELSE "lock", card |-> "done"]
  /\ UNCHANGED <<ringVars, logVars, cardVars, inDma, processed, ready, local, watchVars, accepted>>

BeginTransfer ==
  /\ pc[1] = "transfer"
  /\ inDma' = TRUE
  /\ Goto(1, "lock")
  /\ UNCHANGED <<ringVars, logVars, cardVars, busFree, processed, ready, ret, local, watchVars, histVars>>

EndCommand ==
  /\ pc[1] = "done"
  /\ inDma' = FALSE
  /\ ret' = [ret EXCEPT !.push = "processed"]
  /\ Goto(1, "push")
  /\ UNCHANGED <<ringVars, logVars, cardVars, busFree, processed, ready, local, watchVars, histVars>>

(* Any other entry: here the read of the message byte, which frees the bus. *)
TakeMessageRead ==
  /\ pc[1] = "loop"
  /\ ~busFree
  /\ busFree' = TRUE
  /\ Goto(1, "processed")
  /\ UNCHANGED <<ringVars, logVars, cardVars, inDma, processed, ready, ret, local, watchVars, histVars>>

Processed ==
  /\ pc[1] = "processed"
  /\ processed' = processed + 1
  /\ Goto(1, "loop")
  /\ UNCHANGED <<ringVars, logVars, cardVars, busFree, inDma, ready, ret, local, watchVars, histVars>>

QueueEmpty ==
  /\ pc[1] = "loop"
  /\ Goto(1, "flush")
  /\ UNCHANGED <<ringVars, logVars, cardVars, workVars, ret, local, watchVars, histVars>>

(* console_op_service: no operation, or one that uses the card. *)
Service ==
  /\ pc[1] = "service"
  /\ \/ /\ Goto(1, "loop")
        /\ UNCHANGED ret
     \/ /\ Goto(1, "lock")
        /\ ret' = [ret EXCEPT !.card = "loop"]
  /\ UNCHANGED <<ringVars, logVars, cardVars, workVars, local, watchVars, histVars>>

(* Storage waits for the guard; a flush only tries. *)
Lock ==
  /\ pc[1] = "lock"
  /\ guard = Nobody
  /\ guard' = 1
  /\ Goto(1, "using")
  /\ UNCHANGED <<ringVars, logVars, idle, faults, workVars, ret, local, watchVars, histVars>>

UseCard ==
  /\ pc[1] = "using"
  /\ guard' = Nobody
  /\ Goto(1, ret.card)
  /\ UNCHANGED <<ringVars, logVars, idle, faults, workVars, ret, local, watchVars, histVars>>

Worker ==
  \/ InitLog \/ TakeCommand \/ BeginTransfer \/ EndCommand \/ TakeMessageRead \/ Processed
  \/ QueueEmpty \/ Service \/ Lock \/ UseCard
  \/ PushTest \/ PushStore \/ PushPublish \/ Flush(1)

(* Core 1 hangs, in whatever it was doing. *)
Hang ==
  /\ pc[1] \in {"using", "push", "done"}
  /\ Goto(1, "hung")
  /\ UNCHANGED <<ringVars, logVars, cardVars, workVars, ret, local, watchVars, histVars>>

-----------------------------------------------------------------------------
(* Core 0: the loop of main. *)

Turn ==
  /\ pc[0] = "loop"
  /\ Goto(0, IF AutoFlush /\ ready THEN "flush" ELSE "check")
  /\ UNCHANGED <<ringVars, logVars, cardVars, workVars, ret, local, watchVars, histVars>>

(* The stuck detector, every 100 ms: it reads the two counters ... *)
Sample ==
  /\ pc[0] = "check"
  /\ Goto(0, IF due THEN "judge" ELSE "loop")
  /\ seen' = IF due THEN [seen EXCEPT !.now = processed] ELSE seen
  /\ UNCHANGED <<ringVars, logVars, cardVars, workVars, ret, local, due, busyIsr, reported, histVars>>

Stalled == seen.now = seen.last
JudgeKeepsLast ==
  /\ pc[0] = "judge"
  /\ reported' = (Stalled /\ (reported \/ (ready /\ ~inDma /\ busyIsr)))
  /\ seen' = [seen EXCEPT !.now = 0]
  /\ due' = FALSE /\ busyIsr' = FALSE
  /\ Goto(0, "loop")
  /\ UNCHANGED <<ringVars, logVars, cardVars, workVars, ret, local, histVars>>

(* ... and reports core 1, once until it processes something again. *)
Judge ==
  /\ pc[0] = "judge"
  /\ reported' = (Stalled /\ (reported \/ (ready /\ ~inDma /\ busyIsr)))
  /\ seen' = [last |-> seen.now, now |-> 0]
  /\ due' = FALSE /\ busyIsr' = FALSE
  /\ Goto(0, "loop")
  /\ UNCHANGED <<ringVars, logVars, cardVars, workVars, ret, local, histVars>>

MainLoop == Turn \/ Flush(0) \/ Sample \/ Judge

-----------------------------------------------------------------------------
(* Time, and a host that polls a register more than ten times a millisecond. *)

IdleElapses ==
  /\ idle.was /\ ~idle.long
  /\ idle' = [idle EXCEPT !.long = TRUE]
  /\ UNCHANGED <<ringVars, logVars, guard, faults, workVars, pc, ret, local, watchVars, histVars>>

CheckDue ==
  /\ ~due
  /\ due' = TRUE
  /\ UNCHANGED <<ringVars, logVars, cardVars, workVars, pc, ret, local, busyIsr, seen, reported, histVars>>

HostPolls ==
  /\ ~busyIsr
  /\ busyIsr' = TRUE
  /\ UNCHANGED <<ringVars, logVars, cardVars, workVars, pc, ret, local, due, seen, reported, histVars>>

Init ==
  /\ ring = [i \in 0 .. Size - 1 |-> 0] /\ write = 0 /\ read = 0
  /\ enabled = FALSE /\ fileOpen = FALSE /\ batch = <<>> /\ file = <<>>
  /\ guard = Nobody /\ idle = [was |-> FALSE, long |-> FALSE] /\ faults = 0
  /\ busFree = TRUE /\ inDma = FALSE /\ processed = 0 /\ ready = FALSE
  /\ pc = [c \in Core |-> IF c = 0 THEN "loop" ELSE "boot"]
  /\ ret = [push |-> "lock", card |-> "loop"]
  /\ local = [write |-> 0, read |-> 0, entry |-> 0]
  /\ due = FALSE /\ busyIsr = FALSE /\ seen = [last |-> 0, now |-> 0] /\ reported = FALSE
  /\ accepted = <<>> /\ commands = 0

Next == Worker \/ Hang \/ MainLoop \/ IdleElapses \/ CheckDue \/ HostPolls

Spec == Init /\ [][Next]_vars

(* Both loops go round for ever, unless core 1 hangs; time passes. *)
FairSpec ==
  /\ Spec
  /\ WF_vars(Worker) /\ WF_vars(MainLoop) /\ WF_vars(IdleElapses) /\ WF_vars(CheckDue)

-----------------------------------------------------------------------------
(* The log is the records the ring took, in order, each once and whole: while it is
   enabled each of them is in the file, in the batch or in the ring, whichever core
   writes; and what a failed write leaves is a prefix (sasi_log_push, "Overflow guard",
   sasi_log_flush_locked). *)
LogIsFaithful ==
  /\ Len(file) <= Len(accepted) /\ file = SubSeq(accepted, 1, Len(file))
  /\ enabled => file \o batch \o Pending = accepted

(* The two cores are never in FatFs together, nor in the one batch buffer
   (fatfs_guard.c; "MUST NOT be on Core 1 stack", sasi_log_batch). *)
Inside == {c \in Core : pc[c] \in {"format", "release", "write", "unlock", "using"}}
OneInFatFs == \A c, d \in Inside : c = d

(* Once the bus stays free the log reaches the card, or is given up, with either core
   or both at it, and however often the guard was found taken. *)
LogReachesCard ==
  <>[](busFree /\ pc[1] # "hung") => []<>(Waiting = 0 \/ ~enabled)

(* A core 1 that hangs outside a transfer is reported, as long as the host keeps
   polling ("ISR is busy but Core 1 is not processing", main) - even when it hangs
   with the guard of FatFs in its hands. *)
StallIsReported ==
  <>[](pc[1] = "hung" /\ ~inDma) /\ []<>busyIsr => <>[]reported
=============================================================================
