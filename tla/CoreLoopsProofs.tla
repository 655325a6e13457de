-------------------------- MODULE CoreLoopsProofs --------------------------
(***************************************************************************)
(* Proofs about the main loops of the two cores, for every size of the     *)
(* log's ring and batch, every width of its indices, and whether core 0    *)
(* flushes or not: the cores are never in FatFs together, and the log is   *)
(* the records the ring took.                                              *)
(***************************************************************************)
EXTENDS CoreLoops, Integers, SequenceTheorems, TLAPS

-----------------------------------------------------------------------------
(* Remainders. *)

(* Division with remainder. *)
LEMMA DivMod ==
  ASSUME NEW a \in Int, NEW s \in Nat \ {0}
  PROVE  /\ a % s \in 0 .. s - 1 /\ a \div s \in Int
         /\ a = s * (a \div s) + (a % s)
OBVIOUS

(* A multiple of s strictly between -s and s is zero. *)
LEMMA NoMultiple ==
  ASSUME NEW s \in Nat \ {0}, NEW k \in Int, s * k < s, s * k > 0 - s
  PROVE  k = 0
<1>1. CASE k >= 1
  <2>1. s * k >= s * 1
    BY <1>1
  <2>2. QED
    BY <2>1
<1>2. CASE k <= 0 - 1
  <2>1. s * k <= s * (0 - 1)
    BY <1>2
  <2>2. QED
    BY <2>1
<1>3. QED
  BY <1>1, <1>2
(* Numbers a multiple of s apart have the same remainder ... *)
LEMMA ModUnique ==
  ASSUME NEW s \in Nat \ {0}, NEW a \in Int, NEW b \in Int, NEW k \in Int, a = b + s * k
  PROVE  a % s = b % s
<1> DEFINE d == a \div s
           e == b \div s
<1>1. /\ a % s \in 0 .. s - 1 /\ d \in Int /\ a = s * d + (a % s)
      /\ b % s \in 0 .. s - 1 /\ e \in Int /\ b = s * e + (b % s)
  BY DivMod
<1> HIDE DEF d, e
<1>2. PICK x \in 0 .. s - 1, y \in 0 .. s - 1 :
        x = a % s /\ y = b % s /\ a = s * d + x /\ b = s * e + y
  BY <1>1
<1>3. s * (d - e - k) = s * d - s * e - s * k
  BY <1>1
<1>4. s * d - s * e - s * k = y - x
  <2>1. PICK p \in Int, q \in Int, r \in Int : p = s * d /\ q = s * e /\ r = s * k
    BY <1>1
  <2>2. a = p + x /\ b = q + y /\ a = b + r
    BY <1>2, <2>1
  <2>3. p - q - r = y - x
    BY <2>2
  <2>4. QED
    BY <2>1, <2>3
<1>5. d - e - k = 0
  BY <1>1, <1>2, <1>3, <1>4, NoMultiple
<1>6. QED
  BY <1>2, <1>3, <1>4, <1>5
(* ... and numbers less than s apart have not. *)
LEMMA ModApart ==
  ASSUME NEW s \in Nat \ {0}, NEW a \in Int, NEW b \in Int, 0 < b - a, b - a < s
  PROVE  a % s # b % s
<1> SUFFICES ASSUME a % s = b % s PROVE FALSE
  OBVIOUS
<1> DEFINE d == b \div s
           e == a \div s
<1>1. /\ a % s \in 0 .. s - 1 /\ d \in Int /\ b = s * d + (b % s)
      /\ e \in Int /\ a = s * e + (a % s)
  BY DivMod
<1> HIDE DEF d, e
<1>2. s * (d - e) = s * d - s * e
  BY <1>1
<1>3. s * (d - e) = b - a
  BY <1>1, <1>2
<1>4. d - e = 0
  BY <1>1, <1>3, NoMultiple
<1>5. QED
  BY <1>3, <1>4

LEMMA SmallMod ==
  ASSUME NEW s \in Nat \ {0}, NEW a \in 0 .. s - 1
  PROVE  a % s = a
<1> DEFINE d == a \div s
<1>1. a % s \in 0 .. s - 1 /\ d \in Int /\ a = s * d + (a % s)
  BY DivMod
<1> HIDE DEF d
<1>2. d = 0
  BY <1>1, NoMultiple
<1>3. QED
  BY <1>1, <1>2

-----------------------------------------------------------------------------
(* The indices of the ring. *)

Index == 0 .. Wrap - 1
Slots == 0 .. Size - 1
Behind(w, r) == (w - r) % Wrap

(* The slot of the i-th record from r on. *)
Slot(r, i) == (r + i - 1) % Size

LEMMA Sizes ==
  /\ Size \in Nat \ {0} /\ Batch \in Nat \ {0} /\ Wrap \in Nat \ {0} /\ Wrap > Size
  /\ \E k \in Int : Wrap = Size * k
<1>1. Size \in Nat \ {0} /\ Batch \in Nat \ {0} /\ Wrap \in Nat \ {0} /\ Wrap > Size /\ Wrap % Size = 0
  BY SizesAssumption
<1>2. Wrap \div Size \in Int /\ Wrap = Size * (Wrap \div Size) + (Wrap % Size)
  BY <1>1, DivMod
<1>3. QED
  BY <1>1, <1>2

LEMMA BehindIs ==
  ASSUME NEW w \in Index, NEW r \in Index
  PROVE  Behind(w, r) = IF w >= r THEN w - r ELSE w - r + Wrap
<1>1. w \in Int /\ r \in Int /\ w - r \in Int /\ w - r + Wrap \in Int
  BY Sizes DEF Index
<1>2. CASE w >= r
  <2>1. w - r \in 0 .. Wrap - 1
    BY <1>2, Sizes DEF Index
  <2>2. QED
    BY <1>2, <2>1, Sizes, SmallMod DEF Behind
<1>3. CASE w < r
  <2>1. w - r + Wrap \in 0 .. Wrap - 1
    BY <1>3, Sizes DEF Index
  <2>2. (w - r + Wrap) % Wrap = w - r + Wrap
    BY <2>1, Sizes, SmallMod
  <2>3. w - r + Wrap = (w - r) + Wrap * 1
    BY <1>1, Sizes
  <2>4. (w - r + Wrap) % Wrap = (w - r) % Wrap
    <3>1. \A x, y, k \in Int : x = y + Wrap * k => x % Wrap = y % Wrap
      BY Sizes, ModUnique
    <3>2. PICK k \in Int : k = 1
      OBVIOUS
    <3>3. w - r + Wrap = (w - r) + Wrap * k
      BY <2>3, <3>2
    <3>4. QED
      BY <1>1, <3>1, <3>3
  <2>5. QED
    BY <1>1, <1>3, <2>2, <2>4 DEF Behind
<1>4. QED
  BY <1>1, <1>2, <1>3

LEMMA IncIs ==
  ASSUME NEW i \in Index
  PROVE  Inc(i) = (IF i + 1 = Wrap THEN 0 ELSE i + 1) /\ Inc(i) \in Index
<1>1. CASE i + 1 = Wrap
  <2>1. Wrap = 0 + Wrap * 1
    BY Sizes
  <2>2. Wrap % Wrap = 0 % Wrap
    BY <2>1, Sizes, ModUnique
  <2>3. 0 % Wrap = 0
    BY Sizes, SmallMod
  <2>4. QED
    BY <1>1, <2>2, <2>3, Sizes DEF Inc, Index
<1>2. CASE i + 1 # Wrap
  <2>1. i + 1 \in 0 .. Wrap - 1
    BY <1>2, Sizes DEF Index
  <2>2. QED
    BY <1>2, <2>1, Sizes, SmallMod DEF Inc, Index
<1>3. QED
  BY <1>1, <1>2

(* One record more, one record less. *)
LEMMA Counting ==
  ASSUME NEW w \in Index, NEW r \in Index
  PROVE  /\ Behind(w, r) \in Index /\ Behind(w, r) \in Nat /\ (Behind(w, r) = 0 <=> w = r)
         /\ Behind(w, r) < Size => Behind(Inc(w), r) = Behind(w, r) + 1
         /\ w # r => Behind(w, Inc(r)) = Behind(w, r) - 1
<1>1. Inc(w) \in Index /\ Inc(r) \in Index
  BY IncIs
<1>2. /\ Behind(w, r) = IF w >= r THEN w - r ELSE w - r + Wrap
      /\ Behind(Inc(w), r) = IF Inc(w) >= r THEN Inc(w) - r ELSE Inc(w) - r + Wrap
      /\ Behind(w, Inc(r)) = IF w >= Inc(r) THEN w - Inc(r) ELSE w - Inc(r) + Wrap
  BY <1>1, BehindIs
<1>3. /\ Inc(w) = IF w + 1 = Wrap THEN 0 ELSE w + 1
      /\ Inc(r) = IF r + 1 = Wrap THEN 0 ELSE r + 1
  BY IncIs
<1>4. w \in 0 .. Wrap - 1 /\ r \in 0 .. Wrap - 1 /\ Wrap \in Nat /\ Size \in Nat /\ Size < Wrap
  BY Sizes DEF Index
<1>5. Behind(w, r) \in 0 .. Wrap - 1 /\ (Behind(w, r) = 0 <=> w = r)
  BY <1>2, <1>4
<1>6. Behind(w, r) < Size => Behind(Inc(w), r) = Behind(w, r) + 1
  <2>1. CASE w + 1 = Wrap
    <3>1. Inc(w) = 0
      BY <1>3, <2>1
    <3>2. QED
      BY <1>2, <1>4, <2>1, <3>1
  <2>2. CASE w + 1 # Wrap
    <3>1. Inc(w) = w + 1
      BY <1>3, <2>2
    <3>2. QED
      BY <1>2, <1>4, <2>2, <3>1
  <2>3. QED
    BY <2>1, <2>2
<1>7. w # r => Behind(w, Inc(r)) = Behind(w, r) - 1
  <2>1. CASE r + 1 = Wrap
    <3>1. Inc(r) = 0
      BY <1>3, <2>1
    <3>2. QED
      BY <1>2, <1>4, <2>1, <3>1
  <2>2. CASE r + 1 # Wrap
    <3>1. Inc(r) = r + 1
      BY <1>3, <2>2
    <3>2. QED
      BY <1>2, <1>4, <2>2, <3>1
  <2>3. QED
    BY <2>1, <2>2
<1>8. QED
  BY <1>4, <1>5, <1>6, <1>7 DEF Index

(* The slots of the records in the ring, and the next one to be filled. *)
LEMMA SlotsOf ==
  ASSUME NEW w \in Index, NEW r \in Index
  PROVE  /\ w % Size \in Slots /\ r % Size \in Slots /\ Slot(r, 1) = r % Size
         /\ Slot(r, Behind(w, r) + 1) = w % Size
         /\ \A i \in Nat \ {0} : Slot(r, i) \in Slots /\ Slot(Inc(r), i) = Slot(r, i + 1)
         /\ Behind(w, r) < Size => \A i \in 1 .. Behind(w, r) : Slot(r, i) # w % Size
<1>0. w \in Int /\ r \in Int /\ Behind(w, r) \in Nat
  BY Counting DEF Index
<1>1. w % Size \in Slots /\ r % Size \in Slots
  BY <1>0, Sizes, DivMod DEF Slots
<1>2. Slot(r, 1) = r % Size
  BY <1>0 DEF Slot
<1>3. PICK k \in Int : Wrap = Size * k
  BY Sizes
<1>4. Slot(r, Behind(w, r) + 1) = w % Size
  <2>1. CASE w >= r
    <3>1. r + (Behind(w, r) + 1) - 1 = w
      BY <1>0, <2>1, BehindIs
    <3>2. QED
      BY <3>1 DEF Slot
  <2>2. CASE w < r
    <3>1. r + (Behind(w, r) + 1) - 1 = w + Size * k
      BY <1>0, <1>3, <2>2, BehindIs, Sizes
    <3>2. r + (Behind(w, r) + 1) - 1 \in Int
      BY <1>0
    <3>3. \A x \in Int : x = w + Size * k => x % Size = w % Size
      BY <1>0, <1>3, Sizes, ModUnique
    <3>4. QED
      BY <3>1, <3>2, <3>3 DEF Slot
  <2>3. QED
    BY <1>0, <2>1, <2>2
<1>5. ASSUME NEW i \in Nat \ {0}
      PROVE  Slot(r, i) \in Slots /\ Slot(Inc(r), i) = Slot(r, i + 1)
  <2>1. r + i - 1 \in Int /\ r + (i + 1) - 1 \in Int /\ Inc(r) + i - 1 \in Int
    BY <1>0, IncIs DEF Index
  <2>2. Slot(r, i) \in Slots
    BY <2>1, Sizes, DivMod DEF Slot, Slots
  <2>3. CASE r + 1 = Wrap
    <3>1. r + (i + 1) - 1 = (Inc(r) + i - 1) + Size * k
      <4>1. Inc(r) = 0
        BY <2>3, IncIs
      <4>2. r + (i + 1) - 1 = Wrap + i - 1
        BY <1>0, <2>3, Sizes
      <4>3. QED
        BY <1>3, <4>1, <4>2, Sizes
    <3>2. QED
      BY <1>3, <2>1, <2>2, <3>1, Sizes, ModUnique DEF Slot
  <2>4. CASE r + 1 # Wrap
    <3>1. Inc(r) + i - 1 = r + (i + 1) - 1
      BY <1>0, <2>4, IncIs
    <3>2. QED
      BY <2>2, <3>1 DEF Slot
  <2>5. QED
    BY <2>3, <2>4
<1>6. ASSUME Behind(w, r) < Size, NEW i \in 1 .. Behind(w, r)
      PROVE  Slot(r, i) # w % Size
  <2>1. /\ r + i - 1 \in Int /\ r + (Behind(w, r) + 1) - 1 \in Int
        /\ 0 < (r + (Behind(w, r) + 1) - 1) - (r + i - 1)
        /\ (r + (Behind(w, r) + 1) - 1) - (r + i - 1) < Size
    BY <1>0, <1>6, Sizes
  <2>2. (r + i - 1) % Size # (r + (Behind(w, r) + 1) - 1) % Size
    BY <2>1, Sizes, ModApart
  <2>3. QED
    BY <1>4, <2>2 DEF Slot
<1>7. QED
  BY <1>1, <1>2, <1>4, <1>5, <1>6

-----------------------------------------------------------------------------
(* The invariant. *)

Points ==
  {"boot", "loop", "push", "store", "publish", "transfer", "lock", "using", "done", "processed",
   "flush", "try", "format", "release", "write", "unlock", "service", "check", "judge", "hung"}
Holding == {"format", "release", "write", "unlock", "using"}

(* Who is in FatFs holds the guard; before sasi_log_init there is no log. *)
Control ==
  /\ pc \in [Core -> Points]
  /\ ret \in [push : {"lock", "transfer", "processed"}, card : {"done", "loop"}]
  /\ \A c \in Core : pc[c] \in Holding => guard = c
  /\ pc[1] = "boot" => ~enabled /\ pc[0] \notin Holding \cup {"try"}

LogTyped ==
  /\ ring \in [Slots -> Nat] /\ write \in Index /\ read \in Index /\ Waiting <= Size
  /\ file \in Seq(Nat) /\ batch \in Seq(Nat) /\ accepted \in Seq(Nat)
  /\ local \in [write : Index, read : Index, entry : Nat]
  /\ enabled \in BOOLEAN /\ fileOpen = enabled

(* Between the test of the ring and its publication only the other index moves. *)
Pushing ==
  /\ pc[1] \in {"store", "publish"} => local.write = write /\ Waiting < Size
  /\ pc[1] = "publish" => ring[write % Size] = Len(accepted) + 1

(* The record copied by a flush is the oldest in the ring until it is released. *)
Releasing == \A c \in Core : pc[c] = "release" => read # write /\ local.entry = ring[read % Size]

(* The n-th record is in the file, in the batch or in the ring, where its number says. *)
Contents ==
  /\ \A i \in 1 .. Len(accepted) : accepted[i] = i
  /\ Len(file) <= Len(accepted)
  /\ \A i \in 1 .. Len(file) : file[i] = i
  /\ enabled \/ pc[1] = "boot" =>
       /\ Len(file) + Len(batch) + Waiting = Len(accepted)
       /\ \A i \in 1 .. Len(batch) : batch[i] = Len(file) + i
       /\ \A i \in 1 .. Waiting : ring[Slot(read, i)] = Len(file) + Len(batch) + i

LogInv == Control /\ LogTyped /\ Pushing /\ Releasing /\ Contents

-----------------------------------------------------------------------------
(* Control. *)

LEMMA Cores == Core = {0, 1} /\ 0 # 1 /\ Nobody \notin Core /\ 0 \in Core /\ 1 \in Core
BY DEF Core, Nobody

LEMMA AfterIs == \A c \in Core : After(c) \in {"check", "service"}
BY DEF After

LEMMA Goes ==
  ASSUME pc \in [Core -> Points], NEW c \in Core, NEW q \in Points, Goto(c, q)
  PROVE  pc' \in [Core -> Points] /\ pc'[c] = q /\ \A d \in Core \ {c} : pc'[d] = pc[d]
BY DEF Goto

Rets == [push : {"lock", "transfer", "processed"}, card : {"done", "loop"}]

(* A core goes on, keeps the guard, takes it or lets go of it. *)
LEMMA Moves ==
  ASSUME Control, NEW c \in Core, NEW q \in Points \ {"boot"}, Goto(c, q), ret' \in Rets,
         \/ guard' = guard /\ (q \notin Holding \/ pc[c] \in Holding)
         \/ guard = Nobody /\ guard' = c
         \/ pc[c] \in Holding /\ guard' = Nobody /\ q \notin Holding,
         c = 0 /\ pc[1] = "boot" => ~enabled' /\ q \notin Holding \cup {"try"}
  PROVE  Control'
<1>1. pc' \in [Core -> Points] /\ pc'[c] = q /\ \A d \in Core \ {c} : pc'[d] = pc[d]
  BY Goes DEF Control
<1>2. \A d \in Core : pc'[d] \in Holding => guard' = d
  BY <1>1, Cores DEF Control
<1>3. pc'[1] = "boot" => ~enabled' /\ pc'[0] \notin Holding \cup {"try"}
  BY <1>1, Cores
<1>4. QED
  BY <1>1, <1>2, <1>3 DEF Control, Rets

LEMMA FlushControl ==
  ASSUME Control, NEW c \in Core, Flush(c)
  PROVE  Control'
<1>0. /\ After(c) \in Points \ {"boot"} /\ After(c) \notin Holding \cup {"try"} /\ ret \in Rets
      /\ pc[1] = "boot" => ~enabled /\ pc[0] \notin Holding \cup {"try"}
  BY AfterIs DEF Control, Rets, Holding, Points
<1>1. CASE FlushTest(c)
  <2>1. UNCHANGED <<ret, guard, enabled>>
    BY <1>1 DEF FlushTest, logVars
  <2>2. CASE Goto(c, After(c))
    BY <1>0, <2>1, <2>2, Moves
  <2>3. CASE Goto(c, "try") /\ enabled
    BY <1>0, <2>1, <2>3, Moves DEF Holding, Points
  <2>4. QED
    BY <1>1, <2>2, <2>3 DEF FlushTest
<1>2. CASE TryLock(c)
  <2>1. UNCHANGED <<ret, enabled>> /\ pc[c] = "try"
    BY <1>2 DEF TryLock, logVars
  <2>2. \/ guard = Nobody /\ guard' = c /\ Goto(c, "format")
        \/ guard' = guard /\ Goto(c, After(c))
    BY <1>2 DEF TryLock
  <2>3. ~(c = 0 /\ pc[1] = "boot")
    BY <1>0, <2>1
  <2>4. QED
    BY <1>0, <2>1, <2>2, <2>3, Moves DEF Points, Holding
<1>3. CASE Format(c) \/ Release(c) \/ WriteBatch(c) \/ WriteFails(c)
  <2>1. UNCHANGED <<ret, guard>> /\ pc[c] \in Holding
    BY <1>3 DEF Format, Release, WriteBatch, WriteFails, cardVars, Holding
  <2>2. ~(c = 0 /\ pc[1] = "boot")
    BY <1>0, <2>1
  <2>3. Goto(c, "release") \/ Goto(c, "unlock") \/ Goto(c, "write") \/ Goto(c, "format")
    BY <1>3 DEF Format, Release, WriteBatch, WriteFails
  <2>4. QED
    BY <1>0, <2>1, <2>2, <2>3, Moves DEF Points, Holding
<1>4. CASE Unlock(c)
  <2>1. /\ UNCHANGED ret /\ pc[c] \in Holding /\ guard' = Nobody /\ Goto(c, After(c))
    BY <1>4 DEF Unlock, Holding
  <2>2. ~(c = 0 /\ pc[1] = "boot")
    BY <1>0, <2>1
  <2>3. QED
    BY <1>0, <2>1, <2>2, Moves
<1>5. QED
  BY <1>1, <1>2, <1>3, <1>4 DEF Flush

LEMMA ControlStep ==
  ASSUME Control, [Next]_vars
  PROVE  Control'
<1>0. ret \in Rets /\ (pc[1] = "boot" => ~enabled /\ pc[0] \notin Holding \cup {"try"})
  BY DEF Control, Rets
<1>1. CASE InitLog \/ BeginTransfer \/ TakeMessageRead \/ Processed \/ QueueEmpty
  <2>1. UNCHANGED <<ret, guard>>
    BY <1>1 DEF InitLog, BeginTransfer, TakeMessageRead, Processed, QueueEmpty, cardVars
  <2>2. Goto(1, "loop") \/ Goto(1, "lock") \/ Goto(1, "processed") \/ Goto(1, "flush")
    BY <1>1 DEF InitLog, BeginTransfer, TakeMessageRead, Processed, QueueEmpty
  <2>3. QED
    BY <1>0, <2>1, <2>2, Cores, Moves DEF Holding, Points
<1>2. CASE TakeCommand \/ EndCommand \/ Service
  <2>1. UNCHANGED guard
    BY <1>2 DEF TakeCommand, EndCommand, Service, cardVars
  <2>2. ret' \in Rets
    BY <1>0, <1>2 DEF TakeCommand, EndCommand, Service, Rets
  <2>3. Goto(1, "push") \/ Goto(1, "loop") \/ Goto(1, "lock")
    BY <1>2 DEF TakeCommand, EndCommand, Service
  <2>4. QED
    BY <2>1, <2>2, <2>3, Cores, Moves DEF Holding, Points
<1>3. CASE Lock
  BY <1>0, <1>3, Cores, Moves DEF Lock, Points
<1>4. CASE UseCard
  <2>1. ret.card \in Points \ {"boot"} /\ ret.card \notin Holding
    BY <1>0 DEF Rets, Holding, Points
  <2>2. QED
    BY <1>0, <1>4, <2>1, Cores, Moves DEF UseCard, Holding, Points
<1>5. CASE PushTest \/ PushStore \/ PushPublish
  <2>1. ret.push \in Points \ {"boot"} /\ ret.push \notin Holding
    BY <1>0 DEF Rets, Holding, Points
  <2>2. UNCHANGED <<ret, guard>>
    BY <1>5 DEF PushTest, PushStore, PushPublish, cardVars
  <2>3. Goto(1, ret.push) \/ Goto(1, "store") \/ Goto(1, "publish")
    BY <1>5 DEF PushTest, PushStore, PushPublish
  <2>4. QED
    BY <1>0, <2>1, <2>2, <2>3, Cores, Moves DEF Holding, Points
<1>6. CASE Flush(0) \/ Flush(1)
  BY <1>6, Cores, FlushControl
<1>7. CASE Hang
  BY <1>0, <1>7, Cores, Moves DEF Hang, Holding, Points, cardVars
<1>8. CASE Turn \/ Sample \/ Judge
  <2>1. UNCHANGED <<ret, guard, enabled>>
    BY <1>8 DEF Turn, Sample, Judge, cardVars, logVars
  <2>2. Goto(0, "flush") \/ Goto(0, "check") \/ Goto(0, "judge") \/ Goto(0, "loop")
    BY <1>8 DEF Turn, Sample, Judge
  <2>3. QED
    BY <1>0, <2>1, <2>2, Cores, Moves DEF Holding, Points
<1>9. CASE IdleElapses \/ CheckDue \/ HostPolls \/ UNCHANGED vars
  <2>1. UNCHANGED <<pc, ret, guard, enabled>>
    BY <1>9 DEF IdleElapses, CheckDue, HostPolls, vars, cardVars, logVars
  <2>2. QED
    BY <2>1 DEF Control
<1>10. QED
  BY <1>1, <1>2, <1>3, <1>4, <1>5, <1>6, <1>7, <1>8, <1>9 DEF Next, Worker, MainLoop

LEMMA ControlStart == Init => Control
BY Cores DEF Init, Control, Holding, Points

(* The two cores are never in FatFs together, whatever core 1 hangs in
   (fatfs_guard.c). *)
THEOREM OneInFatFsAlways == Spec => []OneInFatFs
<1>1. Control => OneInFatFs
  BY DEF Control, OneInFatFs, Inside, Holding
<1>2. QED
  BY <1>1, ControlStart, ControlStep, PTL DEF Spec

-----------------------------------------------------------------------------
(* The steps by what they do to the log. *)

Kept == UNCHANGED <<ring, write, read, enabled, fileOpen, batch, file, accepted>>

(* A step that does nothing to the log, nor to what a core knows of it. *)
Calm ==
  /\ Kept /\ UNCHANGED local
  /\ pc'[1] \in {"boot", "store", "publish"} => pc'[1] = pc[1]
  /\ \A c \in Core : pc'[c] = "release" => pc[c] = "release"

LEMMA CalmMove ==
  ASSUME Control, NEW c \in Core, NEW q \in Points \ {"boot", "store", "publish", "release"},
         Goto(c, q), Kept, UNCHANGED local
  PROVE  Calm
<1>1. pc'[c] = q /\ \A d \in Core \ {c} : pc'[d] = pc[d]
  BY Goes DEF Control
<1>2. QED
  BY <1>1, Cores DEF Calm

LEMMA Kinds ==
  ASSUME Control, [Next]_vars
  PROVE  \/ Calm \/ InitLog \/ PushTest \/ PushStore \/ PushPublish
         \/ \E c \in Core : Format(c) \/ Release(c) \/ WriteBatch(c) \/ WriteFails(c)
<1> USE DEF Points
<1>0. ret \in Rets /\ \A c \in Core : After(c) \in {"check", "service"}
  BY AfterIs DEF Control, Rets
<1>1. CASE TakeCommand \/ BeginTransfer \/ EndCommand \/ TakeMessageRead
  <2>1. Kept /\ UNCHANGED local
    BY <1>1 DEF TakeCommand, BeginTransfer, EndCommand, TakeMessageRead, Kept, ringVars, logVars,
       histVars
  <2>2. Goto(1, "push") \/ Goto(1, "lock") \/ Goto(1, "processed")
    BY <1>1 DEF TakeCommand, BeginTransfer, EndCommand, TakeMessageRead
  <2>3. QED
    BY <2>1, <2>2, Cores, CalmMove
<1>2. CASE Processed \/ QueueEmpty \/ Service \/ Lock \/ Hang
  <2>1. Kept /\ UNCHANGED local
    BY <1>2 DEF Processed, QueueEmpty, Service, Lock, Hang, Kept, ringVars, logVars, histVars
  <2>2. Goto(1, "loop") \/ Goto(1, "flush") \/ Goto(1, "lock") \/ Goto(1, "using") \/ Goto(1, "hung")
    BY <1>2 DEF Processed, QueueEmpty, Service, Lock, Hang
  <2>3. QED
    BY <2>1, <2>2, Cores, CalmMove
<1>3. CASE UseCard
  <2>1. Kept /\ UNCHANGED local
    BY <1>3 DEF UseCard, Kept, ringVars, logVars, histVars
  <2>2. Goto(1, "done") \/ Goto(1, "loop")
    BY <1>0, <1>3 DEF UseCard, Rets
  <2>3. QED
    BY <2>1, <2>2, Cores, CalmMove
<1>4. CASE Turn \/ Sample \/ Judge
  <2>1. Kept /\ UNCHANGED local
    BY <1>4 DEF Turn, Sample, Judge, Kept, ringVars, logVars, histVars
  <2>2. Goto(0, "flush") \/ Goto(0, "check") \/ Goto(0, "judge") \/ Goto(0, "loop")
    BY <1>4 DEF Turn, Sample, Judge
  <2>3. QED
    BY <2>1, <2>2, Cores, CalmMove
<1>5. CASE IdleElapses \/ CheckDue \/ HostPolls \/ UNCHANGED vars
  <2>1. Kept /\ UNCHANGED <<pc, local>>
    BY <1>5 DEF IdleElapses, CheckDue, HostPolls, vars, Kept, ringVars, logVars, histVars
  <2>2. QED
    BY <2>1 DEF Calm
<1>6. ASSUME NEW c \in Core, FlushTest(c) \/ TryLock(c) \/ Unlock(c)
      PROVE  Calm
  <2>1. Kept /\ UNCHANGED local
    BY <1>6 DEF FlushTest, TryLock, Unlock, Kept, ringVars, logVars, histVars
  <2>2. Goto(c, "check") \/ Goto(c, "service") \/ Goto(c, "try") \/ Goto(c, "format")
    BY <1>0, <1>6 DEF FlushTest, TryLock, Unlock
  <2>3. QED
    BY <2>1, <2>2, CalmMove
<1>7. ASSUME NEW c \in Core, Flush(c)
      PROVE  Calm \/ Format(c) \/ Release(c) \/ WriteBatch(c) \/ WriteFails(c)
  BY <1>6, <1>7 DEF Flush
<1>8. QED
  BY <1>1, <1>2, <1>3, <1>4, <1>5, <1>7, Cores DEF Next, Worker, MainLoop

-----------------------------------------------------------------------------
(* Each kind keeps the invariant. *)

LEMMA WaitingIs == Waiting = Behind(write, read)
BY DEF Waiting, Behind

LEMMA CalmKeeps ==
  ASSUME LogInv, Calm
  PROVE  LogTyped' /\ Pushing' /\ Releasing' /\ Contents'
<1>1. Waiting' = Waiting
  BY DEF Calm, Kept, Waiting
<1>2. UNCHANGED <<ring, write, read, enabled, fileOpen, batch, file, accepted, local>>
  BY DEF Calm, Kept
<1>3. LogTyped'
  BY <1>1, <1>2 DEF LogInv, LogTyped
<1>4. Pushing' /\ Releasing'
  BY <1>1, <1>2 DEF LogInv, Pushing, Releasing, Calm
<1>5. Contents'
  BY <1>1, <1>2 DEF LogInv, Contents, Calm, Slot
<1>6. QED
  BY <1>3, <1>4, <1>5

LEMMA InitLogKeeps ==
  ASSUME LogInv, InitLog
  PROVE  LogTyped' /\ Pushing' /\ Releasing' /\ Contents'
<1>1. /\ UNCHANGED <<ring, write, read, batch, file, accepted, local>> /\ pc[1] = "boot"
      /\ pc'[1] = "loop" /\ pc'[0] = pc[0] /\ enabled' \in BOOLEAN /\ fileOpen' = enabled'
  BY Cores DEF InitLog, ringVars, histVars, Goto, LogInv, Control
<1>2. Waiting' = Waiting
  BY <1>1 DEF Waiting
<1>3. LogTyped'
  BY <1>1, <1>2 DEF LogInv, LogTyped
<1>4. Pushing' /\ Releasing'
  BY <1>1, <1>2, Cores DEF LogInv, Pushing, Releasing
<1>5. Contents'
  BY <1>1, <1>2 DEF LogInv, Contents, Slot
<1>6. QED
  BY <1>3, <1>4, <1>5

LEMMA PushTestKeeps ==
  ASSUME LogInv, PushTest
  PROVE  LogTyped' /\ Pushing' /\ Releasing' /\ Contents'
<1>1. /\ Kept /\ local' = [local EXCEPT !.write = write, !.read = read] /\ pc[1] = "push"
      /\ pc'[0] = pc[0] /\ pc'[1] = IF enabled /\ ~Full(write, read) THEN "store" ELSE ret.push
  BY Cores DEF PushTest, ringVars, logVars, histVars, Goto, LogInv, Control, Kept
<1>2. UNCHANGED <<ring, write, read, enabled, fileOpen, batch, file, accepted>>
  BY <1>1 DEF Kept
<1>3. Waiting' = Waiting
  BY <1>2 DEF Waiting
<1>4. ret.push \in {"lock", "transfer", "processed"}
  BY DEF LogInv, Control
<1>5. LogTyped'
  BY <1>1, <1>2, <1>3 DEF LogInv, LogTyped
<1>6. local'.write = write /\ local'.entry = local.entry
  BY <1>1 DEF LogInv, LogTyped
<1>7. ~Full(write, read) => Waiting < Size
  BY Sizes, Counting, WaitingIs DEF Full, Behind, LogInv, LogTyped, Index
<1>8. Pushing' /\ Releasing'
  BY <1>1, <1>2, <1>3, <1>4, <1>6, <1>7, Cores DEF LogInv, Pushing, Releasing
<1>9. Contents'
  BY <1>1, <1>2, <1>3, <1>4 DEF LogInv, Contents, Slot
<1>10. QED
  BY <1>5, <1>8, <1>9

LEMMA PushStoreKeeps ==
  ASSUME LogInv, PushStore
  PROVE  LogTyped' /\ Pushing' /\ Releasing' /\ Contents'
<1>1. /\ UNCHANGED <<write, read, enabled, fileOpen, batch, file, accepted, local>> /\ pc[1] = "store"
      /\ ring' = [ring EXCEPT ![local.write % Size] = Len(accepted) + 1]
      /\ pc'[0] = pc[0] /\ pc'[1] = "publish"
  BY Cores DEF PushStore, logVars, histVars, Goto, LogInv, Control
<1>2. Waiting' = Waiting
  BY <1>1 DEF Waiting
<1>3. /\ local.write = write /\ Waiting < Size /\ write \in Index /\ read \in Index
      /\ accepted \in Seq(Nat) /\ ring \in [Slots -> Nat]
  BY <1>1 DEF LogInv, Pushing, LogTyped
<1>4. write % Size \in Slots /\ read % Size \in Slots /\ Len(accepted) + 1 \in Nat
  BY <1>3, SlotsOf
<1>5. \A s \in Slots : ring'[s] = IF s = write % Size THEN Len(accepted) + 1 ELSE ring[s]
  BY <1>1, <1>3, <1>4
<1>6. LogTyped'
  <2>1. ring' \in [Slots -> Nat]
    BY <1>1, <1>3, <1>4
  <2>2. QED
    BY <1>1, <1>2, <2>1 DEF LogInv, LogTyped
<1>7. Pushing'
  BY <1>1, <1>2, <1>3, <1>4, <1>5 DEF Pushing
<1>8. Releasing'
  <2>1. ASSUME read # write
        PROVE  read % Size # write % Size
    <3>1. 1 \in 1 .. Behind(write, read)
      BY <1>3, <2>1, Counting
    <3>2. QED
      BY <1>3, <3>1, SlotsOf, WaitingIs
  <2>2. read # write => ring'[read % Size] = ring[read % Size]
    BY <1>4, <1>5, <2>1
  <2>3. QED
    BY <1>1, <2>2, Cores DEF LogInv, Releasing
<1>9. Contents'
  <2>1. ASSUME NEW i \in 1 .. Waiting
        PROVE  ring'[Slot(read, i)] = ring[Slot(read, i)]
    <3>1. Slot(read, i) # write % Size /\ Slot(read, i) \in Slots
      BY <1>3, <2>1, SlotsOf, WaitingIs, Counting
    <3>2. QED
      BY <1>5, <3>1
  <2>2. \A i \in 1 .. Waiting : Slot(read, i)' = Slot(read, i)
    BY <1>1 DEF Slot
  <2>3. QED
    BY <1>1, <1>2, <2>1, <2>2 DEF LogInv, Contents
<1>10. QED
  BY <1>6, <1>7, <1>8, <1>9

LEMMA PushPublishKeeps ==
  ASSUME LogInv, PushPublish
  PROVE  LogTyped' /\ Pushing' /\ Releasing' /\ Contents'
<1>1. /\ UNCHANGED <<ring, read, enabled, fileOpen, batch, file, local>> /\ pc[1] = "publish"
      /\ write' = Inc(write) /\ accepted' = Append(accepted, Len(accepted) + 1)
      /\ pc'[0] = pc[0] /\ pc'[1] = ret.push
  BY Cores DEF PushPublish, logVars, Goto, LogInv, Control, Rets, Points
<1>2. /\ Waiting < Size /\ write \in Index /\ read \in Index /\ ring[write % Size] = Len(accepted) + 1
      /\ accepted \in Seq(Nat) /\ file \in Seq(Nat) /\ batch \in Seq(Nat)
      /\ ret.push \in {"lock", "transfer", "processed"}
  BY <1>1 DEF LogInv, Pushing, LogTyped, Control
<1>3. Waiting' = Waiting + 1 /\ Waiting \in Nat /\ Inc(write) \in Index
  <2>1. Waiting' = Behind(Inc(write), read)
    BY <1>1 DEF Waiting, Behind
  <2>2. QED
    BY <1>2, <2>1, WaitingIs, Counting, IncIs
<1>4. /\ Len(accepted) \in Nat /\ Len(accepted') = Len(accepted) + 1 /\ accepted' \in Seq(Nat)
      /\ accepted'[Len(accepted) + 1] = Len(accepted) + 1
      /\ \A i \in 1 .. Len(accepted) : accepted'[i] = accepted[i]
  <2>1. Len(accepted) \in Nat /\ Len(accepted) + 1 \in Nat
    BY <1>2
  <2>2. QED
    BY <1>1, <1>2, <2>1
<1>5. LogTyped'
  BY <1>1, <1>2, <1>3, <1>4, Sizes DEF LogInv, LogTyped
<1>6. Pushing'
  BY <1>1, <1>2 DEF Pushing
<1>7. Releasing'
  <2>1. read # write => read # write'
    BY <1>1, <1>2, <1>3, WaitingIs, Counting
  <2>2. QED
    BY <1>1, <1>2, <2>1, Cores DEF LogInv, Releasing
<1>8. Contents'
  <2>1. ASSUME enabled'
        PROVE  /\ Len(file) + Len(batch) + Waiting' = Len(accepted')
               /\ \A i \in 1 .. Waiting' : ring[Slot(read, i)] = Len(file) + Len(batch) + i
    <3>1. /\ Len(file) + Len(batch) + Waiting = Len(accepted)
          /\ \A i \in 1 .. Waiting : ring[Slot(read, i)] = Len(file) + Len(batch) + i
      BY <1>1, <2>1 DEF LogInv, Contents
    <3>2. Slot(read, Waiting + 1) = write % Size
      BY <1>2, WaitingIs, SlotsOf
    <3>3. Len(file) \in Nat /\ Len(batch) \in Nat
      BY <1>2
    <3>4. \A i \in 1 .. Waiting + 1 : i \in 1 .. Waiting \/ i = Waiting + 1
      BY <1>3
    <3>5. ring[Slot(read, Waiting + 1)] = Len(file) + Len(batch) + (Waiting + 1)
      BY <1>2, <1>3, <3>1, <3>2, <3>3
    <3>6. QED
      BY <1>3, <1>4, <3>1, <3>3, <3>4, <3>5
  <2>2. \A i : Slot(read, i)' = Slot(read, i)
    BY <1>1 DEF Slot
  <2>3. \A i \in 1 .. Len(accepted') : accepted'[i] = i
    BY <1>4 DEF LogInv, Contents
  <2>4. Len(file) <= Len(accepted')
    <3>1. Len(file) \in Nat /\ Len(file) <= Len(accepted)
      BY <1>2 DEF LogInv, Contents
    <3>2. QED
      BY <1>4, <3>1
  <2>5. QED
    BY <1>1, <1>2, <2>1, <2>2, <2>3, <2>4 DEF LogInv, Contents
<1>9. QED
  BY <1>5, <1>6, <1>7, <1>8

(* A flush is under way on one core only, and not before sasi_log_init. *)
LEMMA Alone ==
  ASSUME LogInv, NEW c \in Core, pc[c] \in Holding
  PROVE  /\ \A d \in Core \ {c} : pc[d] \notin Holding
         /\ pc[1] # "boot"
<1>1. \A d \in Core \ {c} : pc[d] \notin Holding
  BY DEF LogInv, Control
<1>2. pc[1] # "boot"
  BY Cores DEF LogInv, Control, Holding
<1>3. QED
  BY <1>1, <1>2

LEMMA FormatKeeps ==
  ASSUME LogInv, NEW c \in Core, Format(c)
  PROVE  LogTyped' /\ Pushing' /\ Releasing' /\ Contents'
<1>1. UNCHANGED <<ring, write, read, enabled, fileOpen, batch, file, accepted>>
  BY DEF Format, ringVars, logVars, histVars
<1>2. pc[c] = "format" /\ pc[c] \in Holding
  BY DEF Format, Holding
<1>3. /\ \A d \in Core \ {c} : pc'[d] = pc[d] /\ pc[d] # "release"
      /\ pc[1] # "boot"
      /\ \/ pc'[c] = "release" /\ read # write /\ local' = [local EXCEPT !.entry = ring[read % Size]]
         \/ pc'[c] \in {"unlock", "write"} /\ local' = local
  BY <1>2, Alone DEF Format, Goto, LogInv, Control, Holding
<1>4. Waiting' = Waiting
  BY <1>1 DEF Waiting
<1>5. /\ read \in Index /\ write \in Index /\ ring \in [Slots -> Nat]
      /\ local \in [write : Index, read : Index, entry : Nat]
  BY DEF LogInv, LogTyped
<1>6. ring[read % Size] \in Nat
  BY <1>5, SlotsOf
<1>7. /\ local' \in [write : Index, read : Index, entry : Nat] /\ local'.write = local.write
      /\ pc'[c] = "release" => local'.entry = ring[read % Size] /\ read # write
  BY <1>3, <1>5, <1>6
<1>8. LogTyped'
  BY <1>1, <1>4, <1>7 DEF LogInv, LogTyped
<1>9. Pushing'
  BY <1>1, <1>2, <1>3, <1>4, <1>7, Cores DEF LogInv, Pushing
<1>10. Releasing'
  BY <1>1, <1>3, <1>7 DEF Releasing
<1>11. Contents'
  BY <1>1, <1>3, <1>4, Cores DEF LogInv, Contents, Slot
<1>12. QED
  BY <1>8, <1>9, <1>10, <1>11

LEMMA ReleaseKeeps ==
  ASSUME LogInv, NEW c \in Core, Release(c)
  PROVE  LogTyped' /\ Pushing' /\ Releasing' /\ Contents'
<1>1. /\ UNCHANGED <<ring, write, enabled, fileOpen, file, accepted, local>>
      /\ read' = Inc(read) /\ batch' = Append(batch, local.entry) /\ pc[c] = "release" /\ pc[c] \in Holding
  BY DEF Release, histVars, Holding
<1>2. /\ \A d \in Core \ {c} : pc'[d] = pc[d] /\ pc[d] # "release"
      /\ pc[1] # "boot" /\ pc'[c] = "format"
  BY <1>1, Alone DEF Release, Goto, LogInv, Control, Holding
<1>3. /\ read \in Index /\ write \in Index /\ ring \in [Slots -> Nat] /\ batch \in Seq(Nat)
      /\ file \in Seq(Nat) /\ accepted \in Seq(Nat)
      /\ local.entry \in Nat /\ read # write /\ local.entry = ring[read % Size] /\ Waiting <= Size
  BY <1>1 DEF LogInv, LogTyped, Releasing
<1>4. Waiting' = Waiting - 1 /\ Waiting \in Nat \ {0} /\ Inc(read) \in Index
  <2>1. Waiting' = Behind(write, Inc(read))
    BY <1>1 DEF Waiting, Behind
  <2>2. QED
    BY <1>3, <2>1, WaitingIs, Counting, IncIs
<1>5. /\ Len(batch) \in Nat /\ Len(batch') = Len(batch) + 1 /\ batch' \in Seq(Nat)
      /\ batch'[Len(batch) + 1] = local.entry
      /\ \A i \in 1 .. Len(batch) : batch'[i] = batch[i]
  BY <1>1, <1>3
<1>6. LogTyped'
  BY <1>1, <1>3, <1>4, <1>5, Sizes DEF LogInv, LogTyped
<1>7. Pushing'
  BY <1>1, <1>2, <1>4, Cores, Sizes DEF LogInv, Pushing
<1>8. Releasing'
  BY <1>2, Cores DEF Releasing
<1>9. Contents'
  <2>1. ASSUME enabled'
        PROVE  /\ Len(file) + Len(batch') + Waiting' = Len(accepted)
               /\ \A i \in 1 .. Len(batch') : batch'[i] = Len(file) + i
               /\ \A i \in 1 .. Waiting' : ring[Slot(Inc(read), i)] = Len(file) + Len(batch') + i
    <3>1. /\ Len(file) + Len(batch) + Waiting = Len(accepted)
          /\ \A i \in 1 .. Len(batch) : batch[i] = Len(file) + i
          /\ \A i \in 1 .. Waiting : ring[Slot(read, i)] = Len(file) + Len(batch) + i
      BY <1>1, <2>1 DEF LogInv, Contents
    <3>2. Len(file) \in Nat /\ Len(accepted) \in Nat
      BY <1>3
    <3>3. local.entry = Len(file) + (Len(batch) + 1)
      <4>1. Slot(read, 1) = read % Size /\ 1 \in 1 .. Waiting
        BY <1>3, <1>4, SlotsOf
      <4>2. ring[read % Size] = Len(file) + Len(batch) + 1
        BY <3>1, <4>1
      <4>3. QED
        BY <1>3, <1>5, <3>2, <4>2
    <3>4. \A i \in 1 .. Len(batch') : i \in 1 .. Len(batch) \/ i = Len(batch) + 1
      BY <1>5
    <3>5. \A i \in 1 .. Len(batch') : batch'[i] = Len(file) + i
      BY <1>5, <3>1, <3>3, <3>4
    <3>6. ASSUME NEW i \in 1 .. Waiting'
          PROVE  ring[Slot(Inc(read), i)] = Len(file) + Len(batch') + i
      <4>1. i \in Nat \ {0} /\ i + 1 \in 1 .. Waiting
        BY <1>4, <3>6
      <4>2. Slot(Inc(read), i) = Slot(read, i + 1)
        BY <1>3, <4>1, SlotsOf
      <4>3. ring[Slot(read, i + 1)] = Len(file) + Len(batch) + (i + 1)
        BY <3>1, <4>1
      <4>4. QED
        BY <1>5, <3>2, <4>1, <4>2, <4>3
    <3>7. Len(file) + Len(batch') + Waiting' = Len(accepted)
      <4>1. PICK b \in Nat, n \in Nat : b = Len(batch) /\ n = Waiting
        BY <1>4, <1>5
      <4>2. Len(file) + b + n = Len(accepted)
        BY <3>1, <4>1
      <4>3. Len(file) + (b + 1) + (n - 1) = Len(accepted)
        BY <3>2, <4>2
      <4>4. QED
        BY <1>4, <1>5, <4>1, <4>3
    <3>8. QED
      BY <3>5, <3>6, <3>7
  <2>2. \A i : Slot(read, i)' = Slot(Inc(read), i)
    BY <1>1 DEF Slot
  <2>3. pc'[1] # "boot"
    BY <1>2, Cores
  <2>4. QED
    BY <1>1, <2>1, <2>2, <2>3 DEF LogInv, Contents
<1>10. QED
  BY <1>6, <1>7, <1>8, <1>9

LEMMA WriteBatchKeeps ==
  ASSUME LogInv, NEW c \in Core, WriteBatch(c)
  PROVE  LogTyped' /\ Pushing' /\ Releasing' /\ Contents'
<1>1. /\ UNCHANGED <<ring, write, read, enabled, fileOpen, accepted, local>>
      /\ file' = file \o batch /\ batch' = <<>> /\ fileOpen /\ pc[c] = "write" /\ pc[c] \in Holding
  BY DEF WriteBatch, ringVars, histVars, Holding
<1>2. /\ \A d \in Core \ {c} : pc'[d] = pc[d]
      /\ pc[1] # "boot" /\ pc'[c] = "unlock"
  BY <1>1, Alone DEF WriteBatch, Goto, LogInv, Control, Holding
<1>3. /\ batch \in Seq(Nat) /\ file \in Seq(Nat) /\ accepted \in Seq(Nat) /\ enabled
      /\ read \in Index /\ write \in Index
  BY <1>1 DEF LogInv, LogTyped
<1>4. Waiting' = Waiting /\ Waiting \in Nat
  BY <1>1, <1>3, WaitingIs, Counting DEF Waiting
<1>5. /\ Len(batch) \in Nat /\ Len(file) \in Nat /\ Len(accepted) \in Nat
      /\ file' \in Seq(Nat) /\ Len(file') = Len(file) + Len(batch)
      /\ \A i \in 1 .. Len(file) : file'[i] = file[i]
      /\ \A i \in 1 .. Len(batch) : file'[Len(file) + i] = batch[i]
      /\ batch' \in Seq(Nat) /\ Len(batch') = 0
  BY <1>1, <1>3
<1>6. LogTyped'
  BY <1>1, <1>4, <1>5 DEF LogInv, LogTyped
<1>7. Pushing' /\ Releasing'
  BY <1>1, <1>2, <1>4, Cores DEF LogInv, Pushing, Releasing
<1>8. Contents'
  <2>1. /\ Len(file) + Len(batch) + Waiting = Len(accepted)
        /\ \A i \in 1 .. Len(batch) : batch[i] = Len(file) + i
        /\ \A i \in 1 .. Waiting : ring[Slot(read, i)] = Len(file) + Len(batch) + i
        /\ \A i \in 1 .. Len(file) : file[i] = i
        /\ \A i \in 1 .. Len(accepted) : accepted[i] = i
    BY <1>3 DEF LogInv, Contents
  <2>2. ASSUME NEW i \in 1 .. Len(file')
        PROVE  file'[i] = i
    <3>1. CASE i \in 1 .. Len(file)
      BY <1>5, <2>1, <3>1
    <3>2. CASE i \notin 1 .. Len(file)
      <4>1. i - Len(file) \in 1 .. Len(batch) /\ Len(file) + (i - Len(file)) = i
        BY <1>5, <2>2, <3>2
      <4>2. file'[Len(file) + (i - Len(file))] = Len(file) + (i - Len(file))
        BY <1>5, <2>1, <4>1
      <4>3. QED
        BY <4>1, <4>2
    <3>3. QED
      BY <3>1, <3>2
  <2>3. \A i : Slot(read, i)' = Slot(read, i)
    BY <1>1 DEF Slot
  <2>4. Len(file') <= Len(accepted) /\ Len(file') + Len(batch') + Waiting' = Len(accepted)
    BY <1>4, <1>5, <2>1
  <2>5. \A i \in 1 .. Waiting' : ring[Slot(read, i)] = Len(file') + Len(batch') + i
    BY <1>4, <1>5, <2>1
  <2>6. \A i \in 1 .. Len(batch') : batch'[i] = Len(file') + i
    BY <1>5
  <2>7. QED
    BY <1>1, <2>1, <2>2, <2>3, <2>4, <2>5, <2>6 DEF Contents
<1>9. QED
  BY <1>6, <1>7, <1>8

(* A write that fails leaves a prefix, and the log is given up. *)
LEMMA WriteFailsKeeps ==
  ASSUME LogInv, NEW c \in Core, WriteFails(c)
  PROVE  LogTyped' /\ Pushing' /\ Releasing' /\ Contents'
<1>1. /\ UNCHANGED <<ring, write, read, accepted, local>>
      /\ batch' = <<>> /\ fileOpen' = FALSE /\ enabled' = FALSE /\ pc[c] = "write" /\ pc[c] \in Holding
      /\ \/ fileOpen /\ \E n \in 0 .. Len(batch) - 1 : file' = file \o SubSeq(batch, 1, n)
         \/ file' = file
  BY DEF WriteFails, ringVars, histVars, Holding
<1>2. /\ \A d \in Core \ {c} : pc'[d] = pc[d]
      /\ pc[1] # "boot" /\ pc'[c] = "unlock"
  BY <1>1, Alone DEF WriteFails, Goto, LogInv, Control, Holding
<1>3. /\ batch \in Seq(Nat) /\ file \in Seq(Nat) /\ accepted \in Seq(Nat)
      /\ Len(batch) \in Nat /\ Len(file) \in Nat /\ Len(accepted) \in Nat
      /\ read \in Index /\ write \in Index
  BY DEF LogInv, LogTyped
<1>4. Waiting' = Waiting /\ Waiting \in Nat
  BY <1>1, <1>3, WaitingIs, Counting DEF Waiting
<1>5. /\ Len(file) <= Len(accepted)
      /\ \A i \in 1 .. Len(file) : file[i] = i
      /\ \A i \in 1 .. Len(accepted) : accepted[i] = i
  BY DEF LogInv, Contents
<1>6. file' \in Seq(Nat) /\ Len(file') <= Len(accepted) /\ \A i \in 1 .. Len(file') : file'[i] = i
  <2>1. CASE file' = file
    BY <1>3, <1>5, <2>1
  <2>2. ASSUME fileOpen, NEW n \in 0 .. Len(batch) - 1, file' = file \o SubSeq(batch, 1, n)
        PROVE  file' \in Seq(Nat) /\ Len(file') <= Len(accepted) /\ \A i \in 1 .. Len(file') : file'[i] = i
    <3>1. /\ Len(file) + Len(batch) + Waiting = Len(accepted)
          /\ \A i \in 1 .. Len(batch) : batch[i] = Len(file) + i
      BY <2>2 DEF LogInv, LogTyped, Contents
    <3>2. n \in Nat /\ n <= Len(batch)
      BY <1>3, <2>2
    <3>3. /\ SubSeq(batch, 1, n) \in Seq(Nat) /\ Len(SubSeq(batch, 1, n)) = n
          /\ \A i \in 1 .. n : SubSeq(batch, 1, n)[i] = batch[i]
      BY <1>3, <3>2, SubSeqProperties
    <3>4. /\ file' \in Seq(Nat) /\ Len(file') = Len(file) + n
          /\ \A i \in 1 .. Len(file') :
               file'[i] = IF i <= Len(file) THEN file[i] ELSE SubSeq(batch, 1, n)[i - Len(file)]
      BY <1>3, <2>2, <3>2, <3>3, ConcatProperties
    <3>5. ASSUME NEW i \in 1 .. Len(file'), i > Len(file)
          PROVE  file'[i] = i
      <4>1. i - Len(file) \in 1 .. n /\ i - Len(file) \in 1 .. Len(batch)
        BY <1>3, <3>2, <3>4, <3>5
      <4>2. file'[i] = batch[i - Len(file)]
        BY <1>3, <3>3, <3>4, <3>5, <4>1
      <4>3. batch[i - Len(file)] = Len(file) + (i - Len(file))
        BY <3>1, <4>1
      <4>4. QED
        BY <1>3, <3>5, <4>2, <4>3
    <3>6. ASSUME NEW i \in 1 .. Len(file'), i <= Len(file)
          PROVE  file'[i] = i
      <4>1. i \in 1 .. Len(file)
        BY <1>3, <3>2, <3>4, <3>6
      <4>2. file'[i] = file[i]
        BY <3>4, <3>6
      <4>3. QED
        BY <1>5, <4>1, <4>2
    <3>7. \A i \in 1 .. Len(file') : i <= Len(file) \/ i > Len(file)
      BY <1>3, <3>4
    <3>8. Len(file') <= Len(accepted)
      BY <1>3, <1>4, <3>1, <3>2, <3>4
    <3>9. QED
      BY <3>4, <3>5, <3>6, <3>7, <3>8
  <2>3. QED
    BY <1>1, <2>1, <2>2
<1>7. LogTyped'
  <2>1. batch' \in Seq(Nat)
    BY <1>1
  <2>2. QED
    BY <1>1, <1>4, <1>6, <2>1 DEF LogInv, LogTyped
<1>8. Pushing' /\ Releasing'
  BY <1>1, <1>2, <1>4, Cores DEF LogInv, Pushing, Releasing
<1>9. Contents'
  <2>1. pc'[1] # "boot"
    BY <1>2, Cores
  <2>2. QED
    BY <1>1, <1>5, <1>6, <2>1 DEF Contents
<1>10. QED
  BY <1>7, <1>8, <1>9

LEMMA LogStep ==
  ASSUME LogInv, [Next]_vars
  PROVE  LogInv'
<1>1. Control'
  BY ControlStep DEF LogInv
<1>2. LogTyped' /\ Pushing' /\ Releasing' /\ Contents'
  <2>1. CASE Calm
    BY <2>1, CalmKeeps
  <2>2. CASE InitLog
    BY <2>2, InitLogKeeps
  <2>3. CASE PushTest
    BY <2>3, PushTestKeeps
  <2>4. CASE PushStore
    BY <2>4, PushStoreKeeps
  <2>5. CASE PushPublish
    BY <2>5, PushPublishKeeps
  <2>6. ASSUME NEW c \in Core, Format(c) \/ Release(c) \/ WriteBatch(c) \/ WriteFails(c)
        PROVE  LogTyped' /\ Pushing' /\ Releasing' /\ Contents'
    BY <2>6, FormatKeeps, ReleaseKeeps, WriteBatchKeeps, WriteFailsKeeps
  <2>7. QED
    BY <2>1, <2>2, <2>3, <2>4, <2>5, <2>6, Kinds DEF LogInv
<1>3. QED
  BY <1>1, <1>2 DEF LogInv

LEMMA LogStart == Init => LogInv
<1> SUFFICES ASSUME Init PROVE LogInv
  OBVIOUS
<1>1. Control
  BY ControlStart
<1>2. 0 \in Index /\ 0 \in Nat /\ Slots = 0 .. Size - 1
  BY Sizes DEF Index, Slots
<1>3. Waiting = 0
  BY <1>2, WaitingIs, Counting DEF Init
<1>4. <<>> \in Seq(Nat) /\ Len(<<>>) = 0
  OBVIOUS
<1>5. LogTyped
  <2>1. ring \in [Slots -> Nat]
    BY <1>2 DEF Init
  <2>2. local \in [write : Index, read : Index, entry : Nat]
    BY <1>2 DEF Init
  <2>3. enabled \in BOOLEAN /\ fileOpen = enabled
    BY DEF Init
  <2>4. Waiting <= Size
    BY <1>3, Sizes
  <2>5. QED
    BY <1>2, <1>4, <2>1, <2>2, <2>3, <2>4 DEF Init, LogTyped
<1>6. Pushing /\ Releasing
  BY Cores DEF Init, Pushing, Releasing
<1>7. Contents
  BY <1>3, <1>4 DEF Init, Contents
<1>8. QED
  BY <1>1, <1>5, <1>6, <1>7 DEF LogInv

-----------------------------------------------------------------------------
(* From where each record is to the sequences. *)

LEMMA Faithful == LogInv => LogIsFaithful
<1> SUFFICES ASSUME LogInv PROVE LogIsFaithful
  OBVIOUS
<1>1. /\ batch \in Seq(Nat) /\ file \in Seq(Nat) /\ accepted \in Seq(Nat)
      /\ Len(batch) \in Nat /\ Len(file) \in Nat /\ Len(accepted) \in Nat
      /\ read \in Index /\ write \in Index /\ ring \in [Slots -> Nat]
  BY DEF LogInv, LogTyped
<1>2. /\ Len(file) <= Len(accepted)
      /\ \A i \in 1 .. Len(file) : file[i] = i
      /\ \A i \in 1 .. Len(accepted) : accepted[i] = i
  BY DEF LogInv, Contents
<1>3. file = SubSeq(accepted, 1, Len(file))
  <2>1. \A i \in 1 .. Len(file) : i \in 1 .. Len(accepted) /\ accepted[i] = i /\ accepted[i] \in Nat
    BY <1>1, <1>2
  <2>2. /\ SubSeq(accepted, 1, Len(file)) \in Seq(Nat)
        /\ Len(SubSeq(accepted, 1, Len(file))) = Len(file)
        /\ \A i \in 1 .. Len(file) : SubSeq(accepted, 1, Len(file))[i] = accepted[i]
    BY <1>1, <2>1, SubSeqProperties
  <2>3. \A i \in 1 .. Len(file) : file[i] = SubSeq(accepted, 1, Len(file))[i]
    BY <1>2, <2>1, <2>2
  <2>4. QED
    BY <1>1, <2>2, <2>3, SeqEqual
<1>4. ASSUME enabled
      PROVE  file \o batch \o Pending = accepted
  <2>1. /\ Len(file) + Len(batch) + Waiting = Len(accepted)
        /\ \A i \in 1 .. Len(batch) : batch[i] = Len(file) + i
        /\ \A i \in 1 .. Waiting : ring[Slot(read, i)] = Len(file) + Len(batch) + i
    BY <1>4 DEF LogInv, Contents
  <2>2. Waiting \in Nat
    BY <1>1, WaitingIs, Counting
  <2>3. \A i \in 1 .. Waiting : Pending[i] = Len(file) + Len(batch) + i
    BY <2>1 DEF Pending, Slot
  <2>4. Pending \in Seq(Nat) /\ Len(Pending) = Waiting
    <3>1. \A i \in 1 .. Waiting : ring[(read + i - 1) % Size] \in Nat
      BY <1>1, <2>1 DEF Slot
    <3>2. Pending \in [1 .. Waiting -> Nat]
      BY <3>1 DEF Pending
    <3>3. Pending \in Seq(Nat)
      BY <2>2, <3>2, SeqDef
    <3>4. QED
      BY <2>2, <3>2, <3>3
  <2>5. /\ file \o batch \in Seq(Nat) /\ Len(file \o batch) = Len(file) + Len(batch)
        /\ \A i \in 1 .. Len(file) + Len(batch) : (file \o batch)[i] = i
    <3>1. /\ file \o batch \in Seq(Nat) /\ Len(file \o batch) = Len(file) + Len(batch)
          /\ \A i \in 1 .. Len(file) + Len(batch) :
               (file \o batch)[i] = IF i <= Len(file) THEN file[i] ELSE batch[i - Len(file)]
      BY <1>1, ConcatProperties
    <3>2. ASSUME NEW i \in 1 .. Len(file) + Len(batch)
          PROVE  (file \o batch)[i] = i
      <4>1. CASE i <= Len(file)
        <5>1. i \in 1 .. Len(file)
          BY <1>1, <4>1
        <5>2. (file \o batch)[i] = file[i]
          BY <3>1, <4>1
        <5>3. QED
          BY <1>2, <5>1, <5>2
      <4>2. CASE i > Len(file)
        <5>1. i - Len(file) \in 1 .. Len(batch) /\ ~(i <= Len(file)) /\ Len(file) + (i - Len(file)) = i
          BY <1>1, <4>2
        <5>2. (file \o batch)[i] = batch[i - Len(file)]
          BY <3>1, <5>1
        <5>3. batch[i - Len(file)] = Len(file) + (i - Len(file))
          BY <2>1, <5>1
        <5>4. QED
          BY <5>1, <5>2, <5>3
      <4>3. QED
        BY <1>1, <4>1, <4>2
    <3>3. QED
      BY <3>1, <3>2
  <2> DEFINE done == file \o batch
             L == Len(file) + Len(batch)
             all == done \o Pending
  <2>6. done \in Seq(Nat) /\ Len(done) = L /\ L \in Nat /\ \A i \in 1 .. L : done[i] = i
    BY <1>1, <2>5
  <2>7. \A i \in 1 .. Waiting : Pending[i] = L + i
    BY <2>3
  <2>8. L + Waiting = Len(accepted)
    BY <2>1
  <2> HIDE DEF done, L
  <2>9. /\ all \in Seq(Nat) /\ Len(all) = L + Waiting
        /\ \A i \in 1 .. L + Waiting : all[i] = IF i <= L THEN done[i] ELSE Pending[i - L]
    BY <2>4, <2>6, ConcatProperties
  <2> HIDE DEF all
  <2>10. ASSUME NEW i \in 1 .. Len(all)
         PROVE  all[i] = accepted[i]
    <3>1. i \in 1 .. L + Waiting /\ accepted[i] = i
      BY <1>2, <2>8, <2>9
    <3>2. CASE i <= L
      <4>1. i \in 1 .. L
        BY <2>2, <2>6, <3>1, <3>2
      <4>2. QED
        BY <2>6, <2>9, <3>1, <3>2, <4>1
    <3>3. CASE i > L
      <4>1. i - L \in 1 .. Waiting /\ ~(i <= L) /\ L + (i - L) = i
        BY <2>2, <2>6, <3>1, <3>3
      <4>2. all[i] = Pending[i - L]
        BY <2>9, <3>1, <4>1
      <4>3. Pending[i - L] = L + (i - L)
        BY <2>7, <4>1
      <4>4. QED
        BY <3>1, <4>1, <4>2, <4>3
    <3>4. QED
      BY <2>2, <2>6, <3>1, <3>2, <3>3
  <2>11. Len(all) = Len(accepted)
    BY <2>8, <2>9
  <2>12. all = accepted
    BY <1>1, <2>9, <2>10, <2>11, SeqEqual
  <2>13. QED
    BY <2>12 DEF all, done
<1>5. QED
  BY <1>2, <1>3, <1>4 DEF LogIsFaithful

(* The log on the card is what the ring took, each record once, whole and in order,
   with both cores flushing while core 1 pushes, for every size of ring and batch, and
   across failed writes (sasi_log_push, sasi_log_flush_locked). *)
THEOREM LogIsFaithfulAlways == Spec => []LogIsFaithful
<1>1. LogInv /\ [Next]_vars => LogInv'
  BY LogStep
<1>2. QED
  BY <1>1, LogStart, Faithful, PTL DEF Spec
=============================================================================
