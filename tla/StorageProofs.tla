--------------------------- MODULE StorageProofs ---------------------------
(***************************************************************************)
(* Proofs about the mailbox, the routes and the SD volume, for every set   *)
(* of targets and images and every threshold: an answer is the one that    *)
(* was asked for, a target serves what was mounted on it, a copy that      *)
(* fails leaves nothing behind, and a mount that fails has a reason.       *)
(***************************************************************************)
EXTENDS Storage, TLAPS

-----------------------------------------------------------------------------
(* The invariant of the volume. *)

Sized(v) == v \in Volume /\ v.locks \subseteq v.present /\ v.partial \subseteq v.present

(* Each target has an image of its own, which is on the card; its handle reaches that
   image or none, and while the file system is up it does, and holds the lock. *)
Mounted(v) ==
  /\ \A t \in Targets : v.file[t] \in {None, v.path[t]}
  /\ \A t \in Targets : v.path[t] # None => v.path[t] \in v.present
  /\ \A t, u \in Targets : v.path[t] = v.path[u] => t = u \/ v.path[t] = None
  /\ v.fs = "up" => v.file = v.path /\ \A t \in Targets : v.path[t] # None => v.path[t] \in v.locks

(* No target has the new image of a copy; one whose files a remount has closed
   can delete it. *)
Copying(v) == v.copy # NoCopy =>
  /\ v.copy.src \in Images /\ v.copy.dst \in Images
  /\ \A t \in Targets : v.path[t] # v.copy.dst
  /\ v.copy.live => \A t \in Targets : v.path[t] # v.copy.src
  /\ ~v.copy.live /\ v.fs = "up" => v.copy.dst \notin v.locks

Sound(v) == Sized(v) /\ Mounted(v) /\ Copying(v)

(* Arguments fit the operation. *)
Asked(r) ==
  /\ r \in Request
  /\ r.kind = "mount" => r.on \in {"sd", "fuji"} /\ r.t \in Targets /\ r.a \in Images
  /\ r.kind = "eject" => r.t \in Targets
  /\ r.kind \in {"create", "rm", "copy"} => r.a \in Images
  /\ r.kind = "copy" => r.b \in Images

Rest ==
  /\ slot \in {"idle", "pending", "done"} /\ Asked(req)
  /\ res \in [id : 0 .. MaxOps, ok : BOOLEAN]
  /\ core0 \in {"idle", "filled", "wait"} /\ asked \in 0 .. MaxOps /\ run \in 0 .. MaxOps
  /\ backend \in [Targets -> {"none", "sd", "fuji"}]
  /\ fuji \in [Targets -> OrNone] /\ want \in [Targets -> OrNone]
  /\ fails \in [Ops -> [Targets -> 0 .. DisableAt]]
  /\ card \in {"ok", "gone"} /\ faults \in 0 .. MaxFaults

(* One operation at a time: what waits in the slot is what was asked last, and core 1
   works on it, or on nothing. *)
Mailbox ==
  /\ core0 = "filled" => slot = "idle" /\ req.id = asked
  /\ slot = "pending" => req.id = asked
  /\ run # 0 => slot = "pending" /\ req.id = run
  /\ vol.copy # NoCopy => run # 0 /\ req.kind = "copy"
  /\ core0 = "wait" /\ slot = "done" => res.id = asked

Routed ==
  \A t \in Targets :
    /\ backend[t] = "sd" => vol.path[t] \in {None, want[t]}
    /\ backend[t] = "fuji" => fuji[t] \in {None, want[t]}

StorageInv == Rest /\ Sound(vol) /\ Mailbox /\ Routed

-----------------------------------------------------------------------------
(* What the operators on a volume do, field by field. *)

LEMMA Constants ==
  /\ Targets \subseteq Int /\ None \notin Images /\ RemountAt \in Nat \ {0} /\ DisableAt \in Nat
  /\ Images \subseteq OrNone /\ None \in OrNone /\ \A x \in OrNone : x # None => x \in Images
BY StorageAssumption DEF OrNone

LEMMA Fields ==
  ASSUME NEW v \in Volume
  PROVE  /\ v.fs \in {"up", "down"} /\ v.path \in [Targets -> OrNone] /\ v.file \in [Targets -> OrNone]
         /\ v.locks \in SUBSET Images /\ v.present \in SUBSET Images /\ v.partial \in SUBSET Images
         /\ v.errs \in 0 .. RemountAt + 1
         /\ v.copy \in [src : OrNone, dst : OrNone, live : BOOLEAN]
BY DEF Volume

(* Two volumes that differ in their error counter only. *)
SameBut(v, w) ==
  /\ w.fs = v.fs /\ w.path = v.path /\ w.file = v.file /\ w.locks = v.locks
  /\ w.present = v.present /\ w.partial = v.partial /\ w.copy = v.copy

LEMMA ErrsOnly ==
  ASSUME NEW v \in Volume, NEW w \in Volume, SameBut(v, w), Sound(v)
  PROVE  Sound(w)
BY DEF SameBut, Sound, Sized, Mounted, Copying

LEMMA Cleared ==
  ASSUME NEW v \in Volume
  PROVE  [v EXCEPT !.errs = 0] \in Volume /\ SameBut(v, [v EXCEPT !.errs = 0])
BY Constants DEF Volume, SameBut

LEMMA BumpedIs ==
  ASSUME NEW v \in Volume
  PROVE  Bumped(v) \in Volume /\ SameBut(v, Bumped(v))
<1>1. (IF v.errs > RemountAt THEN v.errs ELSE v.errs + 1) \in 0 .. RemountAt + 1
  BY Fields, Constants
<1>2. QED
  BY <1>1 DEF Volume, SameBut, Bumped

LEMMA UnmountIs ==
  ASSUME NEW v, Sound(v), NEW t \in Targets, NEW h, NEW w \in Unmounts(v, t, h)
  PROVE  /\ w \in Volume /\ w.fs = v.fs /\ w.present = v.present /\ w.partial = v.partial
         /\ w.errs = v.errs /\ w.copy = v.copy
         /\ w.path = [v.path EXCEPT ![t] = None] /\ w.file = [v.file EXCEPT ![t] = None]
         /\ w.locks \in {v.locks, v.locks \ {v.file[t]}}
<1>1. v \in Volume /\ v.file[t] \in {None, v.path[t]}
  BY DEF Sound, Sized, Mounted
<1>2. CASE v.path[t] = None
  <2>1. w = v
    BY <1>2 DEF Unmounts
  <2>2. [v.path EXCEPT ![t] = None] = v.path /\ [v.file EXCEPT ![t] = None] = v.file
    BY <1>1, <1>2, Fields
  <2>3. QED
    BY <1>1, <2>1, <2>2
<1>3. CASE v.path[t] # None
  <2>1. PICK c \in Closes(v, t, h) : w = [c EXCEPT !.path[t] = None]
    BY <1>3 DEF Unmounts
  <2> DEFINE shut == [v EXCEPT !.file[t] = None]
  <2>2. /\ shut \in Volume /\ shut.file = [v.file EXCEPT ![t] = None] /\ shut.path = v.path
        /\ shut.fs = v.fs /\ shut.present = v.present /\ shut.partial = v.partial
        /\ shut.errs = v.errs /\ shut.copy = v.copy /\ shut.locks = v.locks
    BY <1>1, Constants DEF Volume
  <2>3. c = [shut EXCEPT !.locks = @ \ {v.file[t]}] \/ c = shut
    BY <2>1 DEF Closes
  <2> HIDE DEF shut
  <2>4. /\ c \in Volume /\ c.file = [v.file EXCEPT ![t] = None] /\ c.path = v.path
        /\ c.fs = v.fs /\ c.present = v.present /\ c.partial = v.partial
        /\ c.errs = v.errs /\ c.copy = v.copy /\ c.locks \in {v.locks, v.locks \ {v.file[t]}}
    BY <2>2, <2>3 DEF Volume
  <2>5. QED
    BY <2>1, <2>4, Constants DEF Volume
<1>4. QED
  BY <1>2, <1>3

LEMMA DismountedIs ==
  ASSUME NEW v \in Volume
  PROVE  LET d == Dismounted(v) IN
         /\ d \in Volume /\ d.fs = "down" /\ d.path = v.path /\ d.file = [t \in Targets |-> None]
         /\ d.locks = {} /\ d.present = v.present /\ d.partial = v.partial
         /\ d.errs = v.errs /\ d.copy = [v.copy EXCEPT !.live = FALSE]
BY Constants DEF Dismounted, Volume

Found(v, bad) == [t \in Targets |-> IF Reopens(v, t, bad) THEN v.path[t] ELSE None]

LEMMA ReopenedIs ==
  ASSUME NEW v \in Volume, NEW bad
  PROVE  LET r == Reopened(v, bad) IN
         /\ r \in Volume /\ r.fs = "up" /\ r.path = Found(v, bad) /\ r.file = Found(v, bad)
         /\ r.locks = {Found(v, bad)[t] : t \in Targets} \ {None}
         /\ r.present = v.present /\ r.partial = v.partial
         /\ r.errs = 0 /\ r.copy = [v.copy EXCEPT !.live = FALSE]
<1>1. /\ Found(v, bad) \in [Targets -> OrNone]
      /\ {Found(v, bad)[t] : t \in Targets} \ {None} \in SUBSET Images
  BY Fields, Constants DEF Found
<1> DEFINE d == Dismounted(v)
<1>2. /\ d \in Volume /\ d.present = v.present /\ d.partial = v.partial
      /\ d.copy = [v.copy EXCEPT !.live = FALSE]
  BY DismountedIs
<1>3. Reopened(v, bad) = [d EXCEPT !.fs = "up", !.errs = 0, !.file = Found(v, bad), !.path = Found(v, bad),
                                   !.locks = {Found(v, bad)[t] : t \in Targets} \ {None}]
  BY DEF Reopened, Found
<1> DEFINE F == Found(v, bad)
           L == {Found(v, bad)[t] : t \in Targets} \ {None}
<1>4. F \in [Targets -> OrNone] /\ L \in SUBSET Images
      /\ Reopened(v, bad) = [d EXCEPT !.fs = "up", !.errs = 0, !.file = F, !.path = F, !.locks = L]
  BY <1>1, <1>3
<1> HIDE DEF d, F, L
<1> DEFINE e == [d EXCEPT !.fs = "up", !.errs = 0]
<1>5. /\ e \in Volume /\ e.fs = "up" /\ e.errs = 0
      /\ e.present = v.present /\ e.partial = v.partial /\ e.copy = [v.copy EXCEPT !.live = FALSE]
  <2>1. 0 \in 0 .. RemountAt + 1
    BY Constants
  <2> DEFINE u == [d EXCEPT !.fs = "up"]
             c == [v.copy EXCEPT !.live = FALSE]
  <2>2. u \in Volume /\ u.fs = "up" /\ u.present = d.present /\ u.partial = d.partial /\ u.copy = d.copy
    BY <1>2 DEF Volume
  <2>3. d.copy = c /\ d.present = v.present /\ d.partial = v.partial
    BY <1>2
  <2>4. e = [u EXCEPT !.errs = 0]
    OBVIOUS
  <2> HIDE DEF u, c, e
  <2>5. QED
    BY <2>1, <2>2, <2>3, <2>4 DEF Volume, c
<1>6. Reopened(v, bad) = [e EXCEPT !.file = F, !.path = F, !.locks = L]
  BY <1>2, <1>4 DEF Volume
<1> HIDE DEF e
<1>7. LET r == Reopened(v, bad) IN
      /\ r \in Volume /\ r.fs = "up" /\ r.path = F /\ r.file = F /\ r.locks = L
      /\ r.present = v.present /\ r.partial = v.partial
      /\ r.errs = 0 /\ r.copy = [v.copy EXCEPT !.live = FALSE]
  BY <1>4, <1>5, <1>6 DEF Volume
<1>8. QED
  BY <1>7 DEF F, L

LEMMA OpenedIs ==
  ASSUME NEW v \in Volume, NEW t \in Targets, NEW img \in Images
  PROVE  LET o == Opened(v, t, img) IN
         /\ o \in Volume /\ o.fs = v.fs /\ o.path = [v.path EXCEPT ![t] = img]
         /\ o.file = [v.file EXCEPT ![t] = img] /\ o.locks = v.locks \cup {img}
         /\ o.present = v.present /\ o.partial = v.partial /\ o.errs = v.errs /\ o.copy = v.copy
BY Constants DEF Opened, Volume

(* A step that takes images off targets, and may close the files of a copy. *)
Narrows(v, w) ==
  /\ \A t \in Targets : w.path[t] \in {None, v.path[t]}
  /\ w.copy = v.copy \/ w.copy = [v.copy EXCEPT !.live = FALSE]

LEMMA NoCopyStays ==
  ASSUME NEW v, NEW w, Narrows(v, w), v.copy = NoCopy
  PROVE  w.copy = NoCopy
<1> DEFINE n == [NoCopy EXCEPT !.live = FALSE]
<1>1. n \in [src : {None}, dst : {None}, live : {FALSE}]
  BY DEF NoCopy
<1> HIDE DEF n
<1>1a. n = NoCopy
  BY <1>1 DEF NoCopy
<1>2. QED
  BY <1>1a DEF Narrows, n

LEMMA CopyNarrows ==
  ASSUME NEW v, Sound(v), NEW w \in Volume, Narrows(v, w),
         v.copy # NoCopy /\ ~w.copy.live /\ w.fs = "up" => v.copy.dst \notin w.locks
  PROVE  Copying(w)
<1>1. v.copy \in [src : OrNone, dst : OrNone, live : BOOLEAN]
  BY Fields DEF Sound, Sized
<1>2. /\ w.copy.src = v.copy.src /\ w.copy.dst = v.copy.dst /\ (w.copy.live => v.copy.live)
      /\ v.copy = NoCopy => w.copy = NoCopy
  BY <1>1, NoCopyStays DEF Narrows
<1>3. QED
  BY <1>2, Constants DEF Sound, Copying, Narrows

-----------------------------------------------------------------------------
(* The operators keep the invariant of the volume. *)

LEMMA UnmountSound ==
  ASSUME NEW v, Sound(v), NEW t \in Targets, NEW h, NEW w \in Unmounts(v, t, h)
  PROVE  Sound(w) /\ Narrows(v, w) /\ w.copy = v.copy
<1>1. /\ w \in Volume /\ w.fs = v.fs /\ w.present = v.present /\ w.partial = v.partial
      /\ w.errs = v.errs /\ w.copy = v.copy
      /\ w.path = [v.path EXCEPT ![t] = None] /\ w.file = [v.file EXCEPT ![t] = None]
      /\ w.locks \in {v.locks, v.locks \ {v.file[t]}}
  BY UnmountIs
<1>2. v \in Volume /\ v.path \in [Targets -> OrNone] /\ v.file \in [Targets -> OrNone]
  BY Fields DEF Sound, Sized
<1>3. \A u \in Targets : /\ w.path[u] = IF u = t THEN None ELSE v.path[u]
                         /\ w.file[u] = IF u = t THEN None ELSE v.file[u]
  BY <1>1, <1>2
<1>4. Sized(w)
  BY <1>1 DEF Sound, Sized
<1>5. Mounted(w)
  <2>1. Mounted(v)
    BY DEF Sound
  <2>2. \A u \in Targets : w.file[u] \in {None, w.path[u]} /\ (w.path[u] # None => w.path[u] \in w.present)
    BY <1>1, <1>3, <2>1 DEF Mounted
  <2>3. \A s, u \in Targets : w.path[s] = w.path[u] => s = u \/ w.path[s] = None
    BY <1>3, <2>1 DEF Mounted
  <2>4. ASSUME w.fs = "up"
        PROVE  w.file = w.path /\ \A u \in Targets : w.path[u] # None => w.path[u] \in w.locks
    <3>1. v.file = v.path /\ \A u \in Targets : v.path[u] # None => v.path[u] \in v.locks
      BY <1>1, <2>1, <2>4 DEF Mounted
    <3>2. \A u \in Targets : w.path[u] # None => w.path[u] # v.file[t]
      BY <1>3, <2>1, <3>1 DEF Mounted
    <3>3. QED
      BY <1>1, <1>3, <3>1, <3>2
  <2>5. QED
    BY <2>2, <2>3, <2>4 DEF Mounted
<1>6. Narrows(v, w)
  BY <1>1, <1>3 DEF Narrows
<1>7. Copying(w)
  <2>1. v.copy # NoCopy /\ ~w.copy.live /\ w.fs = "up" => v.copy.dst \notin w.locks
    BY <1>1 DEF Sound, Copying
  <2>2. QED
    BY <1>1, <1>6, <2>1, CopyNarrows
<1>8. QED
  BY <1>1, <1>4, <1>5, <1>6, <1>7 DEF Sound

LEMMA DismountSound ==
  ASSUME NEW v, Sound(v)
  PROVE  Sound(Dismounted(v)) /\ Narrows(v, Dismounted(v))
<1> DEFINE d == Dismounted(v)
<1>0. v \in Volume
  BY DEF Sound, Sized
<1>1. /\ d \in Volume /\ d.fs = "down" /\ d.path = v.path /\ d.file = [t \in Targets |-> None]
      /\ d.locks = {} /\ d.present = v.present /\ d.partial = v.partial
      /\ d.copy = [v.copy EXCEPT !.live = FALSE]
  BY <1>0, DismountedIs
<1> HIDE DEF d
<1>2. Sized(d)
  BY <1>1 DEF Sound, Sized
<1>3. Mounted(d)
  BY <1>1 DEF Sound, Mounted
<1>4. Narrows(v, d)
  BY <1>1 DEF Narrows
<1>5. Copying(d)
  BY <1>1, <1>4, CopyNarrows
<1>6. QED
  BY <1>2, <1>3, <1>4, <1>5 DEF Sound, d

LEMMA ReopenSound ==
  ASSUME NEW v, Sound(v), NEW bad
  PROVE  Sound(Reopened(v, bad)) /\ Narrows(v, Reopened(v, bad))
<1> DEFINE r == Reopened(v, bad)
           F == Found(v, bad)
<1>0. v \in Volume
  BY DEF Sound, Sized
<1>1. /\ r \in Volume /\ r.fs = "up" /\ r.path = F /\ r.file = F
      /\ r.locks = {F[t] : t \in Targets} \ {None} /\ r.present = v.present /\ r.partial = v.partial
      /\ r.copy = [v.copy EXCEPT !.live = FALSE]
  BY <1>0, ReopenedIs
<1>2. \A t \in Targets : F[t] \in {None, v.path[t]} /\ (F[t] # None => v.path[t] \in v.present)
  BY DEF Found, Reopens
<1> HIDE DEF r, F
<1>3. r.locks \subseteq v.present /\ \A x \in r.locks : \E t \in Targets : x = v.path[t]
  BY <1>1, <1>2
<1>4. Sized(r)
  BY <1>1, <1>3 DEF Sound, Sized
<1>5. Mounted(r)
  <2>1. \A t \in Targets : r.file[t] \in {None, r.path[t]} /\ (r.path[t] # None => r.path[t] \in r.present)
    BY <1>1, <1>2
  <2>2. \A t, u \in Targets : r.path[t] = r.path[u] => t = u \/ r.path[t] = None
    BY <1>1, <1>2 DEF Sound, Mounted
  <2>3. \A t \in Targets : r.path[t] # None => r.path[t] \in r.locks
    BY <1>1
  <2>4. QED
    BY <1>1, <2>1, <2>2, <2>3 DEF Mounted
<1>6. Narrows(v, r)
  BY <1>1, <1>2 DEF Narrows
<1>7. Copying(r)
  <2>1. v.copy # NoCopy => v.copy.dst \notin r.locks
    BY <1>3 DEF Sound, Copying
  <2>2. QED
    BY <1>1, <1>6, <2>1, CopyNarrows
<1>8. QED
  BY <1>4, <1>5, <1>6, <1>7 DEF Sound, r

LEMMA RemountSound ==
  ASSUME NEW v, Sound(v), NEW h, NEW r \in Remounts(v, h)
  PROVE  Sound(r.v) /\ Narrows(v, r.v) /\ r = Outcome(r.v, r.ok) /\ r.ok \in BOOLEAN
<1>1. CASE r = Outcome(Dismounted(v), FALSE)
  BY <1>1, DismountSound DEF Outcome
<1>2. ASSUME NEW bad, r = (LET s == Reopened(v, bad) IN Outcome(s, s.file = v.path))
      PROVE  Sound(r.v) /\ Narrows(v, r.v) /\ r = Outcome(r.v, r.ok) /\ r.ok \in BOOLEAN
  BY <1>2, ReopenSound DEF Outcome
<1>3. QED
  BY <1>1, <1>2 DEF Remounts

LEMMA OpenSound ==
  ASSUME NEW v, Sound(v), NEW t \in Targets, NEW img \in Images, CanOpen(v, img), v.copy = NoCopy
  PROVE  LET o == Opened(v, t, img) IN
         Sound(o) /\ o.copy = NoCopy /\ o.path = [v.path EXCEPT ![t] = img]
<1> DEFINE o == Opened(v, t, img)
<1>0. v \in Volume /\ v.path \in [Targets -> OrNone] /\ v.file \in [Targets -> OrNone]
  BY Fields DEF Sound, Sized
<1>1. /\ o \in Volume /\ o.fs = v.fs /\ o.path = [v.path EXCEPT ![t] = img]
      /\ o.file = [v.file EXCEPT ![t] = img] /\ o.locks = v.locks \cup {img}
      /\ o.present = v.present /\ o.partial = v.partial /\ o.copy = v.copy
  BY <1>0, OpenedIs
<1> HIDE DEF o
<1>2. v.fs = "up" /\ img \in v.present /\ img \notin v.locks
  BY DEF CanOpen
<1>3. /\ v.file = v.path /\ \A u \in Targets : v.path[u] # None => v.path[u] \in v.locks
      /\ \A u \in Targets : v.path[u] # img
  BY <1>2, Constants DEF Sound, Mounted
<1>4. \A u \in Targets : o.path[u] = (IF u = t THEN img ELSE v.path[u]) /\ o.file[u] = o.path[u]
  BY <1>0, <1>1, <1>3
<1>5. Sized(o)
  BY <1>1, <1>2 DEF Sound, Sized
<1>6. Mounted(o)
  <2>1. Mounted(v)
    BY DEF Sound
  <2>2. \A u \in Targets : o.path[u] # None => o.path[u] \in o.present /\ o.path[u] \in o.locks
    BY <1>1, <1>2, <1>3, <1>4, <2>1 DEF Mounted
  <2>3. \A s, u \in Targets : o.path[s] = o.path[u] => s = u \/ o.path[s] = None
    BY <1>3, <1>4, <2>1 DEF Mounted
  <2>4. o.file = o.path
    BY <1>1, <1>3
  <2>5. QED
    BY <1>4, <2>2, <2>3, <2>4 DEF Mounted
<1>7. QED
  BY <1>1, <1>5, <1>6 DEF Sound, Copying, o

(* A mount changes its own target only, which has the image if the mount succeeds and
   none if it fails. *)
Mounts(v, w, t, img, ok) ==
  /\ \A u \in Targets \ {t} : w.path[u] \in {None, v.path[u]}
  /\ w.path[t] = IF ok THEN img ELSE None

LEMMA RetrySound ==
  ASSUME NEW v, Sound(v), NEW t \in Targets, NEW img \in Images, NEW h, v.copy = NoCopy,
         v.path[t] = None, NEW r \in Retried(v, t, img, h)
  PROVE  Sound(r.v) /\ r.v.copy = NoCopy /\ r.ok \in BOOLEAN /\ Mounts(v, r.v, t, img, r.ok)
<1>1. PICK s \in Remounts(v, h) :
        \/ CanOpen(s.v, img) /\ r = Outcome(Opened(s.v, t, img), TRUE)
        \/ r = Outcome(s.v, FALSE)
  BY DEF Retried
<1>2. Sound(s.v) /\ Narrows(v, s.v) /\ s.v.copy = NoCopy
  BY RemountSound, NoCopyStays
<1>3. s.v.path \in [Targets -> OrNone]
  BY <1>2, Fields DEF Sound, Sized
<1>4. CASE CanOpen(s.v, img) /\ r = Outcome(Opened(s.v, t, img), TRUE)
  <2>1. /\ r.v = Opened(s.v, t, img) /\ r.ok = TRUE
    BY <1>4 DEF Outcome
  <2> DEFINE o == Opened(s.v, t, img)
  <2>a. Sound(o) /\ o.copy = NoCopy /\ o.path = [s.v.path EXCEPT ![t] = img]
    BY <1>2, <1>4, OpenSound
  <2> HIDE DEF o
  <2>2. Sound(r.v) /\ r.v.copy = NoCopy /\ r.v.path = [s.v.path EXCEPT ![t] = img]
    BY <2>1, <2>a DEF o
  <2>3. Mounts(v, r.v, t, img, TRUE)
    BY <1>2, <1>3, <2>2 DEF Mounts, Narrows
  <2>4. QED
    BY <2>1, <2>2, <2>3
<1>5. CASE r = Outcome(s.v, FALSE)
  BY <1>2, <1>5 DEF Outcome, Mounts, Narrows
<1>6. QED
  BY <1>1, <1>4, <1>5

LEMMA MountSound ==
  ASSUME NEW v, Sound(v), NEW t \in Targets, NEW img \in Images, NEW h, v.copy = NoCopy,
         NEW r \in SdMounts(v, t, img, h)
  PROVE  Sound(r.v) /\ r.v.copy = NoCopy /\ r.ok \in BOOLEAN /\ Mounts(v, r.v, t, img, r.ok)
<1>1. PICK u \in Unmounts(v, t, h) :
        \/ CanOpen(u, img) /\ r = Outcome(Opened(u, t, img), TRUE)
        \/ r = Outcome(u, FALSE)
        \/ r \in Retried(u, t, img, h)
  BY DEF SdMounts
<1>2. v.path \in [Targets -> OrNone] /\ v \in Volume
  BY Fields DEF Sound, Sized
<1>3. Sound(u) /\ u.copy = NoCopy /\ u.path = [v.path EXCEPT ![t] = None]
  <2>1. Sound(u)
    BY UnmountSound
  <2>2. /\ u \in Volume /\ u.fs = v.fs /\ u.present = v.present /\ u.partial = v.partial
        /\ u.errs = v.errs /\ u.copy = v.copy
        /\ u.path = [v.path EXCEPT ![t] = None] /\ u.file = [v.file EXCEPT ![t] = None]
        /\ u.locks \in {v.locks, v.locks \ {v.file[t]}}
    BY UnmountIs
  <2>3. QED
    BY <2>1, <2>2
<1>4. u.path[t] = None /\ u.path \in [Targets -> OrNone] /\ \A x \in Targets \ {t} : u.path[x] = v.path[x]
  BY <1>2, <1>3, Constants
<1>5. CASE CanOpen(u, img) /\ r = Outcome(Opened(u, t, img), TRUE)
  <2>1. /\ r.v = Opened(u, t, img) /\ r.ok = TRUE
    BY <1>5 DEF Outcome
  <2> DEFINE o == Opened(u, t, img)
  <2>a. Sound(o) /\ o.copy = NoCopy /\ o.path = [u.path EXCEPT ![t] = img]
    BY <1>3, <1>5, OpenSound
  <2> HIDE DEF o
  <2>2. Sound(r.v) /\ r.v.copy = NoCopy /\ r.v.path = [u.path EXCEPT ![t] = img]
    BY <2>1, <2>a DEF o
  <2>3. Mounts(v, r.v, t, img, TRUE)
    BY <1>4, <2>2 DEF Mounts
  <2>4. QED
    BY <2>1, <2>2, <2>3
<1>6. CASE r = Outcome(u, FALSE)
  BY <1>3, <1>4, <1>6 DEF Outcome, Mounts
<1>7. CASE r \in Retried(u, t, img, h)
  <2>1. Sound(r.v) /\ r.v.copy = NoCopy /\ r.ok \in BOOLEAN /\ Mounts(u, r.v, t, img, r.ok)
    BY <1>3, <1>4, <1>7, RetrySound
  <2>2. QED
    BY <1>4, <2>1 DEF Mounts
<1>8. QED
  BY <1>1, <1>5, <1>6, <1>7

LEMMA ListSound ==
  ASSUME NEW v, Sound(v), NEW h, NEW r \in Lists(v, h)
  PROVE  Sound(r.v) /\ Narrows(v, r.v) /\ r.ok \in BOOLEAN
<1>1. CASE r = Outcome(v, TRUE)
  BY <1>1 DEF Outcome, Narrows
<1>2. ASSUME NEW s \in Remounts(v, h), r = Outcome(s.v, TRUE)
      PROVE  Sound(r.v) /\ Narrows(v, r.v) /\ r.ok \in BOOLEAN
  BY <1>2, RemountSound DEF Outcome
<1>3. QED
  BY <1>1, <1>2 DEF Lists

(* Volumes that differ in which images there are, and which of them are locked. *)
SamePlaces(v, w) == w.fs = v.fs /\ w.path = v.path /\ w.file = v.file /\ w.copy = v.copy

LEMMA CreateSound ==
  ASSUME NEW v, Sound(v), NEW img \in Images, NEW h, v.copy = NoCopy, NEW r \in Creates(v, img, h)
  PROVE  Sound(r.v) /\ SamePlaces(v, r.v) /\ r.ok \in BOOLEAN
<1>0. v \in Volume
  BY DEF Sound, Sized
<1> DEFINE new == [v EXCEPT !.present = @ \cup {img}]
           left == [v EXCEPT !.present = @ \cup {img}, !.partial = @ \cup {img}]
           held == [left EXCEPT !.locks = @ \cup {img}]
<1>1. r \in {Outcome(v, FALSE), Outcome(new, TRUE), Outcome(left, FALSE), Outcome(held, FALSE)}
  BY DEF Creates
<1>2. /\ new \in Volume /\ SamePlaces(v, new) /\ new.locks = v.locks
      /\ new.present = v.present \cup {img} /\ new.partial = v.partial
  BY <1>0 DEF Volume, SamePlaces
<1>3. /\ left \in Volume /\ SamePlaces(v, left) /\ left.locks = v.locks
      /\ left.present = v.present \cup {img} /\ left.partial = v.partial \cup {img}
  BY <1>0 DEF Volume, SamePlaces
<1> HIDE DEF new, left
<1>4. /\ held \in Volume /\ SamePlaces(v, held) /\ held.locks = v.locks \cup {img}
      /\ held.present = v.present \cup {img} /\ held.partial = v.partial \cup {img}
  BY <1>3 DEF Volume, SamePlaces
<1> HIDE DEF held
<1>5. ASSUME NEW w \in Volume, SamePlaces(v, w), w.present = v.present \cup {img},
             w.locks \in {v.locks, v.locks \cup {img}}, w.partial \in {v.partial, v.partial \cup {img}}
      PROVE  Sound(w)
  <2>1. Sized(w)
    BY <1>5 DEF Sound, Sized
  <2>2. Mounted(w)
    BY <1>5 DEF Sound, Mounted, SamePlaces
  <2>3. QED
    BY <1>5, <2>1, <2>2 DEF Sound, Copying, SamePlaces
<1>6. Sound(new) /\ Sound(left) /\ Sound(held)
  BY <1>2, <1>3, <1>4, <1>5
<1>7. SamePlaces(v, v)
  BY DEF SamePlaces
<1>8. \A w, b : Outcome(w, b).v = w /\ Outcome(w, b).ok = b
  BY DEF Outcome
<1>9. \E w \in {v, new, left, held}, b \in BOOLEAN : r = Outcome(w, b)
  BY <1>1
<1>10. \A w \in {v, new, left, held} : Sound(w) /\ SamePlaces(v, w)
  BY <1>2, <1>3, <1>4, <1>6, <1>7
<1>11. QED
  BY <1>8, <1>9, <1>10

LEMMA UnlinkSound ==
  ASSUME NEW v, Sound(v), NEW img
  PROVE  LET w == Unlinked(v, img) IN
         /\ Sound(w) /\ SamePlaces(v, w)
         /\ v.fs = "up" /\ img \notin v.locks => img \notin w.partial
<1>0. v \in Volume
  BY DEF Sound, Sized
<1>1. CASE ~(v.fs = "up" /\ img \notin v.locks)
  BY <1>1 DEF Unlinked, SamePlaces
<1>2. CASE v.fs = "up" /\ img \notin v.locks
  <2> DEFINE w == [v EXCEPT !.present = @ \ {img}, !.partial = @ \ {img}]
  <2>1. /\ w \in Volume /\ SamePlaces(v, w) /\ w.locks = v.locks
        /\ w.present = v.present \ {img} /\ w.partial = v.partial \ {img}
    BY <1>0 DEF Volume, SamePlaces
  <2>2. Unlinked(v, img) = w
    BY <1>2 DEF Unlinked
  <2> HIDE DEF w
  <2>3. Sized(w)
    BY <1>2, <2>1 DEF Sound, Sized
  <2>4. Mounted(w)
    <3>1. \A t \in Targets : v.path[t] # None => v.path[t] # img
      BY <1>2 DEF Sound, Mounted
    <3>2. QED
      BY <2>1, <3>1 DEF Sound, Mounted, SamePlaces
  <2>5. Copying(w)
    BY <2>1 DEF Sound, Copying, SamePlaces
  <2>6. QED
    BY <2>1, <2>2, <2>3, <2>4, <2>5 DEF Sound
<1>3. QED
  BY <1>1, <1>2

LEMMA DeleteSound ==
  ASSUME NEW v, Sound(v), NEW img, NEW h, NEW r \in Deletes(v, img, h)
  PROVE  Sound(r.v) /\ SamePlaces(v, r.v) /\ r.ok \in BOOLEAN
<1>1. CASE r = Outcome(v, FALSE)
  BY <1>1 DEF Outcome, SamePlaces
<1>2. CASE r = Outcome(Unlinked(v, img), img \in v.present /\ CanOpen(v, img))
  BY <1>2, UnlinkSound DEF Outcome
<1>3. QED
  BY <1>1, <1>2 DEF Deletes

LEMMA StartSound ==
  ASSUME NEW v, Sound(v), NEW src \in Images, NEW dst \in Images, v.copy = NoCopy,
         CopyCanStart(v, src, dst)
  PROVE  LET w == CopyStarted(v, src, dst) IN Sound(w) /\ w.path = v.path
<1> DEFINE w == CopyStarted(v, src, dst)
<1>0. v \in Volume
  BY DEF Sound, Sized
<1>1. /\ w \in Volume /\ w.fs = v.fs /\ w.path = v.path /\ w.file = v.file
      /\ w.copy = [src |-> src, dst |-> dst, live |-> TRUE]
      /\ w.present = v.present \cup {dst} /\ w.partial = v.partial \cup {dst}
      /\ w.locks = v.locks \cup {src, dst}
  <2> DEFINE c == [src |-> src, dst |-> dst, live |-> TRUE]
  <2>1. c \in [src : OrNone, dst : OrNone, live : BOOLEAN]
    BY Constants
  <2>2. w = [v EXCEPT !.copy = c, !.present = @ \cup {dst}, !.partial = @ \cup {dst},
                      !.locks = @ \cup {src, dst}]
    BY DEF CopyStarted
  <2> HIDE DEF c, w
  <2>3. QED
    BY <1>0, <2>1, <2>2 DEF Volume, c
<1> HIDE DEF w
<1>2. v.fs = "up" /\ src \in v.present /\ src \notin v.locks /\ dst \notin v.present
  BY DEF CopyCanStart, CanOpen
<1>3. Sized(w)
  BY <1>1, <1>2 DEF Sound, Sized
<1>4. Mounted(w)
  BY <1>1 DEF Sound, Mounted
<1>5. Copying(w)
  <2>1. \A t \in Targets : v.path[t] # src /\ v.path[t] # dst
    BY <1>2, Constants DEF Sound, Mounted
  <2>2. QED
    BY <1>1, <2>1 DEF Copying
<1>6. QED
  BY <1>1, <1>3, <1>4, <1>5 DEF Sound, w

LEMMA CloseSound ==
  ASSUME NEW v, Sound(v), v.copy # NoCopy
  PROVE  LET w == CopyClosed(v)
             s == [v EXCEPT !.copy = NoCopy]
         IN /\ Sound(w) /\ w.copy = NoCopy /\ w.path = v.path /\ w.fs = v.fs
            /\ ~v.copy.live => w.locks = v.locks
            /\ Sound(s) /\ s.copy = NoCopy /\ s.path = v.path
<1>0. v \in Volume /\ NoCopy \in [src : OrNone, dst : OrNone, live : BOOLEAN]
  BY Constants DEF Sound, Sized, NoCopy
<1> DEFINE w == CopyClosed(v)
           s == [v EXCEPT !.copy = NoCopy]
           L == IF v.copy.live THEN v.locks \ {v.copy.src, v.copy.dst} ELSE v.locks
<1>1. /\ s \in Volume /\ s.fs = v.fs /\ s.path = v.path /\ s.file = v.file /\ s.copy = NoCopy
      /\ s.present = v.present /\ s.partial = v.partial /\ s.locks = v.locks
  BY <1>0 DEF Volume
<1>2. L \in SUBSET Images /\ L \subseteq v.locks /\ (~v.copy.live => L = v.locks)
  BY <1>0, Fields
<1>3. w = [s EXCEPT !.locks = L]
  BY <1>0 DEF CopyClosed, Volume
<1> HIDE DEF s, L, w
<1>4. /\ w \in Volume /\ w.fs = v.fs /\ w.path = v.path /\ w.file = v.file /\ w.copy = NoCopy
      /\ w.present = v.present /\ w.partial = v.partial /\ w.locks = L
  BY <1>1, <1>2, <1>3 DEF Volume
<1>5. Sound(s)
  <2>1. Sized(s)
    BY <1>1 DEF Sound, Sized
  <2>2. Mounted(s)
    BY <1>1 DEF Sound, Mounted
  <2>3. QED
    BY <1>1, <2>1, <2>2 DEF Sound, Copying
<1>6. Sound(w)
  <2>1. Sized(w)
    BY <1>2, <1>4 DEF Sound, Sized
  <2>2. \A t \in Targets : v.path[t] # None /\ v.path[t] \in v.locks => v.path[t] \in L
    BY DEF Sound, Copying, L
  <2>3. Mounted(w)
    BY <1>4, <2>2 DEF Sound, Mounted
  <2>4. QED
    BY <1>4, <2>1, <2>3 DEF Sound, Copying
<1>7. QED
  BY <1>1, <1>2, <1>4, <1>5, <1>6 DEF s, w

LEMMA CompleteSound ==
  ASSUME NEW v, Sound(v), v.copy # NoCopy
  PROVE  LET w == CopyCompleted(v)
         IN Sound(w) /\ w.copy = NoCopy /\ w.path = v.path /\ v.copy.dst \notin w.partial
<1> DEFINE c == CopyClosed(v)
           w == [c EXCEPT !.partial = @ \ {v.copy.dst}]
<1>1. Sound(c) /\ c.copy = NoCopy /\ c.path = v.path
  BY CloseSound
<1>2. CopyCompleted(v) = w
  BY DEF CopyCompleted
<1> HIDE DEF c
<1>3. /\ w \in Volume /\ w.fs = c.fs /\ w.path = c.path /\ w.file = c.file /\ w.copy = c.copy
      /\ w.present = c.present /\ w.partial = c.partial \ {v.copy.dst} /\ w.locks = c.locks
  BY <1>1 DEF Sound, Sized, Volume
<1> HIDE DEF w
<1>4. Sized(w)
  BY <1>1, <1>3 DEF Sound, Sized
<1>5. Mounted(w)
  BY <1>1, <1>3 DEF Sound, Mounted
<1>6. QED
  BY <1>1, <1>2, <1>3, <1>4, <1>5 DEF Sound, Copying

(* A failed copy takes its new image away, unless the card or a call fails. *)
LEMMA FinishSound ==
  ASSUME NEW v, Sound(v), v.copy # NoCopy, NEW h, NEW w \in CopyFinishes(v, h)
  PROVE  /\ Sound(w) /\ w.copy = NoCopy /\ w.path = v.path
         /\ h = FALSE /\ ~v.copy.live /\ v.fs = "up" => v.copy.dst \notin w.partial
<1> DEFINE c == CopyClosed(v)
           s == [v EXCEPT !.copy = NoCopy]
           k == Unlinked(c, v.copy.dst)
<1>1. /\ Sound(c) /\ c.copy = NoCopy /\ c.path = v.path /\ c.fs = v.fs
      /\ ~v.copy.live => c.locks = v.locks
      /\ Sound(s) /\ s.copy = NoCopy /\ s.path = v.path
  BY CloseSound
<1>2. w = k \/ (h /\ w \in {c, s})
  BY DEF CopyFinishes
<1> HIDE DEF c, s
<1>3. /\ Sound(k) /\ SamePlaces(c, k)
      /\ c.fs = "up" /\ v.copy.dst \notin c.locks => v.copy.dst \notin k.partial
  BY <1>1, UnlinkSound
<1> HIDE DEF k
<1>4. ~v.copy.live /\ v.fs = "up" => v.copy.dst \notin v.locks
  BY DEF Sound, Copying
<1>5. QED
  BY <1>1, <1>2, <1>3, <1>4 DEF SamePlaces

-----------------------------------------------------------------------------
(* The parts of a step. *)

LEMMA FaultKeeps ==
  ASSUME Rest, NEW h \in BOOLEAN, Fault(h)
  PROVE  faults' \in 0 .. MaxFaults /\ (h => faults' # faults)
BY StorageAssumption DEF Rest, Fault

(* What narrows the volume does not concern the mailbox or the routes. *)
LEMMA Narrowed ==
  ASSUME Sound(vol), Mailbox, Routed, Narrows(vol, vol'), UNCHANGED <<mailVars, routeVars>>
  PROVE  Mailbox' /\ Routed' /\ (vol.copy # NoCopy => vol'.copy # NoCopy)
<1>1. vol.copy \in [src : OrNone, dst : OrNone, live : BOOLEAN]
  BY Fields DEF Sound, Sized
<1>2. vol.copy # NoCopy => vol'.copy # NoCopy
  <2>1. vol'.copy.dst = vol.copy.dst
    BY <1>1 DEF Narrows
  <2>2. NoCopy.dst = None
    BY DEF NoCopy
  <2>3. QED
    BY <2>1, <2>2, Constants DEF Sound, Copying
<1>3. Mailbox'
  BY NoCopyStays DEF Mailbox, mailVars
<1>4. Routed'
  BY DEF Routed, Narrows, routeVars
<1>5. QED
  BY <1>2, <1>3, <1>4

(* Core 1 answers what is in the slot. *)
LEMMA Answered ==
  ASSUME Rest, Mailbox, slot = "pending", run # 0, NEW ok \in BOOLEAN, Answer(ok), vol'.copy = NoCopy
  PROVE  /\ Mailbox' /\ res'.ok = ok /\ slot' = "done"
         /\ slot' \in {"idle", "pending", "done"} /\ Asked(req)' /\ run' \in 0 .. MaxOps
         /\ res' \in [id : 0 .. MaxOps, ok : BOOLEAN] /\ UNCHANGED <<req, core0, asked>>
<1>1. /\ res' = [id |-> run, ok |-> ok] /\ slot' = "done" /\ run' = 0
      /\ req' = req /\ core0' = core0 /\ asked' = asked
  BY DEF Answer
<1>2. run \in 0 .. MaxOps /\ Asked(req) /\ req.id = run /\ req.id = asked /\ core0 # "filled"
  BY DEF Rest, Mailbox
<1>3. res'.id = run /\ res'.ok = ok /\ res' \in [id : 0 .. MaxOps, ok : BOOLEAN] /\ run' \in 0 .. MaxOps
  <2>1. res'.id = run /\ res'.ok = ok /\ res' \in [id : 0 .. MaxOps, ok : BOOLEAN]
    BY <1>1, <1>2
  <2>2. 0 \in 0 .. MaxOps
    BY StorageAssumption
  <2>3. QED
    BY <1>1, <2>1, <2>2
<1>4. Mailbox'
  BY <1>1, <1>2, <1>3 DEF Mailbox
<1>5. QED
  BY <1>1, <1>2, <1>3, <1>4

(* An access that fails: bumped, perhaps remounted, perhaps disabled. *)
LEMMA FailSound ==
  ASSUME Sound(vol), NEW h, NEW t \in Targets,
         NEW r \in IF Bumped(vol).errs = RemountAt THEN Remounts(Bumped(vol), h)
                                                   ELSE {Outcome(Bumped(vol), FALSE)},
         NEW w \in {r.v} \cup Unmounts(r.v, t, h)
  PROVE  Sound(w) /\ Narrows(vol, w)
<1> DEFINE b == Bumped(vol)
<1>1. b \in Volume /\ SameBut(vol, b) /\ Sound(b)
  BY BumpedIs, ErrsOnly DEF Sound, Sized
<1>2. r \in Remounts(b, h) \/ r = Outcome(b, FALSE)
  OBVIOUS
<1> HIDE DEF b
<1>3. Sound(r.v) /\ (\A u \in Targets : r.v.path[u] \in {None, b.path[u]})
      /\ (r.v.copy = b.copy \/ r.v.copy = [b.copy EXCEPT !.live = FALSE])
  <2>1. CASE r \in Remounts(b, h)
    BY <1>1, <2>1, RemountSound DEF Narrows
  <2>2. CASE r = Outcome(b, FALSE)
    BY <1>1, <2>2 DEF Outcome
  <2>3. QED
    BY <1>2, <2>1, <2>2
<1>4. Narrows(vol, r.v)
  BY <1>1, <1>3 DEF Narrows, SameBut
<1>5. CASE w = r.v
  BY <1>3, <1>4, <1>5
<1>6. CASE w \in Unmounts(r.v, t, h)
  <2>1. Sound(w) /\ Narrows(r.v, w) /\ w.copy = r.v.copy
    BY <1>3, <1>6, UnmountSound
  <2>2. QED
    BY <1>4, <2>1 DEF Narrows
<1>7. QED
  BY <1>5, <1>6

LEMMA SectorIoStep ==
  ASSUME StorageInv, SectorIo
  PROVE  StorageInv' /\ (vol.copy # NoCopy => vol'.copy # NoCopy)
<1>0. Rest /\ Sound(vol) /\ Mailbox /\ Routed /\ UNCHANGED <<mailVars, routeVars, card>>
  BY DEF StorageInv, SectorIo
<1>1. PICK op \in Ops, t \in Targets : IoSucceeds(op, t) \/ \E h \in BOOLEAN : IoFails(op, t, h)
  BY DEF SectorIo
<1>2. fails \in [Ops -> [Targets -> 0 .. DisableAt]] /\ 0 \in 0 .. DisableAt
  BY <1>0, Constants DEF Rest
<1>3. Failures(op, t) \in 0 .. DisableAt
  BY <1>2, Constants DEF Failures
<1>4. CASE IoSucceeds(op, t)
  <2>1. vol' = [vol EXCEPT !.errs = 0] /\ fails' = [fails EXCEPT ![op][t] = 0] /\ Fault(FALSE)
    BY <1>4 DEF IoSucceeds
  <2>2. Sound(vol') /\ Narrows(vol, vol')
    <3>1. vol' \in Volume /\ SameBut(vol, vol')
      BY <1>0, <2>1, Cleared DEF Sound, Sized
    <3>2. Sound(vol')
      BY <1>0, <3>1, ErrsOnly DEF Sound, Sized
    <3>3. QED
      BY <3>1, <3>2 DEF Narrows, SameBut
  <2>3. fails' \in [Ops -> [Targets -> 0 .. DisableAt]]
    BY <1>2, <2>1
  <2>4. faults' \in 0 .. MaxFaults
    BY <1>0, <2>1, FaultKeeps
  <2>5. QED
    BY <1>0, <2>2, <2>3, <2>4, Narrowed DEF StorageInv, Rest, mailVars, routeVars
<1>5. ASSUME NEW h \in BOOLEAN, IoFails(op, t, h)
      PROVE  StorageInv' /\ (vol.copy # NoCopy => vol'.copy # NoCopy)
  <2>1. PICK r \in IF Bumped(vol).errs = RemountAt THEN Remounts(Bumped(vol), h)
                                                   ELSE {Outcome(Bumped(vol), FALSE)} :
          /\ vol' \in {r.v} \cup Unmounts(r.v, t, h)
          /\ \/ fails' = [fails EXCEPT ![op][t] = 0]
             \/ fails' = [fails EXCEPT ![op][t] = Failures(op, t)]
    BY <1>5 DEF IoFails
  <2>2. Sound(vol') /\ Narrows(vol, vol')
    BY <1>0, <2>1, FailSound
  <2>3. fails' \in [Ops -> [Targets -> 0 .. DisableAt]]
    BY <1>2, <1>3, <2>1
  <2>4. faults' \in 0 .. MaxFaults
    BY <1>0, <1>5, FaultKeeps DEF IoFails
  <2>5. QED
    BY <1>0, <2>2, <2>3, <2>4, Narrowed DEF StorageInv, Rest, mailVars, routeVars
<1>6. QED
  BY <1>1, <1>4, <1>5

-----------------------------------------------------------------------------
(* The steps of core 1. *)

LEMMA ServiceBeginStep ==
  ASSUME StorageInv, ServiceBegin
  PROVE  StorageInv'
<1>1. /\ run' = req.id /\ res' = [id |-> 0, ok |-> FALSE] /\ slot = "pending" /\ run = 0
      /\ UNCHANGED <<slot, req, core0, asked, backend, fuji, want, vol, fails, card, faults>>
  BY DEF ServiceBegin, routeVars
<1>2. Rest /\ Sound(vol) /\ Mailbox /\ Routed
  BY DEF StorageInv
<1>3. Rest'
  <2>1. req.id \in 0 .. MaxOps /\ res' \in [id : 0 .. MaxOps, ok : BOOLEAN]
    BY <1>1, <1>2, StorageAssumption DEF Rest, Asked, Request
  <2>2. QED
    BY <1>1, <1>2, <2>1 DEF Rest
<1>4. Mailbox'
  BY <1>1, <1>2 DEF Mailbox
<1>5. QED
  BY <1>1, <1>2, <1>3, <1>4 DEF StorageInv, Routed

(* An operation that answers and leaves the routes alone. *)
LEMMA AnswerStep ==
  ASSUME StorageInv, slot = "pending", run # 0, NEW ok \in BOOLEAN, Answer(ok),
         Sound(vol'), vol'.copy = NoCopy, \A t \in Targets : vol'.path[t] \in {None, vol.path[t]},
         UNCHANGED <<routeVars, fails, card>>, NEW h \in BOOLEAN, Fault(h)
  PROVE  StorageInv'
<1>1. Rest /\ Mailbox /\ Routed
  BY DEF StorageInv
<1>2. /\ Mailbox' /\ slot' \in {"idle", "pending", "done"} /\ Asked(req)' /\ run' \in 0 .. MaxOps
      /\ res' \in [id : 0 .. MaxOps, ok : BOOLEAN] /\ UNCHANGED <<req, core0, asked>>
  BY <1>1, Answered
<1>3. faults' \in 0 .. MaxFaults
  BY <1>1, FaultKeeps
<1>4. UNCHANGED <<backend, fuji, want>>
  BY DEF routeVars
<1>5. Routed'
  BY <1>1, <1>4 DEF Routed
<1>6. Rest'
  BY <1>1, <1>2, <1>3, <1>4 DEF Rest
<1>7. QED
  BY <1>2, <1>5, <1>6 DEF StorageInv

LEMMA MountStep ==
  ASSUME StorageInv, DoMount
  PROVE  StorageInv'
<1>1. /\ slot = "pending" /\ run # 0 /\ vol.copy = NoCopy /\ req.kind = "mount" /\ UNCHANGED <<fails, card>>
  BY DEF DoMount, Ready
<1>2. Rest /\ Sound(vol) /\ Mailbox /\ Routed
  BY DEF StorageInv
<1>3. req.on \in {"sd", "fuji"} /\ req.t \in Targets /\ req.a \in Images
  BY <1>1, <1>2 DEF Rest, Asked
<1>h. PICK h \in BOOLEAN :
        /\ Fault(h)
        /\ \E r \in IF req.on = "sd" THEN SdMounts(vol, req.t, req.a, h)
                                      ELSE {Outcome(vol, ok) : ok \in BOOLEAN} :
             vol' = r.v /\ MountOn(req.on, req.t, req.a, r.ok) /\ Answer(r.ok)
  BY DEF DoMount
<1>r. PICK r \in IF req.on = "sd" THEN SdMounts(vol, req.t, req.a, h)
                                  ELSE {Outcome(vol, ok) : ok \in BOOLEAN} :
        vol' = r.v /\ MountOn(req.on, req.t, req.a, r.ok) /\ Answer(r.ok)
  BY <1>h
<1>4. Fault(h) /\ vol' = r.v /\ MountOn(req.on, req.t, req.a, r.ok) /\ Answer(r.ok)
  BY <1>h, <1>r
<1>5. /\ Sound(r.v) /\ r.v.copy = NoCopy /\ r.ok \in BOOLEAN
      /\ \A u \in Targets \ {req.t} : r.v.path[u] \in {None, vol.path[u]}
      /\ IF req.on = "sd" THEN r.v.path[req.t] = IF r.ok THEN req.a ELSE None ELSE r.v = vol
  <2>1. CASE req.on = "sd"
    <3>1. r \in SdMounts(vol, req.t, req.a, h)
      BY <1>r, <2>1
    <3>2. Sound(r.v) /\ r.v.copy = NoCopy /\ r.ok \in BOOLEAN /\ Mounts(vol, r.v, req.t, req.a, r.ok)
      BY <1>1, <1>2, <1>3, <3>1, MountSound
    <3>3. QED
      BY <2>1, <3>2 DEF Mounts
  <2>2. CASE req.on # "sd"
    <3>1. r.v = vol /\ r.ok \in BOOLEAN
      BY <1>r, <2>2 DEF Outcome
    <3>2. QED
      BY <1>1, <1>2, <2>2, <3>1
  <2>3. QED
    BY <2>1, <2>2
<1>6. /\ Mailbox' /\ slot' \in {"idle", "pending", "done"} /\ Asked(req)' /\ run' \in 0 .. MaxOps
      /\ res' \in [id : 0 .. MaxOps, ok : BOOLEAN] /\ UNCHANGED <<req, core0, asked>>
  BY <1>1, <1>2, <1>4, <1>5, Answered
<1>7. faults' \in 0 .. MaxFaults
  BY <1>2, <1>4, FaultKeeps
<1>8. /\ backend' = [backend EXCEPT ![req.t] = IF r.ok THEN req.on ELSE @]
      /\ fuji' = [fuji EXCEPT ![req.t] = IF r.ok /\ req.on = "fuji" THEN req.a ELSE @]
      /\ want' = [want EXCEPT ![req.t] = IF r.ok THEN req.a ELSE @]
  BY <1>4 DEF MountOn
<1>9. /\ backend \in [Targets -> {"none", "sd", "fuji"}]
      /\ fuji \in [Targets -> OrNone] /\ want \in [Targets -> OrNone]
  BY <1>2 DEF Rest
<1>10. Rest'
  <2>1. /\ backend' \in [Targets -> {"none", "sd", "fuji"}]
        /\ fuji' \in [Targets -> OrNone] /\ want' \in [Targets -> OrNone]
    BY <1>3, <1>8, <1>9, Constants
  <2>2. QED
    BY <1>1, <1>2, <1>6, <1>7, <2>1 DEF Rest
<1>11. Routed'
  <2>1. \A u \in Targets \ {req.t} : backend'[u] = backend[u] /\ fuji'[u] = fuji[u] /\ want'[u] = want[u]
    BY <1>8, <1>9
  <2>2. /\ backend'[req.t] = (IF r.ok THEN req.on ELSE backend[req.t])
        /\ fuji'[req.t] = (IF r.ok /\ req.on = "fuji" THEN req.a ELSE fuji[req.t])
        /\ want'[req.t] = (IF r.ok THEN req.a ELSE want[req.t])
    BY <1>3, <1>8, <1>9
  <2>3. \A u \in Targets \ {req.t} :
          /\ backend'[u] = "sd" => vol'.path[u] \in {None, want'[u]}
          /\ backend'[u] = "fuji" => fuji'[u] \in {None, want'[u]}
    BY <1>2, <1>4, <1>5, <2>1 DEF Routed
  <2>4. /\ backend'[req.t] = "sd" => vol'.path[req.t] \in {None, want'[req.t]}
        /\ backend'[req.t] = "fuji" => fuji'[req.t] \in {None, want'[req.t]}
    BY <1>2, <1>3, <1>4, <1>5, <2>2 DEF Routed
  <2>5. QED
    BY <2>3, <2>4 DEF Routed
<1>12. QED
  BY <1>4, <1>5, <1>6, <1>10, <1>11 DEF StorageInv

LEMMA EjectStep ==
  ASSUME StorageInv, DoEject
  PROVE  StorageInv'
<1>1. /\ slot = "pending" /\ run # 0 /\ vol.copy = NoCopy /\ req.kind = "eject" /\ UNCHANGED <<fails, card>>
  BY DEF DoEject, Ready
<1>2. Rest /\ Sound(vol) /\ Mailbox /\ Routed
  BY DEF StorageInv
<1>3. req.t \in Targets
  BY <1>1, <1>2 DEF Rest, Asked
<1>4. PICK h \in BOOLEAN, ok \in BOOLEAN :
        /\ Fault(h) /\ Answer(ok)
        /\ \/ UNCHANGED <<vol, routeVars>>
           \/ Unroute(req.t) /\ vol' \in {vol} \cup Unmounts(vol, req.t, h)
  BY DEF DoEject
<1>5. CASE UNCHANGED <<vol, routeVars>>
  BY <1>1, <1>2, <1>4, <1>5, AnswerStep
<1>6. CASE Unroute(req.t) /\ vol' \in {vol} \cup Unmounts(vol, req.t, h)
  <2>1. Sound(vol') /\ Narrows(vol, vol') /\ vol'.copy = NoCopy
    <3>1. CASE vol' = vol
      BY <1>1, <1>2, <3>1 DEF Narrows
    <3>2. CASE vol' \in Unmounts(vol, req.t, h)
      BY <1>1, <1>2, <1>3, <3>2, UnmountSound
    <3>3. QED
      BY <1>6, <3>1, <3>2
  <2>2. /\ Mailbox' /\ slot' \in {"idle", "pending", "done"} /\ Asked(req)' /\ run' \in 0 .. MaxOps
        /\ res' \in [id : 0 .. MaxOps, ok : BOOLEAN] /\ UNCHANGED <<req, core0, asked>>
    BY <1>1, <1>2, <1>4, <2>1, Answered
  <2>3. faults' \in 0 .. MaxFaults
    BY <1>2, <1>4, FaultKeeps
  <2>4. /\ backend' = [backend EXCEPT ![req.t] = "none"]
        /\ fuji' = [fuji EXCEPT ![req.t] = IF backend[req.t] = "fuji" THEN None ELSE @]
        /\ want' = [want EXCEPT ![req.t] = None]
    BY <1>6 DEF Unroute
  <2>5. /\ backend \in [Targets -> {"none", "sd", "fuji"}]
        /\ fuji \in [Targets -> OrNone] /\ want \in [Targets -> OrNone]
    BY <1>2 DEF Rest
  <2>6. Rest'
    <3>1. /\ backend' \in [Targets -> {"none", "sd", "fuji"}]
          /\ fuji' \in [Targets -> OrNone] /\ want' \in [Targets -> OrNone]
      BY <1>3, <2>4, <2>5, Constants
    <3>2. QED
      BY <1>1, <1>2, <2>2, <2>3, <3>1 DEF Rest
  <2>7. Routed'
    <3>1. backend'[req.t] = "none"
      BY <1>3, <2>4, <2>5
    <3>2. \A u \in Targets \ {req.t} : backend'[u] = backend[u] /\ fuji'[u] = fuji[u] /\ want'[u] = want[u]
      BY <2>4, <2>5
    <3>3. QED
      BY <1>2, <2>1, <3>1, <3>2 DEF Routed, Narrows
  <2>8. QED
    BY <2>1, <2>2, <2>6, <2>7 DEF StorageInv
<1>7. QED
  BY <1>4, <1>5, <1>6

LEMMA ImagesStep ==
  ASSUME StorageInv, DoList \/ DoCreate \/ DoDelete
  PROVE  StorageInv'
<1>1. /\ slot = "pending" /\ run # 0 /\ vol.copy = NoCopy /\ UNCHANGED <<fails, card, routeVars>>
  BY DEF DoList, DoCreate, DoDelete, DoImages, Ready
<1>2. Rest /\ Sound(vol) /\ Mailbox /\ Routed
  BY DEF StorageInv
<1>3. CASE DoList
  <2>h. PICK h \in BOOLEAN : Fault(h) /\ \E r \in Lists(vol, h) : vol' = r.v /\ Answer(r.ok)
    BY <1>3 DEF DoList, DoImages
  <2>1. PICK r \in Lists(vol, h) : vol' = r.v /\ Answer(r.ok) /\ Fault(h)
    BY <2>h
  <2>2. Sound(r.v) /\ Narrows(vol, r.v) /\ r.ok \in BOOLEAN /\ r.v.copy = NoCopy
    BY <1>1, <1>2, ListSound, NoCopyStays
  <2>3. QED
    BY <1>1, <2>1, <2>2, AnswerStep DEF Narrows
<1>4. CASE DoCreate
  <2>h. PICK h \in BOOLEAN : Fault(h) /\ \E r \in Creates(vol, req.a, h) : vol' = r.v /\ Answer(r.ok)
    BY <1>4 DEF DoCreate, DoImages
  <2>1. PICK r \in Creates(vol, req.a, h) : vol' = r.v /\ Answer(r.ok) /\ Fault(h)
    BY <2>h
  <2>2. req.a \in Images
    BY <1>2, <1>4 DEF Rest, Asked, DoCreate, DoImages, Ready
  <2>3. Sound(r.v) /\ SamePlaces(vol, r.v) /\ r.ok \in BOOLEAN
    BY <1>1, <1>2, <2>2, CreateSound
  <2>4. QED
    BY <1>1, <2>1, <2>3, AnswerStep DEF SamePlaces
<1>5. CASE DoDelete
  <2>h. PICK h \in BOOLEAN : Fault(h) /\ \E r \in Deletes(vol, req.a, h) : vol' = r.v /\ Answer(r.ok)
    BY <1>5 DEF DoDelete, DoImages
  <2>1. PICK r \in Deletes(vol, req.a, h) : vol' = r.v /\ Answer(r.ok) /\ Fault(h)
    BY <2>h
  <2>2. Sound(r.v) /\ SamePlaces(vol, r.v) /\ r.ok \in BOOLEAN
    BY <1>2, DeleteSound
  <2>3. QED
    BY <1>1, <2>1, <2>2, AnswerStep DEF SamePlaces
<1>6. QED
  BY <1>3, <1>4, <1>5

LEMMA CopyBeginStep ==
  ASSUME StorageInv, CopyBegin
  PROVE  StorageInv'
<1>1. /\ slot = "pending" /\ run # 0 /\ vol.copy = NoCopy /\ UNCHANGED <<fails, card, routeVars>>
      /\ req.kind = "copy"
  BY DEF CopyBegin, Ready
<1>2. Rest /\ Sound(vol) /\ Mailbox /\ Routed
  BY DEF StorageInv
<1>3. req.a \in Images /\ req.b \in Images
  BY <1>1, <1>2 DEF Rest, Asked
<1>4. PICK h \in BOOLEAN :
        /\ Fault(h)
        /\ \/ CopyCanStart(vol, req.a, req.b) /\ vol' = CopyStarted(vol, req.a, req.b) /\ UNCHANGED mailVars
           \/ vol' = vol /\ Answer(FALSE)
  BY DEF CopyBegin
<1>5. CASE vol' = vol /\ Answer(FALSE)
  BY <1>1, <1>2, <1>4, <1>5, AnswerStep
<1>6. CASE CopyCanStart(vol, req.a, req.b) /\ vol' = CopyStarted(vol, req.a, req.b) /\ UNCHANGED mailVars
  <2>1. Sound(vol') /\ vol'.path = vol.path
    BY <1>1, <1>2, <1>3, <1>6, StartSound
  <2>2. faults' \in 0 .. MaxFaults
    BY <1>2, <1>4, FaultKeeps
  <2>3. UNCHANGED <<slot, req, res, core0, asked, run, backend, fuji, want>>
    BY <1>1, <1>6 DEF mailVars, routeVars
  <2>4. Mailbox'
    BY <1>1, <1>2, <2>3 DEF Mailbox
  <2>5. Rest' /\ Routed'
    BY <1>1, <1>2, <2>1, <2>2, <2>3 DEF Rest, Routed
  <2>6. QED
    BY <2>1, <2>4, <2>5 DEF StorageInv
<1>7. QED
  BY <1>4, <1>5, <1>6

LEMMA CopyStepStep ==
  ASSUME StorageInv, CopyStep
  PROVE  /\ StorageInv'
         /\ vol.fs = "up" /\ faults' = faults => vol.copy.dst \notin vol'.partial
<1>1. slot = "pending" /\ vol.copy # NoCopy /\ UNCHANGED <<fails, card, routeVars>>
  BY DEF CopyStep
<1>2. Rest /\ Sound(vol) /\ Mailbox /\ Routed /\ run # 0
  BY <1>1 DEF StorageInv, Mailbox
<1>3. PICK h \in BOOLEAN :
        /\ Fault(h)
        /\ \/ vol' = CopyCompleted(vol) /\ Answer(TRUE)
           \/ (~vol.copy.live \/ h) /\ vol' \in CopyFinishes(vol, h) /\ Answer(FALSE)
  BY DEF CopyStep
<1>4. h => faults' # faults
  BY <1>2, <1>3, FaultKeeps
<1>5. CASE vol' = CopyCompleted(vol) /\ Answer(TRUE)
  <2>1. Sound(vol') /\ vol'.copy = NoCopy /\ vol'.path = vol.path /\ vol.copy.dst \notin vol'.partial
    BY <1>1, <1>2, <1>5, CompleteSound
  <2>2. StorageInv'
    BY <1>1, <1>2, <1>3, <1>5, <2>1, AnswerStep
  <2>3. QED
    BY <2>1, <2>2
<1>6. CASE (~vol.copy.live \/ h) /\ vol' \in CopyFinishes(vol, h) /\ Answer(FALSE)
  <2>1. /\ Sound(vol') /\ vol'.copy = NoCopy /\ vol'.path = vol.path
        /\ h = FALSE /\ ~vol.copy.live /\ vol.fs = "up" => vol.copy.dst \notin vol'.partial
    BY <1>1, <1>2, <1>6, FinishSound
  <2>2. StorageInv'
    BY <1>1, <1>2, <1>3, <1>6, <2>1, AnswerStep
  <2>3. QED
    BY <1>4, <1>6, <2>1, <2>2
<1>7. QED
  BY <1>3, <1>5, <1>6

-----------------------------------------------------------------------------
(* The steps of core 0 and of the card. *)

LEMMA SubmitStep ==
  ASSUME StorageInv, Submit
  PROVE  StorageInv'
<1>1. /\ core0 = "idle" /\ asked < MaxOps /\ slot # "pending" /\ slot' = "idle"
      /\ req' \in Asks(asked + 1) /\ asked' = asked + 1 /\ core0' = "filled"
      /\ UNCHANGED <<res, run, backend, fuji, want, vol, fails, card, faults>>
  BY DEF Submit, Core0Only, routeVars
<1>2. Rest /\ Sound(vol) /\ Mailbox /\ Routed
  BY DEF StorageInv
<1>3. asked + 1 \in 0 .. MaxOps
  BY <1>1, <1>2, StorageAssumption DEF Rest
<1>4. Asked(req') /\ req'.id = asked + 1
  <2>1. /\ req' \in [id : {asked + 1}, kind : Kinds, on : {"sd", "fuji", "none"},
                     t : Targets \cup {None}, a : OrNone, b : OrNone]
        /\ req'.kind = "mount" => req'.on \in {"sd", "fuji"} /\ req'.t \in Targets /\ req'.a \in Images
        /\ req'.kind = "eject" => req'.t \in Targets
        /\ req'.kind \in {"create", "rm", "copy"} => req'.a \in Images
        /\ req'.kind = "copy" => req'.b \in Images
    BY <1>1, Constants DEF Asks, Kinds
  <2>2. QED
    BY <1>3, <2>1 DEF Asked, Request
<1>5. Rest'
  BY <1>1, <1>2, <1>3, <1>4 DEF Rest
<1>6. run = 0 /\ vol.copy = NoCopy
  BY <1>1, <1>2 DEF Mailbox
<1>7. Mailbox'
  BY <1>1, <1>4, <1>6 DEF Mailbox
<1>8. QED
  BY <1>1, <1>2, <1>5, <1>7 DEF StorageInv, Routed

LEMMA Core0Step ==
  ASSUME StorageInv, Core0
  PROVE  StorageInv' /\ vol' = vol /\ (slot' = "done" => slot = "done")
<1>1. Rest /\ Sound(vol) /\ Mailbox /\ Routed
  BY DEF StorageInv
<1>2. CASE Submit
  BY <1>2, SubmitStep DEF Submit, Core0Only
<1>3. CASE Post \/ Take \/ TimeOut
  <2>1. UNCHANGED <<req, res, asked, run, backend, fuji, want, vol, fails, card, faults>>
    BY <1>3 DEF Post, Take, TimeOut, Core0Only, routeVars
  <2>2. \/ core0 = "filled" /\ slot' = "pending" /\ core0' = "wait"
        \/ core0 = "wait" /\ slot = "done" /\ slot' = "idle" /\ core0' = "idle"
        \/ core0 = "wait" /\ slot # "done" /\ slot' = slot /\ core0' = "idle"
    BY <1>3 DEF Post, Take, TimeOut
  <2>3. Rest'
    BY <1>1, <2>1, <2>2 DEF Rest
  <2>4. Mailbox'
    BY <1>1, <2>1, <2>2 DEF Mailbox
  <2>5. QED
    BY <1>1, <2>1, <2>2, <2>3, <2>4 DEF StorageInv, Routed
<1>4. QED
  BY <1>2, <1>3 DEF Core0

LEMMA CardStep ==
  ASSUME StorageInv, Lose \/ Insert
  PROVE  StorageInv' /\ slot' = slot /\ (vol.copy # NoCopy => vol'.copy # NoCopy)
<1>1. Rest /\ Sound(vol) /\ Mailbox /\ Routed
  BY DEF StorageInv
<1>2. CASE Lose
  <2>1. /\ card' = "gone" /\ faults' = faults + 1 /\ faults < MaxFaults
        /\ vol' = [vol EXCEPT !.fs = "down", !.file = [t \in Targets |-> None], !.copy.live = FALSE]
        /\ UNCHANGED <<mailVars, routeVars, fails>>
    BY <1>2 DEF Lose
  <2>2. vol \in Volume
    BY <1>1 DEF Sound, Sized
  <2>3. /\ vol' \in Volume /\ vol'.fs = "down" /\ vol'.file = [t \in Targets |-> None]
        /\ vol'.path = vol.path /\ vol'.locks = vol.locks /\ vol'.present = vol.present
        /\ vol'.partial = vol.partial /\ vol'.copy = [vol.copy EXCEPT !.live = FALSE]
    BY <2>1, <2>2, Constants DEF Volume
  <2>4. Narrows(vol, vol')
    BY <2>3 DEF Narrows
  <2>5. Sound(vol')
    <3>1. Sized(vol')
      BY <1>1, <2>3 DEF Sound, Sized
    <3>2. Mounted(vol')
      BY <1>1, <2>3 DEF Sound, Mounted
    <3>3. QED
      BY <1>1, <2>3, <2>4, <3>1, <3>2, CopyNarrows DEF Sound
  <2>6. Mailbox' /\ Routed' /\ (vol.copy # NoCopy => vol'.copy # NoCopy)
    BY <1>1, <2>1, <2>4, Narrowed
  <2>7. faults' \in 0 .. MaxFaults
    BY <1>1, <2>1, StorageAssumption DEF Rest
  <2>8. Rest'
    BY <1>1, <2>1, <2>7 DEF Rest, mailVars, routeVars
  <2>9. QED
    BY <2>1, <2>5, <2>6, <2>8 DEF StorageInv, mailVars
<1>3. CASE Insert
  <2>1. card' = "ok" /\ UNCHANGED <<mailVars, routeVars, vol, fails, faults>>
    BY <1>3 DEF Insert
  <2>2. UNCHANGED <<slot, req, res, core0, asked, run, backend, fuji, want>>
    BY <2>1 DEF mailVars, routeVars
  <2>3. Rest'
    BY <1>1, <2>1, <2>2 DEF Rest
  <2>4. QED
    BY <1>1, <2>1, <2>2, <2>3 DEF StorageInv, Mailbox, Routed
<1>4. QED
  BY <1>2, <1>3

LEMMA StorageStep ==
  ASSUME StorageInv, [Next]_vars
  PROVE  StorageInv'
<1>1. CASE Core0
  BY <1>1, Core0Step
<1>2. CASE Core1
  BY <1>2, SectorIoStep, ServiceBeginStep, MountStep, EjectStep, ImagesStep, CopyBeginStep, CopyStepStep
     DEF Core1
<1>3. CASE Lose \/ Insert
  BY <1>3, CardStep
<1>4. CASE UNCHANGED vars
  BY <1>4 DEF vars, mailVars, routeVars, StorageInv, Rest, Sound, Sized, Mounted, Copying, Mailbox, Routed
<1>5. QED
  BY <1>1, <1>2, <1>3, <1>4 DEF Next

LEMMA StorageStart == Init => StorageInv
<1> SUFFICES ASSUME Init PROVE StorageInv
  OBVIOUS
<1>1. PICK first \in [Targets -> OrNone], extra \in SUBSET Images :
        /\ \A t, u \in Targets : t < u /\ None \notin {first[t], first[u]} => first[t] < first[u]
        /\ want = first
        /\ backend = [t \in Targets |-> IF first[t] = None THEN "none" ELSE "sd"]
        /\ LET open == {first[t] : t \in Targets} \ {None}
           IN vol = [fs |-> "up", path |-> first, file |-> first, locks |-> open,
                     present |-> open \cup extra, partial |-> {}, errs |-> 0, copy |-> NoCopy]
  BY DEF Init
<1> DEFINE open == {first[t] : t \in Targets} \ {None}
<1>2. open \in SUBSET Images /\ \A t \in Targets : first[t] # None => first[t] \in open
  BY <1>1, Constants
<1>3. vol = [fs |-> "up", path |-> first, file |-> first, locks |-> open,
             present |-> open \cup extra, partial |-> {}, errs |-> 0, copy |-> NoCopy]
  BY <1>1
<1> HIDE DEF open
<1>4. vol \in Volume
  <2>1. NoCopy \in [src : OrNone, dst : OrNone, live : BOOLEAN] /\ 0 \in 0 .. RemountAt + 1
    BY Constants DEF NoCopy
  <2>2. QED
    BY <1>1, <1>2, <1>3, <2>1 DEF Volume
<1>5. /\ vol.fs = "up" /\ vol.path = first /\ vol.file = first /\ vol.locks = open
      /\ vol.present = open \cup extra /\ vol.partial = {} /\ vol.copy = NoCopy
  BY <1>3
<1>6. Sized(vol)
  BY <1>4, <1>5 DEF Sized
<1>7. \A t, u \in Targets : first[t] = first[u] => t = u \/ first[t] = None
  <2>1. SUFFICES ASSUME NEW t \in Targets, NEW u \in Targets, first[t] = first[u], t # u, first[t] # None
                 PROVE  FALSE
    OBVIOUS
  <2>2. t \in Int /\ u \in Int /\ first[t] \in Int /\ first[u] \in Int
    BY <1>1, <2>1, StorageAssumption DEF OrNone
  <2>3. CASE t < u
    <3>1. first[t] < first[u]
      BY <1>1, <2>1, <2>3
    <3>2. QED
      BY <2>1, <2>2, <3>1
  <2>4. CASE u < t
    <3>1. first[u] < first[t]
      BY <1>1, <2>1, <2>4
    <3>2. QED
      BY <2>1, <2>2, <3>1
  <2>5. QED
    BY <2>1, <2>2, <2>3, <2>4
<1>8. Mounted(vol)
  BY <1>2, <1>5, <1>7 DEF Mounted
<1>9. Sound(vol)
  BY <1>5, <1>6, <1>8 DEF Sound, Copying
<1>10. Rest
  <2>1. 0 \in 0 .. MaxOps /\ 0 \in 0 .. MaxFaults /\ 0 \in 0 .. DisableAt
    BY StorageAssumption
  <2>2. Asked(req)
    BY <2>1, Constants DEF Init, NoRequest, Asked, Request, Kinds
  <2>3. /\ backend \in [Targets -> {"none", "sd", "fuji"}] /\ want \in [Targets -> OrNone]
        /\ fuji \in [Targets -> OrNone] /\ fails \in [Ops -> [Targets -> 0 .. DisableAt]]
    BY <1>1, <2>1, Constants DEF Init
  <2>4. res \in [id : 0 .. MaxOps, ok : BOOLEAN]
    BY <2>1 DEF Init
  <2>5. QED
    BY <2>1, <2>2, <2>3, <2>4 DEF Init, Rest
<1>11. Mailbox
  BY <1>5 DEF Init, Mailbox
<1>12. Routed
  BY <1>1, <1>5 DEF Routed
<1>13. QED
  BY <1>9, <1>10, <1>11, <1>12 DEF StorageInv

-----------------------------------------------------------------------------
(* The theorems. *)

(* Types; and rm or a failed copy never take away an image that is open
   (sd_storage_delete_image, sd_copy_finish). *)
THEOREM TypeCorrect == Spec => []TypeOK
<1>1. StorageInv => TypeOK
  BY DEF StorageInv, Rest, Sound, Sized, TypeOK, Asked
<1>2. QED
  BY <1>1, StorageStart, StorageStep, PTL DEF Spec

(* Core 0 takes the answer to what it asked, however many operations have timed out
   before (console_op_submit, console_op_service). *)
THEOREM OwnAnswerAlways == Spec => []OwnAnswer
<1>1. StorageInv => OwnAnswer
  BY DEF StorageInv, Mailbox, OwnAnswer
<1>2. QED
  BY <1>1, StorageStart, StorageStep, PTL DEF Spec

(* A target serves what was mounted on it last, or nothing, through every loss of the
   card, failing call, remount and disabled target (storage.c, sd_storage.c). *)
THEOREM ServesMountedAlways == Spec => []ServesMounted
<1>1. StorageInv => ServesMounted
  BY DEF StorageInv, Sound, Mounted, Routed, ServesMounted, Serving
<1>2. QED
  BY <1>1, StorageStart, StorageStep, PTL DEF Spec

(* No half-written image is left by a copy, unless the card or a call fails as it ends
   (sd_storage_copy_step, sd_copy_finish). *)
THEOREM NoPartialImageAlways == Spec => NoPartialImage
<1> DEFINE Step == vol.copy # NoCopy /\ vol'.copy = NoCopy /\ vol.fs = "up" /\ faults' = faults
                     => vol.copy.dst \notin vol'.partial
<1>1. StorageInv /\ [Next]_vars => [Step]_vars
  <2> SUFFICES ASSUME StorageInv, Next, vol.copy # NoCopy, vol'.copy = NoCopy
               PROVE  Step
    BY DEF vars
  <2>1. vol' # vol
    OBVIOUS
  <2>2. CASE Core0 \/ Lose \/ Insert
    BY <2>1, <2>2, Core0Step, CardStep
  <2>3. CASE SectorIo
    BY <2>3, SectorIoStep
  <2>4. CASE CopyStep
    BY <2>4, CopyStepStep
  <2>5. CASE ServiceBegin
    BY <2>1, <2>5 DEF ServiceBegin
  <2>6. CASE DoMount \/ DoEject \/ DoList \/ DoCreate \/ DoDelete \/ CopyBegin
    BY <2>6 DEF DoMount, DoEject, DoList, DoCreate, DoDelete, DoImages, CopyBegin, Ready
  <2>7. QED
    BY <2>2, <2>3, <2>4, <2>5, <2>6 DEF Next, Core1
<1>2. QED
  BY <1>1, StorageStart, StorageStep, PTL DEF Spec, NoPartialImage

(* Why a mount has failed, when the card was there and no call failed. *)
LEMMA FailedMount ==
  ASSUME NEW v, Sound(v), NEW t \in Targets, NEW img \in Images, v.copy = NoCopy, card = "ok",
         NEW r \in SdMounts(v, t, img, FALSE), ~r.ok
  PROVE  \/ r.v.fs = "up" /\ img \notin r.v.present
         \/ \E u \in Targets \ {t} : r.v.file[u] = img
         \/ CanOpen(r.v, img)
<1>1. PICK u \in Unmounts(v, t, FALSE) :
        \/ CanOpen(u, img) /\ r = Outcome(Opened(u, t, img), TRUE)
        \/ u.fs = "up" /\ img \notin u.present /\ r = Outcome(u, FALSE)
        \/ r \in Retried(u, t, img, FALSE)
  BY DEF SdMounts
<1>2. Sound(u)
  BY UnmountSound
<1>3. u.path[t] = None
  <2>1. /\ u \in Volume /\ u.fs = v.fs /\ u.present = v.present /\ u.partial = v.partial
        /\ u.errs = v.errs /\ u.copy = v.copy
        /\ u.path = [v.path EXCEPT ![t] = None] /\ u.file = [v.file EXCEPT ![t] = None]
        /\ u.locks \in {v.locks, v.locks \ {v.file[t]}}
    BY UnmountIs
  <2>2. v.path \in [Targets -> OrNone]
    BY Fields DEF Sound, Sized
  <2>3. QED
    BY <2>1, <2>2
<1>4. CASE CanOpen(u, img) /\ r = Outcome(Opened(u, t, img), TRUE)
  BY <1>4 DEF Outcome
<1>5. CASE u.fs = "up" /\ img \notin u.present /\ r = Outcome(u, FALSE)
  BY <1>5 DEF Outcome
<1>6. CASE r \in Retried(u, t, img, FALSE)
  <2>1. PICK s \in Remounts(u, FALSE) :
          \/ r = Outcome(Opened(s.v, t, img), TRUE)
          \/ r = Outcome(s.v, FALSE)
    BY <1>6 DEF Retried
  <2>2. r = Outcome(s.v, FALSE)
    BY <2>1 DEF Outcome
  <2>3. PICK bad : s = (LET x == Reopened(u, bad) IN Outcome(x, x.file = u.path))
    BY DEF Remounts
  <2> DEFINE w == Reopened(u, bad)
  <2>4. r.v = w
    BY <2>2, <2>3 DEF Outcome
  <2>5. /\ w \in Volume /\ w.fs = "up" /\ w.path = Found(u, bad) /\ w.file = Found(u, bad)
        /\ w.locks = {Found(u, bad)[x] : x \in Targets} \ {None}
        /\ w.present = u.present /\ w.partial = u.partial
        /\ w.errs = 0 /\ w.copy = [u.copy EXCEPT !.live = FALSE]
    BY <1>2, ReopenedIs DEF Sound, Sized
  <2> HIDE DEF w
  <2>6. Found(u, bad)[t] = None
    BY <1>3 DEF Found
  <2>7. ASSUME img \in w.present, img \in w.locks
        PROVE  \E x \in Targets \ {t} : w.file[x] = img
    BY <2>5, <2>6, <2>7, Constants
  <2>8. QED
    BY <2>4, <2>5, <2>7 DEF CanOpen
<1>7. QED
  BY <1>1, <1>4, <1>5, <1>6

(* A mount on a card that is there fails only for a reason that lies in the images
   (sd_storage_mount). *)
THEOREM MountRecoversAlways == Spec => MountRecovers
<1> DEFINE Step == slot = "pending" /\ slot' = "done" /\ req.kind = "mount" /\ req.on = "sd"
                     /\ card = "ok" /\ faults' = faults /\ ~res'.ok
                     => \/ vol'.fs = "up" /\ req.a \notin vol'.present
                        \/ \E u \in Targets \ {req.t} : vol'.file[u] = req.a
                        \/ CanOpen(vol', req.a)
<1>1. StorageInv /\ [Next]_vars => [Step]_vars
  <2> SUFFICES ASSUME StorageInv, Next, slot = "pending", slot' = "done", req.kind = "mount",
                      req.on = "sd", card = "ok", faults' = faults, ~res'.ok
               PROVE  Step
    BY DEF vars
  <2>0. Rest /\ Sound(vol) /\ Mailbox
    BY DEF StorageInv
  <2>1. CASE Core0 \/ Lose \/ Insert
    BY <2>1, Core0Step, CardStep
  <2>2. CASE SectorIo \/ ServiceBegin
    BY <2>2 DEF SectorIo, ServiceBegin, mailVars
  <2>3. CASE CopyStep
    BY <2>0, <2>3 DEF CopyStep, Mailbox
  <2>4. CASE DoEject \/ DoList \/ DoCreate \/ DoDelete \/ CopyBegin
    BY <2>4 DEF DoEject, DoList, DoCreate, DoDelete, DoImages, CopyBegin, Ready
  <2>5. CASE DoMount
    <3>1. PICK h \in BOOLEAN :
            /\ Fault(h)
            /\ \E r \in SdMounts(vol, req.t, req.a, h) : vol' = r.v /\ Answer(r.ok)
      BY <2>5 DEF DoMount
    <3>2. h = FALSE
      BY <2>0, <3>1, FaultKeeps
    <3>3. PICK r \in SdMounts(vol, req.t, req.a, FALSE) : vol' = r.v /\ Answer(r.ok)
      BY <3>1, <3>2
    <3>4. req.t \in Targets /\ req.a \in Images /\ vol.copy = NoCopy
      BY <2>0, <2>5 DEF Rest, Asked, DoMount, Ready
    <3>5. ~r.ok
      BY <3>3 DEF Answer
    <3>6. \/ r.v.fs = "up" /\ req.a \notin r.v.present
          \/ \E u \in Targets \ {req.t} : r.v.file[u] = req.a
          \/ CanOpen(r.v, req.a)
      BY <2>0, <3>3, <3>4, <3>5, FailedMount
    <3>7. QED
      BY <3>3, <3>6
  <2>6. QED
    BY <2>1, <2>2, <2>3, <2>4, <2>5 DEF Next, Core1
<1>2. QED
  BY <1>1, StorageStart, StorageStep, PTL DEF Spec, MountRecovers
=============================================================================
