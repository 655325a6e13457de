------------------------------ MODULE Storage ------------------------------
(***************************************************************************)
(* Where the sectors of a SASI target come from, and who may change it.    *)
(*   - storage.c routes each target to the backend that mounted it;        *)
(*   - sd_storage.c keeps one open image file per target, counts I/O       *)
(*     failures, remounts a dead file system and disables a target that    *)
(*     keeps failing; it also creates, copies and deletes images;          *)
(*   - console_ops.c hands the console's operations from core 0 to core 1  *)
(*     through one slot; core 0 waits with a time-out.                     *)
(* Core 1 runs sector I/O and console operations one after the other; a    *)
(* copy is cut into chunks with I/O in between.  Core 0 and the card act   *)
(* at any time.  Of FatFs the module has what the code relies on: handles  *)
(* die with the mount they were opened under, and an open file is locked.  *)
(***************************************************************************)
EXTENDS Integers

CONSTANTS
  Targets,     \* SASI targets
  Images,      \* image files, numbered in the order of their names
  None,        \* no image
  Ops,         \* the sector operations, each with its own failure counter
  RemountAt,   \* SD_REMOUNT_THRESHOLD, 5
  DisableAt,   \* SD_READ/WRITE/SYNC_DISABLE_THRESHOLD, 50
  MaxOps,      \* bound: console operations
  MaxFaults    \* bound: losses of the card and steps in which FatFs calls fail

ASSUME StorageAssumption ==
  /\ Targets \subseteq Int /\ Images \subseteq Int /\ None \notin Images
  /\ Ops \subseteq {"read", "write", "sync"}
  /\ RemountAt \in Nat \ {0} /\ DisableAt \in Nat /\ RemountAt < DisableAt
  /\ MaxOps \in Nat /\ MaxFaults \in Nat

VARIABLES
  slot,     \* s_state of the mailbox
  req,      \* the request slot, with the number of the operation in it
  res,      \* s_res: the operation it answers (0: cleared), and ok
  core0,    \* core 0 in console_op_submit
  asked,    \* history: operations submitted
  run,      \* history: the operation core 1 is executing, 0 if none
  backend,  \* target_backend[]
  fuji,     \* image the FujiNet backend serves for a target
  want,     \* history: image of the last mount that succeeded, None once ejected
  vol,      \* the SD volume and sd_state, see Volume
  fails,    \* sd_read_fail_count, sd_write_fail_count, sd_sync_fail_count
  card,     \* "ok" or "gone"
  faults    \* history: faults so far

mailVars == <<slot, req, res, core0, asked, run>>
routeVars == <<backend, fuji, want>>
vars == <<mailVars, routeVars, vol, fails, card, faults>>

OrNone == Images \cup {None}
Kinds == {"mount", "eject", "ls", "create", "rm", "copy"}
NoCopy == [src |-> None, dst |-> None, live |-> FALSE]

(* path: image_path of a target that is .mounted; file: the image its handle can
   still reach; locks: FF_FS_LOCK; partial: images not completely written. *)
Volume ==
  [fs : {"up", "down"}, path : [Targets -> OrNone], file : [Targets -> OrNone],
   locks : SUBSET Images, present : SUBSET Images, partial : SUBSET Images,
   errs : 0 .. RemountAt + 1, copy : [src : OrNone, dst : OrNone, live : BOOLEAN]]

Request == [id : 0 .. MaxOps, kind : Kinds, on : {"sd", "fuji", "none"},
            t : Targets \cup {None}, a : OrNone, b : OrNone]
NoRequest == [id |-> 0, kind |-> "ls", on |-> "none", t |-> None, a |-> None, b |-> None]

(* The operations that change something, with the arguments they use. *)
Asks(id) ==
  LET Form(kinds, on, t, a, b) == [id : {id}, kind : kinds, on : on, t : t, a : a, b : b]
  IN Form({"ls"}, {"none"}, {None}, {None}, {None})
     \cup Form({"mount"}, {"sd", "fuji"}, Targets, Images, {None})
     \cup Form({"eject"}, {"none"}, Targets, {None}, {None})
     \cup Form({"create", "rm"}, {"none"}, {None}, Images, {None})
     \cup Form({"copy"}, {"none"}, {None}, Images, Images)

-----------------------------------------------------------------------------
(* sd_storage.c.  Each operator gives the outcomes of a call on volume v; h says
   that FatFs calls may fail in it although the card is there. *)

Outcome(v, ok) == [v |-> v, ok |-> ok]

(* f_close: a dead handle, or a failing card, leaves the lock behind. *)
Closes(v, t, h) ==
  LET shut == [v EXCEPT !.file[t] = None]
  IN {[shut EXCEPT !.locks = @ \ {v.file[t]}]} \cup (IF h THEN {shut} ELSE {})

(* sd_storage_unmount, and sd_storage_disable_target *)
Unmounts(v, t, h) ==
  IF v.path[t] = None THEN {v}
  ELSE {[c EXCEPT !.path[t] = None] : c \in Closes(v, t, h)}

(* sd_storage_try_remount: f_mount drops every handle and lock; what was mounted is
   reopened, or no longer counts as mounted. *)
Dismounted(v) ==
  [v EXCEPT !.fs = "down", !.file = [t \in Targets |-> None], !.locks = {}, !.copy.live = FALSE]

Reopens(v, t, bad) ==
  /\ v.path[t] \in v.present
  /\ t \notin bad
  /\ \A u \in Targets : u < t => v.path[u] # v.path[t]

ReopenedKeepsMounted(v, bad) ==
  LET found == [t \in Targets |-> IF Reopens(v, t, bad) THEN v.path[t] ELSE None]
  IN [Dismounted(v) EXCEPT !.fs = "up", !.errs = 0, !.file = found,
                           !.locks = {found[t] : t \in Targets} \ {None}]

Reopened(v, bad) ==
  LET found == [t \in Targets |-> IF Reopens(v, t, bad) THEN v.path[t] ELSE None]
  IN [Dismounted(v) EXCEPT !.fs = "up", !.errs = 0, !.file = found, !.path = found,
                           !.locks = {found[t] : t \in Targets} \ {None}]

Remounts(v, h) ==
  (IF card = "ok"
     THEN {LET r == Reopened(v, bad) IN Outcome(r, r.file = v.path) :
             bad \in IF h THEN SUBSET Targets ELSE {{}}}
     ELSE {})
  \cup (IF card = "gone" \/ h THEN {Outcome(Dismounted(v), FALSE)} ELSE {})

(* f_open and f_opendir.  FatFs and its SD driver are not in the repository: a file
   system that went down is taken to stay down until f_mount, as the comments of
   sd_storage_mount describe it ("reinit + remount, then retry once"). *)
CanOpen(v, img) == v.fs = "up" /\ img \in v.present /\ img \notin v.locks

Opened(v, t, img) ==
  [v EXCEPT !.path[t] = img, !.file[t] = img, !.locks = @ \cup {img}]

(* sd_storage_mount: the old image goes first; an open that fails for any reason but
   a missing file is tried again after a remount. *)
SdMountsOnce(v, t, img, h) ==
  UNION {IF CanOpen(u, img) THEN {Outcome(Opened(u, t, img), TRUE)}
                            ELSE {Outcome(u, FALSE)} : u \in Unmounts(v, t, h)}

Retried(u, t, img, h) ==
  UNION {(IF r.ok /\ CanOpen(r.v, img) THEN {Outcome(Opened(r.v, t, img), TRUE)} ELSE {})
         \cup (IF r.ok /\ CanOpen(r.v, img) /\ ~h THEN {} ELSE {Outcome(r.v, FALSE)})
         : r \in Remounts(u, h)}

SdMounts(v, t, img, h) ==
  UNION {(IF CanOpen(u, img) THEN {Outcome(Opened(u, t, img), TRUE)} ELSE {})
         \cup (IF u.fs = "up" /\ img \notin u.present THEN {Outcome(u, FALSE)} ELSE {})
         \cup (IF u.fs = "up" /\ (CanOpen(u, img) \/ img \notin u.present) /\ ~h THEN {}
               ELSE Retried(u, t, img, h))
         : u \in Unmounts(v, t, h)}

(* sd_storage_list_images *)
Lists(v, h) ==
  (IF v.fs = "up" THEN {Outcome(v, TRUE)} ELSE {})
  \cup (IF v.fs = "up" /\ ~h THEN {} ELSE {Outcome(r.v, TRUE) : r \in Remounts(v, h)})

(* sd_storage_create_image: a failure half way closes and unlinks the file, if the
   card still lets it. *)
Creates(v, img, h) ==
  IF v.fs = "down" \/ img \in v.present THEN {Outcome(v, FALSE)}
  ELSE LET left == [v EXCEPT !.present = @ \cup {img}, !.partial = @ \cup {img}]
       IN {Outcome([v EXCEPT !.present = @ \cup {img}], TRUE)}
          \cup IF h THEN {Outcome(v, FALSE), Outcome(left, FALSE),
                          Outcome([left EXCEPT !.locks = @ \cup {img}], FALSE)}
                    ELSE {}

UnlinkedUnlocked(v, img) ==
  IF v.fs = "up"
    THEN [v EXCEPT !.present = @ \ {img}, !.partial = @ \ {img}]
    ELSE v

Unlinked(v, img) ==
  IF v.fs = "up" /\ img \notin v.locks
    THEN [v EXCEPT !.present = @ \ {img}, !.partial = @ \ {img}]
    ELSE v

(* sd_storage_delete_image *)
Deletes(v, img, h) ==
  {Outcome(Unlinked(v, img), img \in v.present /\ CanOpen(v, img))}
  \cup (IF h THEN {Outcome(v, FALSE)} ELSE {})

(* sd_storage_copy_begin *)
CopyStarted(v, src, dst) ==
  [v EXCEPT !.copy = [src |-> src, dst |-> dst, live |-> TRUE],
            !.present = @ \cup {dst}, !.partial = @ \cup {dst}, !.locks = @ \cup {src, dst}]
CopyCanStart(v, src, dst) == CanOpen(v, src) /\ dst \notin v.present

(* sd_copy_finish *)
CopyClosed(v) ==
  [v EXCEPT !.copy = NoCopy,
            !.locks = IF v.copy.live THEN @ \ {v.copy.src, v.copy.dst} ELSE @]

CopyAbandons(v, h) == {CopyClosed(v)} \cup IF h THEN {[v EXCEPT !.copy = NoCopy]} ELSE {}

CopyFinishes(v, h) ==
  {Unlinked(CopyClosed(v), v.copy.dst)}
  \cup IF h THEN {CopyClosed(v), [v EXCEPT !.copy = NoCopy]} ELSE {}

(* the end of the source: sd_storage_copy_step *)
CopyCompleted(v) == [CopyClosed(v) EXCEPT !.partial = @ \ {v.copy.dst}]

-----------------------------------------------------------------------------
(* Sector I/O: sd_storage_read_sector, sd_storage_write_sector, sd_storage_sync.
   Core 1 serves SASI between console operations and between chunks of a copy. *)

Core1Free == run = 0 \/ vol.copy # NoCopy
Fault(h) == faults + (IF h THEN 1 ELSE 0) <= MaxFaults /\ faults' = faults + (IF h THEN 1 ELSE 0)

(* errs is kept up to the first value past the threshold, which only equality
   tests; a failure count up to its threshold. *)
Bumped(v) == [v EXCEPT !.errs = IF @ > RemountAt THEN @ ELSE @ + 1]
Failures(op, t) == IF fails[op][t] < DisableAt THEN fails[op][t] + 1 ELSE DisableAt

IoSucceeds(op, t) ==
  /\ vol.file[t] # None
  /\ vol' = [vol EXCEPT !.errs = 0]
  /\ fails' = [fails EXCEPT ![op][t] = 0]
  /\ Fault(FALSE)

(* Three attempts have failed: at the threshold, one remount and one more attempt;
   after sustained failures the target is disabled. *)
IoFails(op, t, h) ==
  /\ vol.file[t] = None \/ h
  /\ Fault(h)
  /\ \E r \in IF Bumped(vol).errs = RemountAt THEN Remounts(Bumped(vol), h)
                                              ELSE {Outcome(Bumped(vol), FALSE)} :
       \/ /\ r.ok
          /\ vol' = r.v
          /\ fails' = [fails EXCEPT ![op][t] = 0]
       \/ /\ ~r.ok \/ h
          /\ fails' = [fails EXCEPT ![op][t] = Failures(op, t)]
          /\ vol' \in IF Failures(op, t) >= DisableAt THEN Unmounts(r.v, t, h) ELSE {r.v}

SectorIo ==
  /\ Core1Free
  /\ \E op \in Ops, t \in Targets :
       /\ backend[t] = "sd" /\ vol.path[t] # None
       /\ IoSucceeds(op, t) \/ \E h \in BOOLEAN : IoFails(op, t, h)
  /\ UNCHANGED <<mailVars, routeVars, card>>

-----------------------------------------------------------------------------
(* storage.c: the routes. *)

(* storage_mount_on: the target is routed to the backend once it has mounted. *)
MountOn(on, t, img, ok) ==
  /\ backend' = [backend EXCEPT ![t] = IF ok THEN on ELSE @]
  /\ fuji' = [fuji EXCEPT ![t] = IF ok /\ on = "fuji" THEN img ELSE @]
  /\ want' = [want EXCEPT ![t] = IF ok THEN img ELSE @]

(* storage_unmount *)
Unroute(t) ==
  /\ backend' = [backend EXCEPT ![t] = "none"]
  /\ fuji' = [fuji EXCEPT ![t] = IF backend[t] = "fuji" THEN None ELSE @]
  /\ want' = [want EXCEPT ![t] = None]

-----------------------------------------------------------------------------
(* console_op_service on core 1. *)

Answer(ok) ==
  /\ res' = [id |-> run, ok |-> ok]
  /\ slot' = "done"
  /\ run' = 0
  /\ UNCHANGED <<req, core0, asked>>

ServiceBegin ==
  /\ slot = "pending" /\ run = 0
  /\ run' = req.id
  /\ res' = [id |-> 0, ok |-> FALSE]
  /\ UNCHANGED <<slot, req, core0, asked, routeVars, vol, fails, card, faults>>

Ready(kind) ==
  /\ slot = "pending" /\ run # 0 /\ vol.copy = NoCopy
  /\ req.kind = kind
  /\ UNCHANGED <<fails, card>>

DoMount ==
  /\ Ready("mount")
  /\ \E h \in BOOLEAN :
       /\ Fault(h)
       /\ \E r \in IF req.on = "sd" THEN SdMounts(vol, req.t, req.a, h)
                                    ELSE {Outcome(vol, ok) : ok \in BOOLEAN} :
            /\ vol' = r.v
            /\ MountOn(req.on, req.t, req.a, r.ok)
            /\ Answer(r.ok)

DoEject ==
  /\ Ready("eject")
  /\ \E h \in BOOLEAN :
       /\ Fault(h)
       /\ \/ /\ backend[req.t] = "none"
             /\ Answer(FALSE)
             /\ UNCHANGED <<vol, routeVars>>
          \/ /\ backend[req.t] # "none"
             /\ Unroute(req.t)
             /\ vol' \in IF backend[req.t] = "sd" THEN Unmounts(vol, req.t, h) ELSE {vol}
             /\ \E ok \in {TRUE} \cup IF backend[req.t] = "fuji" THEN {FALSE} ELSE {} : Answer(ok)

(* do_ls_sd, do_create, do_rm *)
DoImages(kind, outcomes) ==
  /\ Ready(kind)
  /\ \E h \in BOOLEAN :
       /\ Fault(h)
       /\ \E r \in outcomes[h] : vol' = r.v /\ Answer(r.ok)
  /\ UNCHANGED routeVars

DoList == DoImages("ls", [h \in BOOLEAN |-> Lists(vol, h)])
DoCreate == DoImages("create", [h \in BOOLEAN |-> Creates(vol, req.a, h)])
DoDelete == DoImages("rm", [h \in BOOLEAN |-> Deletes(vol, req.a, h)])

(* CONOP_COPY: the operation stays pending until the last chunk. *)
CopyBegin ==
  /\ Ready("copy")
  /\ \E h \in BOOLEAN :
       /\ Fault(h)
       /\ \/ /\ CopyCanStart(vol, req.a, req.b)
             /\ vol' = CopyStarted(vol, req.a, req.b)
             /\ UNCHANGED mailVars
          \/ /\ ~CopyCanStart(vol, req.a, req.b) \/ h
             /\ vol' = vol
             /\ Answer(FALSE)
  /\ UNCHANGED routeVars

CopyStep ==
  /\ slot = "pending" /\ vol.copy # NoCopy
  /\ \E h \in BOOLEAN :
       /\ Fault(h)
       /\ \/ /\ vol.copy.live
             /\ vol' = CopyCompleted(vol)
             /\ Answer(TRUE)
          \/ /\ ~vol.copy.live \/ h
             /\ vol' \in CopyFinishes(vol, h)
             /\ Answer(FALSE)
  /\ UNCHANGED <<routeVars, fails, card>>

Core1 ==
  \/ SectorIo \/ ServiceBegin
  \/ DoMount \/ DoEject \/ DoList \/ DoCreate \/ DoDelete \/ CopyBegin \/ CopyStep

-----------------------------------------------------------------------------
(* console_op_submit on core 0. *)

Core0Only == UNCHANGED <<run, routeVars, vol, fails, card, faults>>

(* A slot that was answered after its time-out is reclaimed; one that is still
   pending is refused. *)
Submit ==
  /\ core0 = "idle" /\ asked < MaxOps
  /\ slot # "pending"
  /\ slot' = "idle"
  /\ req' \in Asks(asked + 1)
  /\ asked' = asked + 1
  /\ core0' = "filled"
  /\ UNCHANGED res
  /\ Core0Only

Post ==
  /\ core0 = "filled"
  /\ slot' = "pending"
  /\ core0' = "wait"
  /\ UNCHANGED <<req, res, asked>>
  /\ Core0Only

Take ==
  /\ core0 = "wait" /\ slot = "done"
  /\ slot' = "idle"
  /\ core0' = "idle"
  /\ UNCHANGED <<req, res, asked>>
  /\ Core0Only

TimeOutFrees ==
  /\ core0 = "wait" /\ slot # "done"
  /\ slot' = "idle"
  /\ core0' = "idle"
  /\ UNCHANGED <<req, res, asked>>
  /\ Core0Only

(* Core 1 can be busy with sector I/O, or with this operation, for longer than core 0
   waits; the operation stays in the slot. *)
TimeOut ==
  /\ core0 = "wait" /\ slot # "done"
  /\ core0' = "idle"
  /\ UNCHANGED <<slot, req, res, asked>>
  /\ Core0Only

Core0 == Submit \/ Post \/ Take \/ TimeOut

-----------------------------------------------------------------------------
(* The card drops off the bus, and comes back. *)

Lose ==
  /\ card = "ok" /\ faults < MaxFaults
  /\ card' = "gone"
  /\ faults' = faults + 1
  /\ vol' = [vol EXCEPT !.fs = "down", !.file = [t \in Targets |-> None], !.copy.live = FALSE]
  /\ UNCHANGED <<mailVars, routeVars, fails>>

Insert ==
  /\ card = "gone"
  /\ card' = "ok"
  /\ UNCHANGED <<mailVars, routeVars, vol, fails, faults>>

(* After the auto-mount of core1_main: the images found, sorted by name, go to the
   targets in order; a mount may have failed. *)
Init ==
  /\ slot = "idle" /\ core0 = "idle" /\ asked = 0 /\ run = 0
  /\ req = NoRequest
  /\ res = [id |-> 0, ok |-> FALSE]
  /\ \E first \in [Targets -> OrNone], extra \in SUBSET Images :
       /\ \A t, u \in Targets : t < u /\ None \notin {first[t], first[u]} => first[t] < first[u]
       /\ want = first
       /\ backend = [t \in Targets |-> IF first[t] = None THEN "none" ELSE "sd"]
       /\ LET open == {first[t] : t \in Targets} \ {None}
          IN vol = [fs |-> "up", path |-> first, file |-> first, locks |-> open,
                    present |-> open \cup extra, partial |-> {}, errs |-> 0, copy |-> NoCopy]
  /\ fuji = [t \in Targets |-> None]
  /\ fails = [op \in Ops |-> [t \in Targets |-> 0]]
  /\ card = "ok" /\ faults = 0

Next == Core0 \/ Core1 \/ Lose \/ Insert

Spec == Init /\ [][Next]_vars

-----------------------------------------------------------------------------
(* Type invariant; in particular only files that exist are locked: rm and a failed
   copy never take away an image that is open. *)
TypeOK ==
  /\ slot \in {"idle", "pending", "done"} /\ req \in Request
  /\ res \in [id : 0 .. MaxOps, ok : BOOLEAN]
  /\ core0 \in {"idle", "filled", "wait"} /\ asked \in 0 .. MaxOps /\ run \in 0 .. MaxOps
  /\ backend \in [Targets -> {"none", "sd", "fuji"}]
  /\ fuji \in [Targets -> OrNone] /\ want \in [Targets -> OrNone]
  /\ vol \in Volume /\ vol.locks \subseteq vol.present /\ vol.partial \subseteq vol.present
  /\ fails \in [Ops -> [Targets -> 0 .. DisableAt]]
  /\ card \in {"ok", "gone"} /\ faults \in 0 .. MaxFaults

(* The answer core 0 picks up is the answer to what it asked, even after operations
   that timed out ("Reclaim a slot core 1 completed after a prior timeout"), and while
   core 1 works on an operation nobody touches its arguments ("refuse to clobber its
   args/result mid-run rather than trusting the caller to wait"). *)
OwnAnswer ==
  /\ core0 = "wait" /\ slot = "done" => res.id = asked
  /\ run # 0 => slot = "pending" /\ req.id = run

(* What a target serves is what was mounted on it last, on whichever backend, through
   remounts, reopened files, disabled targets and failed mounts ("all I/O dispatches
   on that entry", storage.c); and while the file system is up no SD target counts as
   mounted and fails every access because its file is not open. *)
Serving(t) ==
  IF backend[t] = "sd" THEN (IF vol.path[t] = None THEN None ELSE vol.file[t])
  ELSE IF backend[t] = "fuji" THEN fuji[t] ELSE None
ServesMounted ==
  /\ \A t \in Targets : Serving(t) \in {None, want[t]}
  /\ vol.fs = "up" => vol.file = vol.path

(* A copy that ends without success leaves no half-written image, even when a remount
   has closed its files under it - unless the card is not there to delete it
   ("no partial images on the card"). *)
NoPartialImage ==
  [][vol.copy # NoCopy /\ vol'.copy = NoCopy /\ vol.fs = "up" /\ faults' = faults
       => vol.copy.dst \notin vol'.partial]_vars

(* A mount on a card that is there fails only because the image is missing or is on
   another target, or else the next attempt will find it ("A dead filesystem ... is
   recoverable ...: reinit + remount, then retry once"). *)
MountRecovers ==
  [][slot = "pending" /\ slot' = "done" /\ req.kind = "mount" /\ req.on = "sd"
       /\ card = "ok" /\ faults' = faults /\ ~res'.ok
       => \/ vol'.fs = "up" /\ req.a \notin vol'.present
          \/ \E u \in Targets \ {req.t} : vol'.file[u] = req.a
          \/ CanOpen(vol', req.a)]_vars
=============================================================================
