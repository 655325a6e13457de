------------------------------ MODULE FujiLink ------------------------------
(***************************************************************************)
(* The link to the FujiNet module (an ESP32 that serves disk images from a *)
(* network host) and the storage backend on top of it.  Core 1 runs one    *)
(* call at a time; a call is a sequence of transactions, a transaction is  *)
(* a request and a reply, tried a few times under a new tag each.  The     *)
(* module raises DRDY while it has an SPI transaction armed: a receive     *)
(* buffer or a reply.  It may be slow, accept a repeated request while the *)
(* first one is still being served, lose or spoil a message, or reboot.    *)
(***************************************************************************)
EXTENDS Integers, Sequences

CONSTANTS
  Targets,    \* SASI targets, the module's device slots
  LastEntry,  \* external: entries of the directory on the network host, in its order
  Images,     \* external: those of them that are images, the others are directories
  None,
  TagWrap,    \* the values of the 8-bit tag, 256
  Retries,    \* FUJI_RETRIES, 3
  WalkCap,    \* entries a listing looks at, 64
  QueueCap,   \* external: requests the module holds
  MaxWait,    \* external: time-outs while the module serves one request
  MaxCalls,   \* bound: calls made by SASI, the console and the boot code
  MaxFaults   \* bound: faults

ASSUME LinkAssumption ==
  /\ 0 \in Targets
  /\ LastEntry \in Nat /\ None \notin 1 .. LastEntry
  /\ Images \subseteq 1 .. LastEntry
  /\ WalkCap \in Nat \ {0} /\ TagWrap \in Nat \ {0} /\ Retries \in Nat \ {0} /\ QueueCap \in Nat \ {0}
  /\ MaxWait \in Nat /\ MaxCalls \in Nat \ {0} /\ MaxFaults \in Nat

(* A request is served or gone before its tag comes round again. *)
ASSUME TagsAssumption == QueueCap * (MaxWait + 2) + MaxFaults <= TagWrap

VARIABLES
  pc,       \* where core 1 is in the transaction
  call,     \* the call it executes
  step,     \* the transaction of that call
  attempt,  \* its attempt
  got,      \* the payload of the reply accepted last
  walk,     \* the entries the directory walk of this call has seen, and its verdict
  mounted,  \* s_targets[].mounted
  armed,    \* external: the SPI transaction the module has armed
  out,      \* external: the reply in it
  inbox,    \* external: requests accepted, the oldest one being served
  disk,     \* external: a sector of each image
  conf,     \* external: the image configured for each slot, persistent
  live,     \* external: the image each slot serves
  host,     \* external: whether the network host is mounted
  dir,      \* external: the open directory
  calls,    \* history: calls made
  waited,   \* history: time-outs since the request being served came first
  want,     \* history: the image a target must serve, None while that is open
  vals,     \* history: the values the sector of an image may have
  again,    \* history: repeated requests of this directory walk
  faults    \* history: faults so far

coreVars == <<pc, call, step, attempt, got, walk, mounted>>
linkVars == <<armed, out, inbox, waited>>
espVars == <<disk, conf, live, host, dir>>
histVars == <<calls, want, vals, again, faults>>
vars == <<coreVars, linkVars, espVars, histVars>>

Entries == 1 .. LastEntry
OrNone == Images \cup {None}
Steps == {"ping", "join", "host", "open", "entry", "close", "unmount", "select",
          "mountall", "read", "put"}
Call ==
  [kind : {"read", "write", "eject"}, t : Targets, img : {None}, n : 1 .. MaxCalls]
    \cup [kind : {"mount"}, t : Targets, img : Images, n : 1 .. MaxCalls]
    \cup [kind : {"boot", "list", "join", "query"}, t : {0}, img : {None}, n : 1 .. MaxCalls]

(* A request: what to do, with the arguments of the call.  Tags only matter compared
   with s_tag: "age" is s_tag less the tag, modulo TagWrap. *)
Age == 0 .. TagWrap - 1
Request == [age : Age, do : Steps, of : Call]

Sector(img, v) == [img |-> img, v |-> v]
Nothing == Sector(None, 0)
Data == {Nothing} \cup [img : Entries, v : 0 .. MaxCalls]
End == Nothing                            \* the end marker of a directory walk
Listing == [i \in Entries |-> i]
Closed == [open |-> FALSE, left |-> <<>>]

Fault(h) == faults + (IF h THEN 1 ELSE 0) <= MaxFaults /\ faults' = faults + (IF h THEN 1 ELSE 0)

-----------------------------------------------------------------------------
(* The module (external). *)

(* What serving a request does, and the reply to it. *)
Ack(r, p) == [age |-> r.age, ack |-> TRUE, payload |-> p]
Nak(r) == [age |-> r.age, ack |-> FALSE, payload |-> Nothing]
NoReply == [age |-> 0, ack |-> FALSE, payload |-> Nothing]

Succeeds(r) ==
  /\ r.do \in {"read", "put"} => live[r.of.t] # None
  /\ r.do = "open" => host
  /\ r.do = "entry" => dir.open

Payload(r) ==
  CASE r.do = "read" -> Sector(live[r.of.t], disk[live[r.of.t]])
    [] r.do = "entry" /\ dir.left # <<>> -> Sector(Head(dir.left), 0)
    [] OTHER -> Nothing

Reply(r) == IF Succeeds(r) THEN Ack(r, Payload(r)) ELSE Nak(r)

Serves(r) ==
  /\ disk' = IF r.do = "put" /\ live[r.of.t] # None
               THEN [disk EXCEPT ![live[r.of.t]] = r.of.n] ELSE disk
  /\ conf' = IF r.do = "select" THEN [conf EXCEPT ![r.of.t] = r.of.img] ELSE conf
  /\ live' = IF r.do = "mountall" THEN conf
             ELSE IF r.do = "unmount" THEN [live EXCEPT ![r.of.t] = None] ELSE live
  /\ host' = (host \/ r.do = "host")
  /\ dir' = IF r.do = "open" /\ host
              THEN [open |-> TRUE, left |-> IF r.of.img = None THEN Listing ELSE <<r.of.img>>]
            ELSE IF r.do = "close" THEN Closed
            ELSE IF r.do = "entry" /\ dir.left # <<>> THEN [dir EXCEPT !.left = Tail(@)]
            ELSE dir

EspServe ==
  /\ inbox # <<>> /\ armed # "reply"
  /\ armed' = "reply"
  /\ inbox' = Tail(inbox)
  /\ waited' = 0
  /\ \/ /\ Fault(FALSE)
        /\ Serves(Head(inbox))
        /\ out' = Reply(Head(inbox))
     \/ /\ Fault(TRUE)                     \* the network host does not answer
        /\ out' = Nak(Head(inbox))
        /\ UNCHANGED espVars
  /\ UNCHANGED <<coreVars, calls, want, vals, again>>

(* A receive buffer, also while a request is being served ("would just queue a
   duplicate operation on the ESP"). *)
EspListen ==
  /\ armed = "none" /\ Len(inbox) < QueueCap
  /\ armed' = "rx"
  /\ UNCHANGED <<coreVars, out, inbox, waited, espVars, histVars>>

EspReboot ==
  /\ Fault(TRUE)
  /\ armed' = "none" /\ inbox' = <<>> /\ waited' = 0
  /\ out' = NoReply
  /\ live' = [t \in Targets |-> None]
  /\ host' = FALSE /\ dir' = Closed
  /\ UNCHANGED <<coreVars, disk, conf, calls, want, vals, again>>

Esp == EspServe \/ EspListen \/ EspReboot

-----------------------------------------------------------------------------
(* One transaction: transact_frame_locked. *)

(* ++s_tag *)
Older(m) == [m EXCEPT !.age = (@ + 1) % TagWrap]
NewTag ==
  /\ inbox' = [i \in DOMAIN inbox |-> Older(inbox[i])]
  /\ out' = IF armed = "reply" THEN Older(out) ELSE out
SameTag == UNCHANGED <<inbox, out>>

Transact(s) ==
  /\ pc' = "send"
  /\ step' = s
  /\ attempt' = 1
  /\ NewTag

AttemptsOneMore == IF step = "join" THEN 1 ELSE Retries + 1
(* SET_SSID and SCAN_NETWORKS are sent once: "a retry resend mid-connect ... would just queue a
   duplicate". *)
Attempts == IF step = "join" THEN 1 ELSE Retries

AsksAgain == again' = again + (IF step = "entry" /\ call.kind = "list" THEN 1 ELSE 0)

RetrySameTag ==
  /\ IF attempt < Attempts
       THEN pc' = "send" /\ attempt' = attempt + 1 /\ SameTag /\ AsksAgain
       ELSE pc' = "failed" /\ UNCHANGED <<attempt, inbox, out, again>>

(* A fresh tag for every attempt. *)
Retry ==
  /\ IF attempt < Attempts
       THEN pc' = "send" /\ attempt' = attempt + 1 /\ NewTag /\ AsksAgain
       ELSE pc' = "failed" /\ UNCHANGED <<attempt, inbox, out, again>>

InCall == UNCHANGED <<call, step, walk, mounted, espVars, calls, want, vals>>

(* send_request clocks whatever is armed.  A receive buffer takes the request, unless
   it is spoilt; an armed reply is gone, and the request may or may not be taken. *)
Send ==
  /\ pc = "send" /\ armed # "none"
  /\ pc' = "recv"
  /\ armed' = "none" /\ out' = NoReply
  /\ \E taken \in BOOLEAN :
       /\ Fault(armed = "rx" /\ ~taken)
       /\ taken => Len(inbox) < QueueCap
       /\ inbox' = IF taken THEN Append(inbox, [age |-> 0, do |-> step, of |-> call]) ELSE inbox
  /\ UNCHANGED <<attempt, got, waited, again>>
  /\ InCall

(* wait_drdy: nothing is armed for as long as the budget lasts.  A module that serves
   a request is done with it after a while; one that is off can be silent for ever. *)
TimesOut ==
  /\ armed = "none"
  /\ inbox # <<>> => waited < MaxWait
  /\ waited' = IF inbox = <<>> THEN 0 ELSE waited + 1
  /\ UNCHANGED armed

SendTimesOut ==
  /\ pc = "send"
  /\ TimesOut
  /\ Retry
  /\ UNCHANGED <<got, faults>>
  /\ InCall

AcceptsAnyTag(intact) == intact /\ out.ack
(* The header has our tag, fuji_parse_frame finds the frame intact, and it is an ACK. *)
Accepts(intact) == out.age = 0 /\ intact /\ out.ack

(* recv_reply with a reply armed. *)
Recv ==
  /\ pc = "recv" /\ armed = "reply"
  /\ armed' = "none"
  /\ \E intact \in BOOLEAN :
       /\ Fault(~intact)
       /\ \/ /\ Accepts(intact)
             /\ pc' = "answered"
             /\ got' = out.payload
             /\ UNCHANGED <<attempt, inbox, out, again>>
          \/ /\ ~Accepts(intact)
             /\ Retry
             /\ UNCHANGED got
  /\ UNCHANGED waited
  /\ InCall

(* "junk (e.g. we clocked an armed RX)" *)
RecvJunk ==
  /\ pc = "recv" /\ armed = "rx"
  /\ armed' = "none"
  /\ Retry
  /\ UNCHANGED <<got, waited, faults>>
  /\ InCall

RecvTimesOut ==
  /\ pc = "recv"
  /\ TimesOut
  /\ Retry
  /\ UNCHANGED <<got, faults>>
  /\ InCall

Transaction == Send \/ SendTimesOut \/ Recv \/ RecvJunk \/ RecvTimesOut

-----------------------------------------------------------------------------
(* The calls: fuji_read, fuji_write, fuji_storage_mount, fuji_storage_unmount,
   fuji_dir_list, the control calls, and what the console and the boot code add. *)

First(c) ==
  CASE c.kind = "read" -> "read"
    [] c.kind = "write" -> "put"
    [] c.kind = "eject" -> "unmount"
    [] c.kind = "list" -> "host"
    [] c.kind = "join" -> "join"
    [] c.kind \in {"mount", "boot", "query"} -> "ping"

Others == UNCHANGED <<armed, waited, espVars, faults>>
NoCall == [kind |-> "list", t |-> 0, img |-> None, n |-> 1]
NoWalk == [found |-> <<>>, ok |-> TRUE]

(* From now on it is open what target t serves. *)
Undecided(t) == want' = [want EXCEPT ![t] = None]

(* The write may reach the image its target serves; any image, if that is open. *)
MayWrite(c) ==
  vals' = [i \in Images |->
             IF c.kind = "write" /\ want[c.t] \in {i, None} THEN vals[i] \cup {c.n} ELSE vals[i]]

Begin ==
  /\ pc = "idle" /\ calls < MaxCalls
  /\ \E c \in Call :
       /\ c.n = calls + 1
       /\ c.kind \in {"read", "write", "eject"} => mounted[c.t]
       /\ c.kind = "boot" => calls = 0
       /\ call' = c
       /\ Transact(First(c))
       /\ MayWrite(c)
       /\ IF c.kind = "eject" THEN Undecided(c.t) ELSE UNCHANGED want
  /\ calls' = calls + 1
  /\ UNCHANGED <<got, walk, mounted, again>>
  /\ Others

(* Go on with transaction s, whatever the last one said. *)
Goes(s) == Transact(s) /\ UNCHANGED <<call, got, mounted, calls, vals, again>> /\ Others

After(p, s) == pc = p /\ step = s

Stats == After("answered", "ping") /\ call.kind = "mount" /\ Goes("host") /\ UNCHANGED <<walk, want>>
Opens == After("answered", "host") /\ Goes("open") /\ UNCHANGED <<walk, want>>
Enters == After("answered", "open") /\ Goes("entry") /\ UNCHANGED <<walk, want>>

(* READ_DIR_ENTRY: a listing goes on up to the end marker, but looks at no more than
   WalkCap entries, the directories it does not show among them; a stat looks at one. *)
SeesEntry ==
  /\ After("answered", "entry") /\ got # End /\ call.kind = "list"
  /\ walk' = [walk EXCEPT !.found = Append(@, got.img)]
  /\ UNCHANGED want

Walks == SeesEntry /\ Len(walk.found) + 1 < WalkCap /\ Goes("entry")

(* "safety cap": the listing ends as well as at the end marker. *)
CutsWalk == SeesEntry /\ Len(walk.found) + 1 = WalkCap /\ Goes("close")

EndsWalkWell ==
  /\ step = "entry" /\ pc \in {"answered", "failed"}
  /\ pc = "answered" /\ call.kind = "list" => got = End
  /\ Goes("close")
  /\ UNCHANGED <<walk, want>>

(* CLOSE_DIRECTORY always; a stat that saw the end marker has not found its file. *)
EndsWalk ==
  /\ step = "entry" /\ pc \in {"answered", "failed"}
  /\ pc = "answered" /\ call.kind = "list" => got = End
  /\ walk' = [walk EXCEPT !.ok = pc = "answered" /\ (call.kind = "mount" => got # End)]
  /\ Goes("close")
  /\ UNCHANGED want

(* fuji_select_image: the slot is taken from its old image first. *)
Unslots ==
  /\ step = "close" /\ pc \in {"answered", "failed"} /\ call.kind = "mount" /\ walk.ok
  /\ Goes("unmount")
  /\ Undecided(call.t)
  /\ UNCHANGED walk

Selects ==
  /\ After("answered", "unmount") /\ call.kind = "mount"
  /\ Goes("select")
  /\ UNCHANGED <<walk, want>>

MountsAllUnselected ==
  /\ \/ After("answered", "unmount") /\ call.kind = "mount"
     \/ After("answered", "ping") /\ call.kind = "boot"
  /\ Goes("mountall")
  /\ UNCHANGED <<walk, want>>

(* fuji_mount_all; the boot mount takes the slots as they are configured. *)
MountsAll ==
  /\ After("answered", "select") \/ (After("answered", "ping") /\ call.kind = "boot")
  /\ Goes("mountall")
  /\ UNCHANGED <<walk, want>>

(* The call returns; its local state is gone. *)
Returns ==
  /\ pc' = "idle"
  /\ step' = "ping" /\ attempt' = 1 /\ got' = Nothing /\ walk' = NoWalk /\ call' = NoCall
  /\ again' = 0
  /\ UNCHANGED <<calls, inbox, out>>
  /\ Others

Delivers ==
  /\ step = "read" /\ pc \in {"answered", "failed"}
  /\ vals' = IF pc = "answered" /\ want[call.t] # None
               THEN [vals EXCEPT ![want[call.t]] = {got.v}] ELSE vals
  /\ UNCHANGED <<mounted, want>>
  /\ Returns

Stores ==
  /\ step = "put" /\ pc \in {"answered", "failed"}
  /\ vals' = IF pc = "answered" /\ want[call.t] # None
               THEN [vals EXCEPT ![want[call.t]] = {call.n}] ELSE vals
  /\ UNCHANGED <<mounted, want>>
  /\ Returns

Ejects ==
  /\ step = "unmount" /\ call.kind = "eject" /\ pc \in {"answered", "failed"}
  /\ mounted' = [mounted EXCEPT ![call.t] = FALSE]
  /\ UNCHANGED <<vals, want>>
  /\ Returns

Mounts ==
  /\ After("answered", "mountall")
  /\ mounted' = [mounted EXCEPT ![call.t] = TRUE]
  /\ want' = [want EXCEPT ![call.t] = IF call.kind = "boot" THEN conf[call.t] ELSE call.img]
  /\ UNCHANGED vals
  /\ Returns

(* Nothing is undone: a target that was mounted before stays mounted. *)
MountFails ==
  /\ call.kind \in {"mount", "boot"}
  /\ \/ pc = "failed" /\ step \in {"ping", "host", "open", "unmount", "select", "mountall"}
     \/ step = "close" /\ pc \in {"answered", "failed"} /\ ~walk.ok
  /\ UNCHANGED <<vals, mounted, want>>
  /\ Returns

Lists ==
  /\ call.kind = "list"
  /\ \/ pc = "failed" /\ step \in {"host", "open"}
     \/ step = "close" /\ pc \in {"answered", "failed"}
  /\ UNCHANGED <<vals, mounted, want>>
  /\ Returns

(* One transaction that changes nothing or only the network: fuji_wifi_set, and the
   queries fuji_link_ping, fuji_wifi_get, fuji_wifi_scan, fuji_wifi_scan_result. *)
Talks ==
  /\ call.kind \in {"join", "query"} /\ pc \in {"answered", "failed"}
  /\ UNCHANGED <<vals, mounted, want>>
  /\ Returns

Caller ==
  \/ Begin \/ Stats \/ Opens \/ Enters \/ Walks \/ CutsWalk \/ EndsWalk \/ Unslots \/ Selects \/ MountsAll
  \/ Delivers \/ Stores \/ Ejects \/ Mounts \/ MountFails \/ Lists \/ Talks

Init ==
  /\ pc = "idle" /\ step = "ping" /\ attempt = 1 /\ got = Nothing /\ walk = NoWalk
  /\ call = NoCall
  /\ mounted = [t \in Targets |-> FALSE]
  /\ armed = "none" /\ out = NoReply /\ inbox = <<>> /\ waited = 0
  /\ disk = [i \in Images |-> 0]
  /\ conf \in [Targets -> OrNone] /\ \A t \in Targets \ {0} : conf[t] = None
  /\ live = [t \in Targets |-> None]
  /\ host = FALSE /\ dir = Closed
  /\ calls = 0 /\ again = 0 /\ faults = 0
  /\ want = [t \in Targets |-> None]
  /\ vals = [i \in Images |-> {0}]

Next == Transaction \/ Caller \/ Esp

Spec == Init /\ [][Next]_vars

-----------------------------------------------------------------------------
(* Type invariant; in particular no call is made on a target that is not mounted. *)
TypeOK ==
  /\ pc \in {"idle", "send", "recv", "answered", "failed"}
  /\ call \in Call /\ step \in Steps /\ attempt \in 1 .. Retries
  /\ pc # "idle" /\ call.kind \in {"read", "write", "eject"} => mounted[call.t]
  /\ got \in Data
  /\ walk \in [found : Seq(Entries), ok : BOOLEAN]
  /\ mounted \in [Targets -> BOOLEAN]
  /\ armed \in {"none", "rx", "reply"} /\ waited \in 0 .. MaxWait
  /\ inbox \in Seq(Request) /\ Len(inbox) <= QueueCap
  /\ out \in [age : Age, ack : BOOLEAN, payload : Data]
  /\ disk \in [Images -> 0 .. MaxCalls] /\ vals \in [Images -> SUBSET (0 .. MaxCalls)]
  /\ conf \in [Targets -> OrNone] /\ live \in [Targets -> OrNone] /\ want \in [Targets -> OrNone]
  /\ host \in BOOLEAN /\ dir \in [open : BOOLEAN, left : Seq(Entries)]
  /\ calls \in 0 .. MaxCalls /\ again \in Nat /\ faults \in 0 .. MaxFaults

(* When a reply is accepted, nothing of this or of an earlier transaction is still
   under way: no request waits in the module, no reply is armed ("a stale armed reply
   from a desynced exchange can never be taken for the current one", fuji_blkdev.c). *)
NothingOutstanding == pc = "answered" => inbox = <<>> /\ armed # "reply"

(* A sector read through a mounted target comes from the image mounted there, and is
   what was written last; a write that failed may or may not have taken effect, but
   not after a later access has succeeded. *)
ReadsLatest ==
  pc = "answered" /\ step = "read" /\ want[call.t] # None
    => got.img = want[call.t] /\ got.v \in vals[want[call.t]]

(* A target that was mounted, and neither ejected nor mounted anew since, is served
   its own image or none, whatever leftovers of failed calls the module still executes
   and although MOUNT_ALL of one target mounts the slots of all. *)
ServesSelected == \A t \in Targets : want[t] # None => live[t] \in {None, want[t]}

(* A directory walk that ends well sees the entries in order and none twice.  Either it
   has come to the end marker and misses no more of them than requests for an entry
   were repeated, or it has stopped at the cap, with WalkCap entries seen whatever is
   left ("Returns true on a clean directory walk", fuji_blkdev.h; "READ_DIR_ENTRY until
   the 0x7F 0x7F end marker (safety-capped)", fuji_blkdev.c). *)
ListIsFaithful ==
  call.kind = "list" /\ step = "close" /\ walk.ok
    => /\ \A i, j \in DOMAIN walk.found : i < j => walk.found[i] < walk.found[j]
       /\ Len(walk.found) <= WalkCap
       /\ Len(walk.found) + again >= Len(Listing) \/ Len(walk.found) = WalkCap
=============================================================================
