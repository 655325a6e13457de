------------------------------ MODULE MgmtChan ------------------------------
(***************************************************************************)
(* The management channel: three registers through which a program on the  *)
(* Victor drives the console that runs on core 0.                          *)
(*   - the register ISR (core 1) pushes command bytes, counts acknowledges *)
(*     and notes reset requests while it answers the bus cycle;            *)
(*   - core 0 polls the channel from its main loop: it serves a reset,     *)
(*     drains the command ring through the line engine or the menu, and    *)
(*     publishes the reply one acknowledged byte at a time;                *)
(*   - the host program is victor_client/dmaterm.c (the boot ROM's loader  *)
(*     adds the raw download command).                                     *)
(* Each access of core 0 to a cell it shares with the ISR is a step.       *)
(***************************************************************************)
EXTENDS Integers, Sequences

CONSTANTS
  CmdSize,      \* CMD_RING_SZ, 64
  RespSize,     \* MGMT_CHAN_RESP_SZ, 1024
  LineCap,      \* printable bytes the line accepts, 95
  PartLen,      \* bytes of each of the three parts of a download
  MaxReply,     \* bound: bytes of one console reply
  MaxKeys,      \* bound: bytes the user types
  MaxSessions,  \* bound: channel resets the host requests
  Impatient     \* whether session_settle() can time out before core 0 answers

ASSUME ChannelAssumption ==
  /\ CmdSize \in Nat /\ CmdSize > 1
  /\ RespSize \in Nat /\ RespSize > 1
  /\ LineCap \in Nat /\ PartLen \in Nat \ {0} /\ MaxReply \in Nat \ {0}
  /\ MaxKeys \in Nat /\ MaxSessions \in Nat
  /\ Impatient \in BOOLEAN

VARIABLES
  cmd,       \* the command ring, oldest first
  dropped,   \* s_cmd_drop # s_cmd_drop_seen
  echo,      \* cell 0x40: the byte it is the complement of, or "rearmed" (0xFF)
  resetReq,  \* s_reset_req
  unacked,   \* s_served - s_ack
  status,    \* cell 0x50
  resp,      \* cell 0x60
  fifo,      \* the response FIFO
  flags,     \* s_overflow, s_cmd_full, s_resp_ready, s_phase
  line,      \* the line engine's buffer: the session of each byte
  menu,      \* who owns the full-screen menu: s_mode and s_tui_owner
  wasMenu,   \* s_was_menu
  dirty,     \* whether the menu differs from what has been painted
  pc,        \* core 0's control point
  job,       \* what core 0 is writing, and where it goes on afterwards
  serial,    \* history: bytes written since the last flush
  cur,       \* history: session of the command byte taken last
  hp,        \* where the host program is
  last,      \* its last_phase
  grabbed,   \* the response byte it has read and not acknowledged
  starting,  \* whether it settles at its start rather than after an overflow
  next,      \* history: serial of the response byte the host expects
  sess,      \* history: number of the host's session
  keys       \* history: bytes typed so far

isrVars == <<cmd, dropped, echo, resetReq, unacked>>
cellVars == <<status, resp>>
conVars == <<line, menu, wasMenu, dirty>>
coreVars == <<fifo, flags, pc, job, serial, cur>>
hostVars == <<hp, last, grabbed, starting, next, sess, keys>>
vars == <<isrVars, cellVars, conVars, coreVars, hostVars>>

Session == 0 .. MaxSessions
Kinds == {"char", "cr", "blob", "noise"}
CmdByte == [kind : Kinds, s : Session]
RespByte == [s : Session, n : Nat]
NoByte == [s |-> 0, n |-> 0]

-----------------------------------------------------------------------------
(* The ISR: mgmt_chan_reg_write, within the host's bus cycle. *)

(* A byte to CMD: a full ring drops it; the echo is set in either case. *)
Push(b) ==
  /\ IF Len(cmd) < CmdSize - 1
       THEN cmd' = Append(cmd, b) /\ UNCHANGED dropped
       ELSE dropped' = TRUE /\ UNCHANGED cmd
  /\ echo' = b.kind
  /\ UNCHANGED <<resetReq, unacked>>

Acknowledge ==
  /\ unacked' = unacked - 1
  /\ UNCHANGED <<cmd, dropped, echo, resetReq>>

RequestReset ==
  /\ resetReq' = TRUE
  /\ UNCHANGED <<cmd, dropped, echo, unacked>>

-----------------------------------------------------------------------------
(* The host: dmaterm.c.  Reads are served from the cells. *)

HostStep == UNCHANGED <<cellVars, conVars, coreVars>>

(* The two-point complement probe.  A reboot takes seconds, and DOS comes up from the
   disks of this board, so core 1 is not busy with an operation that core 0 waits for:
   a reset the host asked for before its reboot has been served by then. *)
Launch ==
  /\ HostStep
  /\ hp = "off" /\ sess < MaxSessions
  /\ ~resetReq /\ pc \notin {"rebase", "flush", "clear", "show", "rearm"}
  /\ hp' = "probe"
  /\ starting' = TRUE
  /\ UNCHANGED <<isrVars, last, grabbed, next, sess, keys>>

ProbeKind == [probe |-> "char", probe2 |-> "noise"]
AfterProbe == [probe |-> "check", probe2 |-> "check2"]
AfterCheck == [check |-> "probe2", check2 |-> "reset"]

Probe ==
  /\ HostStep
  /\ hp \in DOMAIN ProbeKind
  /\ Push([kind |-> ProbeKind[hp], s |-> sess])
  /\ hp' = AfterProbe[hp]
  /\ UNCHANGED <<last, grabbed, starting, next, sess, keys>>

Check ==
  /\ HostStep
  /\ hp \in DOMAIN AfterCheck
  /\ hp' = IF echo = (IF hp = "check" THEN "char" ELSE "noise") THEN AfterCheck[hp]
                                                                ELSE "undetected"
  /\ UNCHANGED <<isrVars, last, grabbed, starting, next, sess, keys>>

(* session_settle: any write to STATUS ... *)
Reset ==
  /\ HostStep
  /\ hp = "reset" /\ sess < MaxSessions
  /\ RequestReset
  /\ sess' = sess + 1
  /\ next' = 1
  /\ hp' = "settle"
  /\ UNCHANGED <<last, grabbed, starting, keys>>

(* Where core 0 can stay for longer than the host's 200000 reads take: in a console
   operation that core 1 executes, of a channel command, a menu key or the USB
   console. *)
Blocked == pc \in {"drain", "feed", "main"}

(* ... then poll the echo, for a bounded number of reads ... *)
Settle ==
  /\ HostStep
  /\ hp = "settle"
  /\ echo = "rearmed" \/ (Impatient /\ Blocked)
  /\ hp' = "phase"
  /\ UNCHANGED <<isrVars, last, grabbed, starting, next, sess, keys>>

(* ... and seed the poll loop with the phase. *)
SeedPhase ==
  /\ HostStep
  /\ hp = "phase"
  /\ last' = status.phase
  /\ hp' = IF starting THEN "cr" ELSE "loop"
  /\ UNCHANGED <<isrVars, grabbed, starting, next, sess, keys>>

Hello ==
  /\ HostStep
  /\ hp = "cr"
  /\ Push([kind |-> "cr", s |-> sess])
  /\ hp' = "loop"
  /\ UNCHANGED <<last, grabbed, starting, next, sess, keys>>

(* A key of the user, or the loader's download command 0x1C. *)
Type(k) ==
  /\ HostStep
  /\ hp = "loop" /\ keys < MaxKeys
  /\ Push([kind |-> k, s |-> sess])
  /\ keys' = keys + 1
  /\ UNCHANGED <<hp, last, grabbed, starting, next, sess>>

(* One read of STATUS decides everything: an overflow goes first. *)
ReadStatus ==
  /\ HostStep
  /\ hp = "loop"
  /\ \/ /\ status.over
        /\ hp' = "reset"
        /\ starting' = FALSE
     \/ /\ ~status.over /\ status.ready /\ status.phase # last
        /\ hp' = "grab"
        /\ UNCHANGED starting
  /\ UNCHANGED <<isrVars, last, grabbed, next, sess, keys>>

(* RESP, read until two reads agree. *)
Grab ==
  /\ HostStep
  /\ hp = "grab"
  /\ grabbed' = resp
  /\ hp' = "ack"
  /\ UNCHANGED <<isrVars, last, starting, next, sess, keys>>

Ack ==
  /\ HostStep
  /\ hp = "ack"
  /\ Acknowledge
  /\ last' = ~last
  /\ next' = next + 1
  /\ grabbed' = NoByte
  /\ hp' = "more"
  /\ UNCHANGED <<starting, sess, keys>>

(* The greedy drain: the next byte, without a look at the overflow; or back to the
   keyboard, when there is none or after 256 of them. *)
ReadMore ==
  /\ HostStep
  /\ hp = "more"
  /\ hp' \in {"loop"} \cup IF status.ready /\ status.phase # last THEN {"grab"} ELSE {}
  /\ UNCHANGED <<isrVars, last, grabbed, starting, next, sess, keys>>

(* The program ends (in its loop), or the Victor is rebooted, also while the program
   waits for its reset.  A reboot before the reset is asked for is left out: the bytes
   of a probe in the ring are what the probe of the next launch finds anyway, and
   its reset flushes both. *)
Leave ==
  /\ HostStep
  /\ hp \in {"settle", "phase", "cr", "loop", "grab", "ack", "more"}
  /\ hp' = "off"
  /\ last' = FALSE
  /\ grabbed' = NoByte
  /\ UNCHANGED <<isrVars, starting, next, sess, keys>>

HostProgress ==
  Probe \/ Check \/ Reset \/ Settle \/ SeedPhase \/ Hello \/ ReadStatus \/ Grab \/ Ack
  \/ ReadMore

Host == HostProgress \/ Launch \/ Leave \/ \E k \in Kinds \ {"noise"} : Type(k)

-----------------------------------------------------------------------------
(* Core 0: mgmt_chan_publish and the writers. *)

At(p, q) == pc = p /\ pc' = q
CoreOnly == UNCHANGED hostVars

(* A return address that has been used. *)
Done(r) == [job EXCEPT ![r] = "drain"]

(* Hand out the next byte: first the byte, then the status that announces it;
   or drop READY when the FIFO has drained. *)
Publish(q) ==
  /\ unacked = 0
  /\ \/ /\ fifo # <<>>
        /\ resp' = Head(fifo)
        /\ fifo' = Tail(fifo)
        /\ pc' = "announce"
        /\ job' = [job EXCEPT !.back = q]
        /\ UNCHANGED <<status, flags>>
     \/ /\ fifo = <<>> /\ flags.ready
        /\ flags' = [flags EXCEPT !.ready = FALSE]
        /\ status' = flags'
        /\ pc' = q
        /\ UNCHANGED <<resp, fifo, job>>
  /\ UNCHANGED <<isrVars, conVars, serial, cur, hostVars>>

AnnounceUncounted ==
  /\ At("announce", job.back)
  /\ flags' = [flags EXCEPT !.ready = TRUE, !.phase = ~@]
  /\ status' = flags'
  /\ job' = Done("back")
  /\ UNCHANGED <<isrVars, resp, fifo, serial, cur, conVars, hostVars>>

Announce ==
  /\ At("announce", job.back)
  /\ flags' = [flags EXCEPT !.ready = TRUE, !.phase = ~@]
  /\ status' = flags'
  /\ unacked' = unacked + 1
  /\ job' = Done("back")
  /\ UNCHANGED <<cmd, dropped, echo, resetReq, resp, fifo, serial, cur, conVars, hostVars>>

RoomForOneMore == Len(fifo) < RespSize
Room == Len(fifo) < RespSize - 1

AppendByte ==
  /\ fifo' = Append(fifo, [s |-> cur, n |-> serial + 1])
  /\ serial' = serial + 1
  /\ job' = [job EXCEPT !.left = @ - 1]
  /\ UNCHANGED <<isrVars, cellVars, conVars, flags, pc, cur, hostVars>>

(* The spin limit: the Victor is not draining, and an acknowledge that arrives
   after the last look is too late.  Core 0 goes on at q. *)
GiveUpNever(q) == FALSE /\ pc' = q /\ UNCHANGED vars
GiveUp(q) ==
  /\ flags' = [flags EXCEPT !.over = TRUE]
  /\ status' = flags'
  /\ job' = [job EXCEPT !.left = 0, !.parts = 0]
  /\ pc' = q
  /\ UNCHANGED <<isrVars, resp, fifo, conVars, serial, cur, hostVars>>

(* Start mgmt_chan_resp_write of n bytes, then go on at q. *)
Write(n, q) ==
  /\ pc' = "write"
  /\ job' = [job EXCEPT !.left = n, !.ret = q]

RespWrite ==
  /\ pc = "write"
  /\ \/ /\ job.left = 0 \/ flags.over
        /\ pc' = job.ret
        /\ job' = [Done("ret") EXCEPT !.left = 0]
        /\ UNCHANGED <<isrVars, cellVars, conVars, fifo, flags, serial, cur, hostVars>>
     \/ /\ job.left > 0 /\ ~flags.over
        /\ Room
        /\ AppendByte
     \/ /\ job.left > 0 /\ ~flags.over
        /\ ~Room
        /\ Publish("write") \/ GiveUp(job.ret)

(* mgmt_chan_blob_send, once for each part of the frame. *)
Bail ==
  /\ pc' = "drain"
  /\ job' = [job EXCEPT !.parts = 0, !.left = 0]
  /\ UNCHANGED <<isrVars, cellVars, conVars, fifo, flags, serial, cur, hostVars>>

BlobBegin ==
  /\ pc = "blob"
  /\ \/ (flags.over \/ resetReq) /\ Bail
     \/ /\ ~flags.over /\ ~resetReq
        /\ pc' = "blobwrite"
        /\ job' = [job EXCEPT !.left = PartLen]
        /\ UNCHANGED <<isrVars, cellVars, conVars, fifo, flags, serial, cur, hostVars>>

BlobWrite ==
  /\ pc = "blobwrite"
  /\ \/ /\ job.left = 0
        /\ pc' = "blobdrain"
        /\ UNCHANGED <<isrVars, cellVars, conVars, fifo, flags, job, serial, cur, hostVars>>
     \/ job.left > 0 /\ Room /\ AppendByte
     \/ job.left > 0 /\ ~Room /\ resetReq /\ Bail
     \/ /\ job.left > 0 /\ ~Room /\ ~resetReq
        /\ Publish("blobwrite") \/ GiveUp("drain")

DeliveredWhenEmpty == fifo = <<>>
(* Fully received: the FIFO is empty and the last byte acknowledged. *)
Delivered == fifo = <<>> /\ unacked = 0

BlobDrain ==
  /\ pc = "blobdrain"
  /\ \/ /\ Delivered
        /\ pc' = "sent"
        /\ UNCHANGED <<isrVars, cellVars, conVars, fifo, flags, job, serial, cur, hostVars>>
     \/ ~Delivered /\ resetReq /\ Bail
     \/ ~Delivered /\ ~resetReq /\ (Publish("blobdrain") \/ GiveUp("drain"))

(* The part has returned true: the next one, or back to the ring. *)
BlobSent ==
  /\ pc = "sent"
  /\ pc' = IF job.parts > 1 THEN "blob" ELSE "drain"
  /\ job' = [job EXCEPT !.parts = IF @ > 1 THEN @ - 1 ELSE 0]
  /\ UNCHANGED <<isrVars, cellVars, conVars, fifo, flags, serial, cur, hostVars>>

-----------------------------------------------------------------------------
(* Core 0: mgmt_chan_take_reset, at the top of every poll. *)

PollBegin ==
  /\ At("poll", IF resetReq THEN "rebase" ELSE "branch")
  /\ UNCHANGED <<isrVars, cellVars, conVars, fifo, flags, job, serial, cur, hostVars>>

RebaseKeepsAck ==
  /\ At("rebase", "flush")
  /\ fifo' = <<>>
  /\ serial' = 0
  /\ UNCHANGED <<isrVars, cellVars, conVars, flags, job, cur, hostVars>>

Rebase ==
  /\ At("rebase", "flush")
  /\ fifo' = <<>>
  /\ serial' = 0
  /\ unacked' = 0
  /\ UNCHANGED <<cmd, dropped, echo, resetReq, cellVars, conVars, flags, job, cur, hostVars>>

Flush ==
  /\ At("flush", "clear")
  /\ cmd' = <<>>
  /\ dropped' = FALSE
  /\ flags' = [flags EXCEPT !.over = FALSE, !.full = FALSE, !.ready = FALSE]
  /\ UNCHANGED <<echo, resetReq, unacked, cellVars, conVars, fifo, job, serial, cur, hostVars>>

Clear ==
  /\ At("clear", "show")
  /\ resetReq' = FALSE
  /\ UNCHANGED <<cmd, dropped, echo, unacked, cellVars, conVars, fifo, flags, job, serial, cur, hostVars>>

Show ==
  /\ At("show", "rearm")
  /\ status' = flags
  /\ UNCHANGED <<isrVars, resp, conVars, fifo, flags, job, serial, cur, hostVars>>

RearmKeepsLine ==
  /\ At("rearm", "branch")
  /\ echo' = "rearmed"
  /\ menu' = IF menu = "via" THEN "none" ELSE menu
  /\ wasMenu' = FALSE
  /\ UNCHANGED <<cmd, dropped, resetReq, unacked, cellVars, line, dirty, fifo, flags, job, serial, cur, hostVars>>

(* The echo says that the flush has run; the session's own state goes next. *)
Rearm ==
  /\ At("rearm", "branch")
  /\ echo' = "rearmed"
  /\ line' = <<>>
  /\ menu' = IF menu = "via" THEN "none" ELSE menu
  /\ wasMenu' = FALSE
  /\ UNCHANGED <<cmd, dropped, resetReq, unacked, cellVars, dirty, fifo, flags, job, serial, cur, hostVars>>

-----------------------------------------------------------------------------
(* Core 0: mgmt_con_poll. *)

Branch ==
  /\ pc = "branch"
  /\ \/ /\ menu = "via"
        /\ pc' = "feed"
        /\ UNCHANGED <<job, line, wasMenu>>
     \/ /\ menu # "via" /\ wasMenu
        /\ wasMenu' = FALSE
        /\ line' = <<>>
        /\ Write(1, "drain")
     \/ /\ menu # "via" /\ ~wasMenu
        /\ pc' = "drain"
        /\ UNCHANGED <<job, line, wasMenu>>
  /\ UNCHANGED <<isrVars, cellVars, menu, dirty, fifo, flags, serial, cur, hostVars>>

(* mgmt_chan_cmd_pop *)
Pop ==
  /\ cmd # <<>>
  /\ cmd' = Tail(cmd)
  /\ cur' = Head(cmd).s
  /\ UNCHANGED <<dropped, echo, resetReq, unacked, cellVars, fifo, flags, serial, hostVars>>

(* The menu owns the channel: bytes are keys; one of them may close the menu. *)
FeedMenu ==
  /\ pc = "feed"
  /\ \/ /\ Pop
        /\ \/ /\ menu = "via"
              /\ menu' = "none"
              /\ Write(1, "feed")
              /\ UNCHANGED dirty
           \/ /\ dirty' = TRUE
              /\ UNCHANGED <<menu, pc, job>>
     \/ /\ cmd = <<>>
        /\ pc' = "paint"
        /\ UNCHANGED <<isrVars, cellVars, menu, dirty, fifo, flags, job, serial, cur, hostVars>>
  /\ UNCHANGED <<line, wasMenu>>

(* One frame: only what differs is sent.  The poll then times out a pending ESC,
   which may close the menu. *)
PaintMenu ==
  /\ pc = "paint"
  /\ wasMenu' = TRUE
  /\ \/ /\ menu' = menu
        /\ dirty' = (dirty /\ menu # "via")
        /\ Write(IF menu = "via" /\ dirty THEN 1 ELSE 0, "pump")
     \/ /\ menu = "via"
        /\ menu' = "none"
        /\ Write(1, "pump")
        /\ UNCHANGED dirty
  /\ UNCHANGED <<isrVars, cellVars, line, fifo, flags, serial, cur, hostVars>>

Typed(b) ==
  /\ b.kind = "char"
  /\ \/ /\ Len(line) < LineCap
        /\ line' = Append(line, b.s)
        /\ Write(1, "drain")
     \/ /\ Len(line) >= LineCap
        /\ UNCHANGED <<line, pc, job>>
  /\ UNCHANGED <<menu, dirty>>

(* Enter runs the line: a reply; or the menu command, which may find the menu
   taken by the USB console. *)
Entered(b) ==
  /\ b.kind = "cr"
  /\ line' = <<>>
  /\ \/ /\ \E n \in 1 .. MaxReply : Write(n, "drain")
        /\ UNCHANGED <<menu, dirty>>
     \/ /\ line # <<>> /\ menu = "none"
        /\ menu' = "via"
        /\ dirty' = TRUE
        /\ Write(1, "pump")
     \/ /\ line # <<>> /\ menu = "cdc"
        /\ Write(2, "drain")
        /\ UNCHANGED <<menu, dirty>>

Download(b) ==
  /\ b.kind = "blob"
  /\ pc' = "blob"
  /\ job' = [job EXCEPT !.parts = 3]
  /\ UNCHANGED <<line, menu, dirty>>

Ignored(b) ==
  /\ b.kind = "noise"
  /\ UNCHANGED <<line, menu, dirty, pc, job>>

DrainRing ==
  /\ pc = "drain"
  /\ \/ /\ Pop
        /\ LET b == Head(cmd) IN Typed(b) \/ Entered(b) \/ Download(b) \/ Ignored(b)
     \/ /\ cmd = <<>>
        /\ pc' = "pump"
        /\ UNCHANGED <<isrVars, cellVars, line, menu, dirty, fifo, flags, job, serial, cur, hostVars>>
  /\ UNCHANGED wasMenu

(* mgmt_chan_pump: CMD_FULL from the drop counter, then a burst of bytes, each
   given a bounded time to be acknowledged, then the status. *)
PumpBegin ==
  /\ At("pump", "burst")
  /\ flags' = [flags EXCEPT !.full = (@ \/ dropped) /\ cmd # <<>>]
  /\ dropped' = FALSE
  /\ UNCHANGED <<cmd, echo, resetReq, unacked, cellVars, conVars, fifo, job, serial, cur, hostVars>>

PumpBurst ==
  /\ pc = "burst"
  /\ \/ Publish("spin")
     \/ /\ unacked # 0 \/ (fifo = <<>> /\ ~flags.ready)
        /\ pc' = IF unacked # 0 THEN "spin" ELSE "store"
        /\ UNCHANGED <<isrVars, cellVars, conVars, fifo, flags, job, serial, cur, hostVars>>

PumpSpin ==
  /\ pc = "spin"
  /\ pc' \in {"store"} \cup IF unacked = 0 THEN {"burst"} ELSE {}
  /\ UNCHANGED <<isrVars, cellVars, conVars, fifo, flags, job, serial, cur, hostVars>>

PumpEnd ==
  /\ At("store", "main")
  /\ status' = flags
  /\ UNCHANGED <<isrVars, resp, conVars, fifo, flags, job, serial, cur, hostVars>>

(* The rest of the main loop: the USB console may open or close its own menu. *)
MainLoop ==
  /\ At("main", "poll")
  /\ menu' \in IF menu = "via" THEN {"via"} ELSE {"none", "cdc"}
  /\ UNCHANGED <<isrVars, cellVars, line, wasMenu, dirty, fifo, flags, job, serial, cur, hostVars>>

Core0 ==
  \/ Announce \/ RespWrite \/ BlobBegin \/ BlobWrite \/ BlobDrain \/ BlobSent
  \/ PollBegin \/ Rebase \/ Flush \/ Clear \/ Show \/ Rearm
  \/ Branch \/ FeedMenu \/ PaintMenu \/ DrainRing
  \/ PumpBegin \/ PumpBurst \/ PumpSpin \/ PumpEnd \/ MainLoop

-----------------------------------------------------------------------------
Init ==
  /\ cmd = <<>> /\ dropped = FALSE /\ echo = "rearmed" /\ resetReq = FALSE /\ unacked = 0
  /\ flags = [over |-> FALSE, full |-> FALSE, ready |-> FALSE, phase |-> FALSE]
  /\ status = flags /\ resp = NoByte
  /\ line = <<>> /\ menu = "none" /\ wasMenu = FALSE /\ dirty = FALSE
  /\ fifo = <<>> /\ pc = "poll" /\ serial = 0 /\ cur = 0
  /\ job = [left |-> 0, ret |-> "drain", back |-> "drain", parts |-> 0]
  /\ hp = "off" /\ last = FALSE /\ grabbed = NoByte /\ starting = TRUE
  /\ next = 1 /\ sess = 0 /\ keys = 0

Next == Host \/ Core0

Spec == Init /\ [][Next]_vars

(* Core 0's main loop never blocks for good: every spin is bounded.  The host
   program keeps polling as long as it runs. *)
FairSpec == Spec /\ WF_vars(Core0) /\ WF_vars(HostProgress)

-----------------------------------------------------------------------------
HostPoints ==
  {"off", "probe", "check", "probe2", "check2", "undetected", "reset", "settle",
   "phase", "cr", "loop", "grab", "ack", "more"}
CorePoints ==
  {"poll", "rebase", "flush", "clear", "show", "rearm", "branch", "feed", "paint",
   "drain", "write", "announce", "blob", "blobwrite", "blobdrain", "sent", "pump",
   "burst", "spin", "store", "main"}
Flags == [over : BOOLEAN, full : BOOLEAN, ready : BOOLEAN, phase : BOOLEAN]

(* Type invariant: in particular both rings and the line stay inside their
   buffers. *)
TypeOK ==
  /\ cmd \in Seq(CmdByte) /\ Len(cmd) < CmdSize
  /\ dropped \in BOOLEAN /\ resetReq \in BOOLEAN
  /\ echo \in Kinds \cup {"rearmed"}
  /\ unacked \in Int
  /\ status \in Flags /\ flags \in Flags
  /\ resp \in RespByte /\ grabbed \in RespByte
  /\ fifo \in Seq(RespByte) /\ Len(fifo) < RespSize
  /\ line \in Seq(Session) /\ Len(line) <= LineCap
  /\ menu \in {"none", "cdc", "via"} /\ wasMenu \in BOOLEAN /\ dirty \in BOOLEAN
  /\ pc \in CorePoints
  /\ job \in [left : Nat, ret : CorePoints, back : CorePoints, parts : 0 .. 3]
  /\ serial \in Nat /\ cur \in Session
  /\ hp \in HostPoints
  /\ last \in BOOLEAN /\ starting \in BOOLEAN
  /\ next \in Nat \ {0} /\ sess \in Session /\ keys \in 0 .. MaxKeys

(* The host receives what core 0 wrote for its own session, in order, without
   loss or repetition: a byte it acknowledges is the next one (publish, "byte
   visible before status"; RESP_PHASE tells a new byte from a reread). *)
InOrder == hp = "ack" => grabbed = [s |-> sess, n |-> next]

(* Served and acknowledged bytes stay balanced: at most one byte is outstanding,
   and then the host can see it ("resync the ack baseline", take_reset).  Any other
   difference is never made up: publish would wait for ever. *)
AckIsDue == unacked # 0 => unacked = 1 /\ status.ready

(* A session starts on a silent channel: between the re-armed echo and the first
   byte of the host nothing is sent ("reset-abort: no unsolicited prompt").  And the
   line being typed belongs to the session of the byte taken last: what an earlier
   session, or the detection probe, left in the line engine never becomes part of a
   command ("A channel reset must also drop the half-typed line").  Nor is anything
   of the new session lost: the flush takes only what was sent before the reset was
   asked for ("sending input before the flush has run would get it eaten",
   session_settle). *)
CleanSession ==
  /\ hp \in {"phase", "cr"} => fifo = <<>> /\ ~status.ready /\ pc # "announce"
  /\ pc = "drain" => \A i \in 1 .. Len(line) : line[i] = cur
  /\ pc = "flush" => \A i \in 1 .. Len(cmd) : cmd[i].s < sess

(* When a part of a download has been sent, the host has acknowledged all of it
   (mgmt_chan_blob_send: "block until the Victor has fully received them"). *)
BlobDelivered == pc = "sent" /\ ~resetReq => next = serial + 1

(* Host and core 0 never wait for each other: a host that waits for its reset gets on,
   whatever core 0 was sending at the time and to whomever; and a reply reaches a host
   that keeps polling, or the host is told of an overflow. *)
HostGetsOn ==
  /\ hp = "settle" ~> hp \in {"phase", "off"}
  /\ (fifo # <<>> /\ hp = "loop") ~> (fifo = <<>> \/ hp = "off" \/ status.over)
=============================================================================
