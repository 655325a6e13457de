--------------------------- MODULE MgmtChanProofs ---------------------------
(***************************************************************************)
(* Proofs about the management channel, for every size of its rings and    *)
(* any number of sessions, keys and bytes of a reply, with a host that     *)
(* waits for its reset (Impatient = FALSE): the bytes arrive in order,     *)
(* acknowledges stay balanced, and a session starts on a silent channel.   *)
(***************************************************************************)
EXTENDS MgmtChan, SequenceTheorems, TLAPS

-----------------------------------------------------------------------------
(* The invariant. *)

Resetting == {"rebase", "flush", "clear", "show", "rearm"}
Quiet == {"poll", "branch", "drain", "pump", "burst", "spin", "store", "main"}

(* A reset that core 0 has not finished. *)
Pending == resetReq \/ pc \in Resetting

(* The session core 0 works for. *)
Epoch == IF Pending THEN sess - 1 ELSE sess

(* Bytes handed out and not acknowledged. *)
Out == unacked + (IF pc = "announce" THEN 1 ELSE 0)

(* Where a finished reply, or an announced byte, lets core 0 go on. *)
Returns == {"drain", "feed", "pump"}
Resumes == {"write", "blobwrite", "blobdrain", "spin", "drain"}
Jobs == [left : Nat, ret : Returns, back : Resumes, parts : 0 .. 3]

Types == TypeOK /\ job \in Jobs

(* The host waits while its reset is pending, or has been rebooted, and the echo tells it
   when it is done. *)
Handshake ==
  /\ Pending => hp \in {"settle", "off"} /\ echo # "rearmed" /\ next = 1 /\ sess > 0
  /\ pc \in {"rebase", "flush", "clear"} => resetReq
  /\ pc \in {"show", "rearm"} => ~resetReq
  /\ hp = "settle" => Pending \/ echo = "rearmed"
  /\ hp \in {"phase", "cr"} => echo = "rearmed"
  /\ hp = "reset" => echo # "rearmed"

(* What a reset has done at each of its steps ... *)
Progress ==
  /\ pc \in {"flush", "clear", "show", "rearm"} => fifo = <<>> /\ unacked = 0 /\ serial = 0
  /\ pc \in {"clear", "show", "rearm"} => cmd = <<>> /\ ~flags.over /\ ~flags.ready
  /\ pc = "rearm" => ~status.over /\ ~status.ready

(* ... and what it leaves, until the host sends something. *)
Silence == echo = "rearmed" =>
  /\ cmd = <<>> /\ fifo = <<>> /\ unacked = 0 /\ serial = 0 /\ line = <<>>
  /\ ~flags.ready /\ ~status.ready /\ ~flags.over /\ ~status.over
  /\ pc \in Quiet /\ menu # "via" /\ ~wasMenu

(* Both sides agree on whether a byte is outstanding. *)
Balance ==
  /\ unacked \in {0, 1} /\ (pc = "announce" => unacked = 0)
  /\ unacked = 1 => flags.ready /\ status.ready
  /\ status.phase = flags.phase
  /\ hp \in {"grab", "ack"} => unacked = 1 /\ status.phase # last
  /\ hp \in {"loop", "more"} => (unacked = 1 <=> status.phase # last)
  /\ hp = "cr" => status.phase = last

(* Where each byte of the session is. *)
Numbered == ~Pending =>
  /\ serial = next - 1 + Out + Len(fifo)
  /\ \A i \in 1 .. Len(fifo) : fifo[i] = [s |-> sess, n |-> next - 1 + Out + i]
  /\ Out = 1 => resp = [s |-> sess, n |-> next]
  /\ hp = "ack" => grabbed = [s |-> sess, n |-> next]

(* What core 0 works on belongs to one session, or core 0 has nothing to do. *)
Epochs ==
  /\ \A i \in 1 .. Len(cmd) : cmd[i].s = Epoch
  /\ \A i \in 1 .. Len(line) : line[i] = Epoch
  /\ \/ cur = Epoch
     \/ /\ pc \in Quiet \cup Resetting
        /\ line = <<>> /\ fifo = <<>> /\ menu # "via" /\ ~wasMenu

Sent == pc = "sent" => Delivered

ChannelInv == Types /\ Handshake /\ Progress /\ Silence /\ Balance /\ Numbered /\ Epochs /\ Sent

-----------------------------------------------------------------------------
(* Facts about sequences. *)

LEMMA TailFacts ==
  ASSUME NEW S, NEW s \in Seq(S), s # <<>>
  PROVE  /\ Len(s) \in Nat /\ Len(s) > 0
         /\ Head(s) \in S /\ Head(s) = s[1]
         /\ Tail(s) \in Seq(S) /\ Len(Tail(s)) = Len(s) - 1
         /\ \A i \in 1 .. Len(Tail(s)) : Tail(s)[i] = s[i + 1]
OBVIOUS

LEMMA AppendFacts ==
  ASSUME NEW S, NEW s \in Seq(S), NEW e \in S
  PROVE  /\ Len(s) \in Nat
         /\ Append(s, e) \in Seq(S) /\ Len(Append(s, e)) = Len(s) + 1
         /\ \A i \in 1 .. Len(s) : Append(s, e)[i] = s[i]
         /\ Append(s, e)[Len(s) + 1] = e
         /\ Append(s, e) # <<>>
OBVIOUS

LEMMA EmptyFacts ==
  ASSUME NEW S
  PROVE  <<>> \in Seq(S) /\ Len(<<>>) = 0
OBVIOUS

-----------------------------------------------------------------------------
(* Steps of core 0 that change no shared data. *)

(* Control points outside a reset and before or after a publication. *)
Plain == CorePoints \ (Resetting \cup {"announce"})

(* Core 0 has nothing to do for any session. *)
Idle == pc \in Quiet /\ menu # "via" /\ ~wasMenu

(* Whatever core 0 goes on to do, it keeps the invariant as long as it touches
   neither the rings, the line nor the cells, and an idle poll stays idle. *)
LEMMA MoveKeeps ==
  ASSUME ChannelInv,
         UNCHANGED <<isrVars, cellVars, line, fifo, flags, serial, cur, hostVars>>,
         pc \in Plain, pc' \in Plain, pc' = "sent" => Delivered,
         job' \in Jobs,
         menu' \in {"none", "cdc", "via"}, wasMenu' \in BOOLEAN, dirty' \in BOOLEAN,
         Idle => Idle'
  PROVE  ChannelInv'
<1> USE DEF isrVars, cellVars, hostVars
<1>0. /\ Types /\ Handshake /\ Progress /\ Silence /\ Balance /\ Numbered /\ Epochs /\ Sent
  BY DEF ChannelInv
<1>a. pc \notin Resetting /\ pc' \notin Resetting /\ pc # "announce" /\ pc' # "announce"
  BY DEF Plain
<1>b. Pending' = Pending /\ Epoch' = Epoch /\ Out' = Out
  BY <1>a DEF Pending, Epoch, Out
<1>1. Types'
  BY <1>0 DEF Types, TypeOK, Jobs, Plain, Returns, Resumes, CorePoints
<1>2. Handshake'
  BY <1>0, <1>a, <1>b DEF Handshake, Resetting
<1>3. Progress'
  BY <1>a DEF Progress, Resetting
<1>4. Silence'
  BY <1>0 DEF Silence, Idle
<1>5. Balance'
  BY <1>0, <1>a DEF Balance
<1>6. Numbered'
  BY <1>0, <1>b DEF Numbered
<1>7. Epochs'
  BY <1>0, <1>a, <1>b DEF Epochs, Idle
<1>8. Sent'
  BY <1>0 DEF Sent, Delivered
<1> QED BY <1>1, <1>2, <1>3, <1>4, <1>5, <1>6, <1>7, <1>8 DEF ChannelInv

(* Taking a command byte: core 0 works for its session from now on. *)
LEMMA PopKeeps ==
  ASSUME ChannelInv, Pop,
         pc \in Plain, pc' \in Plain \ {"sent"},
         job' \in Jobs,
         menu' \in {"none", "cdc", "via"}, wasMenu' \in BOOLEAN, dirty' \in BOOLEAN,
         line' \in Seq(Session), Len(line') <= LineCap,
         \A i \in 1 .. Len(line') : line'[i] = Head(cmd).s
  PROVE  ChannelInv'
<1> USE DEF cellVars, hostVars
<1>0. /\ Types /\ Handshake /\ Progress /\ Silence /\ Balance /\ Numbered /\ Epochs /\ Sent
  BY DEF ChannelInv
<1>p. /\ cmd # <<>> /\ cmd' = Tail(cmd) /\ cur' = Head(cmd).s
      /\ UNCHANGED <<dropped, echo, resetReq, unacked, status, resp, fifo, flags, serial,
                     hp, last, grabbed, starting, next, sess, keys>>
  BY DEF Pop
<1>a. pc \notin Resetting /\ pc' \notin Resetting /\ pc # "announce" /\ pc' # "announce"
  BY DEF Plain
<1>b. Pending' = Pending /\ Epoch' = Epoch /\ Out' = Out
  BY <1>a, <1>p DEF Pending, Epoch, Out
<1>c. cmd \in Seq(CmdByte)
  BY <1>0 DEF Types, TypeOK
<1>d. /\ Len(cmd) \in Nat /\ Len(cmd) > 0
      /\ Head(cmd) \in CmdByte /\ Head(cmd) = cmd[1]
      /\ cmd' \in Seq(CmdByte) /\ Len(cmd') = Len(cmd) - 1
      /\ \A i \in 1 .. Len(cmd') : cmd'[i] = cmd[i + 1]
  BY <1>c, <1>p, TailFacts
<1>e. Head(cmd).s = Epoch /\ \A i \in 1 .. Len(cmd') : cmd'[i].s = Epoch
  BY <1>0, <1>d DEF Epochs
<1>1. Types'
  <2>1. cur' \in Session
    BY <1>d, <1>p DEF CmdByte
  <2>2. Len(cmd') < CmdSize
    BY <1>0, <1>d, ChannelAssumption DEF Types, TypeOK
  <2> QED BY <1>0, <1>p, <1>d, <2>1, <2>2 DEF Types, TypeOK, Jobs, Plain, Returns, Resumes, CorePoints
<1>2. Handshake'
  BY <1>0, <1>p, <1>a, <1>b DEF Handshake, Resetting
<1>3. Progress'
  BY <1>a DEF Progress, Resetting
<1>4. Silence'
  BY <1>0, <1>p DEF Silence
<1>5. Balance'
  BY <1>0, <1>p, <1>a DEF Balance
<1>6. Numbered'
  BY <1>0, <1>p, <1>b DEF Numbered
<1>7. Epochs'
  BY <1>0, <1>p, <1>a, <1>b, <1>e DEF Epochs
<1>8. Sent'
  BY DEF Sent
<1> QED BY <1>1, <1>2, <1>3, <1>4, <1>5, <1>6, <1>7, <1>8 DEF ChannelInv

-----------------------------------------------------------------------------
(* Steps of core 0 that publish or write. *)

(* mgmt_chan_publish, called where core 0 goes on at q. *)
LEMMA PublishKeeps ==
  ASSUME ChannelInv, NEW q \in Resumes, Publish(q),
         pc \in Plain, pc \in Quiet => q \in Quiet
  PROVE  ChannelInv'
<1> USE DEF isrVars, conVars, hostVars
<1>0. /\ Types /\ Handshake /\ Progress /\ Silence /\ Balance /\ Numbered /\ Epochs /\ Sent
  BY DEF ChannelInv
<1>a. /\ unacked = 0
      /\ UNCHANGED <<cmd, dropped, echo, resetReq, unacked, line, menu, wasMenu, dirty, serial, cur,
                     hp, last, grabbed, starting, next, sess, keys>>
      /\ pc \notin Resetting /\ pc # "announce" /\ pc \in CorePoints
  BY DEF Publish, Plain
<1>b. fifo \in Seq(RespByte)
  BY <1>0 DEF Types, TypeOK
<1>1. CASE /\ fifo # <<>> /\ resp' = Head(fifo) /\ fifo' = Tail(fifo) /\ pc' = "announce"
           /\ job' = [job EXCEPT !.back = q] /\ UNCHANGED <<status, flags>>
  <2>b. /\ Pending' = Pending /\ Epoch' = Epoch
        /\ Out = 0 /\ Out' = 1
    BY <1>1, <1>a DEF Pending, Epoch, Out, Resetting
  <2>c. /\ Len(fifo) \in Nat /\ Len(fifo) > 0
        /\ Head(fifo) \in RespByte /\ Head(fifo) = fifo[1]
        /\ fifo' \in Seq(RespByte) /\ Len(fifo') = Len(fifo) - 1
        /\ \A i \in 1 .. Len(fifo') : fifo'[i] = fifo[i + 1]
    BY <1>1, <1>b, TailFacts
  <2>d. echo # "rearmed"
    BY <1>0, <1>1 DEF Silence
  <2>e. next \in Nat \ {0} /\ serial \in Nat
    BY <1>0 DEF Types, TypeOK
  <2>1. Types'
    <3>1. Len(fifo') < RespSize
      BY <1>0, <2>c, ChannelAssumption DEF Types, TypeOK
    <3>2. job' \in Jobs
      BY <1>0, <1>1 DEF Types, Jobs
    <3>3. job' \in [left : Nat, ret : CorePoints, back : CorePoints, parts : 0 .. 3]
      BY <3>2 DEF Jobs, Returns, Resumes, CorePoints
    <3> QED BY <1>0, <1>1, <1>a, <2>c, <3>1, <3>2, <3>3 DEF Types, TypeOK, CorePoints
  <2>2. Handshake'
    BY <1>0, <1>1, <1>a, <2>b DEF Handshake
  <2>3. Progress'
    BY <1>1 DEF Progress
  <2>4. Silence'
    BY <1>a, <2>d DEF Silence
  <2>5. Balance'
    BY <1>0, <1>1, <1>a DEF Balance
  <2>6. Numbered'
    <3> SUFFICES ASSUME ~Pending PROVE Numbered!2'
      BY <2>b DEF Numbered
    <3>1. serial' = next' - 1 + Out' + Len(fifo')
      BY <1>0, <1>a, <2>b, <2>c, <2>e DEF Numbered
    <3>2. \A i \in 1 .. Len(fifo') : fifo'[i] = [s |-> sess', n |-> next' - 1 + Out' + i]
      <4> SUFFICES ASSUME NEW i \in 1 .. Len(fifo')
                   PROVE  fifo'[i] = [s |-> sess', n |-> next' - 1 + Out' + i]
        OBVIOUS
      <4>1. fifo'[i] = fifo[i + 1] /\ i + 1 \in 1 .. Len(fifo)
        BY <2>c
      <4>2. fifo[i + 1] = [s |-> sess, n |-> next - 1 + Out + (i + 1)]
        BY <1>0, <4>1 DEF Numbered
      <4>3. next - 1 + Out + (i + 1) = next - 1 + 1 + i
        BY <2>b, <2>e, <2>c
      <4> QED BY <1>a, <2>b, <4>1, <4>2, <4>3
    <3>3. resp' = [s |-> sess, n |-> next]
      <4>1. fifo[1] = [s |-> sess, n |-> next - 1 + Out + 1]
        BY <1>0, <2>c DEF Numbered
      <4>2. next - 1 + Out + 1 = next
        BY <2>b, <2>e
      <4> QED BY <1>1, <2>c, <4>1, <4>2
    <3>4. hp' = "ack" => FALSE
      BY <1>0, <1>a DEF Balance
    <3> QED BY <1>a, <3>1, <3>2, <3>3, <3>4
  <2>7. Epochs'
    BY <1>0, <1>1, <1>a, <2>b DEF Epochs
  <2>8. Sent'
    BY <1>1 DEF Sent
  <2> QED BY <2>1, <2>2, <2>3, <2>4, <2>5, <2>6, <2>7, <2>8 DEF ChannelInv
<1>2. CASE /\ fifo = <<>> /\ flags.ready
           /\ flags' = [flags EXCEPT !.ready = FALSE] /\ status' = flags'
           /\ pc' = q /\ UNCHANGED <<resp, fifo, job>>
  <2>a. /\ q \in CorePoints /\ q \notin Resetting /\ q # "announce" /\ q # "sent"
    BY DEF Resumes, Resetting, CorePoints
  <2>b. Pending' = Pending /\ Epoch' = Epoch /\ Out' = Out
    BY <1>2, <1>a, <2>a DEF Pending, Epoch, Out
  <2>c. flags' \in Flags /\ flags'.phase = flags.phase /\ flags'.over = flags.over
    BY <1>0, <1>2 DEF Types, TypeOK, Flags
  <2>d. echo # "rearmed"
    BY <1>0, <1>2 DEF Silence
  <2>1. Types'
    BY <1>0, <1>2, <1>a, <2>a, <2>c DEF Types, TypeOK
  <2>2. Handshake'
    BY <1>0, <1>2, <1>a, <2>a, <2>b DEF Handshake, Resetting
  <2>3. Progress'
    BY <1>2, <2>a DEF Progress, Resetting
  <2>4. Silence'
    BY <1>a, <2>d DEF Silence
  <2>5. Balance'
    BY <1>0, <1>2, <1>a, <2>a, <2>c DEF Balance
  <2>6. Numbered'
    BY <1>0, <1>2, <1>a, <2>b DEF Numbered
  <2>7. Epochs'
    BY <1>0, <1>2, <1>a, <2>a, <2>b DEF Epochs
  <2>8. Sent'
    BY <1>2, <2>a DEF Sent
  <2> QED BY <2>1, <2>2, <2>3, <2>4, <2>5, <2>6, <2>7, <2>8 DEF ChannelInv
<1> QED BY <1>1, <1>2 DEF Publish

(* The status that announces a byte: one byte is out, and the phase says so. *)
LEMMA AnnounceKeeps ==
  ASSUME ChannelInv, Announce
  PROVE  ChannelInv'
<1> USE DEF conVars, hostVars
<1>0. /\ Types /\ Handshake /\ Progress /\ Silence /\ Balance /\ Numbered /\ Epochs /\ Sent
  BY DEF ChannelInv
<1>a. /\ pc = "announce" /\ pc' = job.back
      /\ flags' = [flags EXCEPT !.ready = TRUE, !.phase = ~@] /\ status' = flags'
      /\ unacked' = unacked + 1 /\ job' = [job EXCEPT !.back = "drain"]
      /\ UNCHANGED <<cmd, dropped, echo, resetReq, resp, fifo, serial, cur, line, menu, wasMenu, dirty,
                     hp, last, grabbed, starting, next, sess, keys>>
  BY DEF Announce, At, Done
<1>b. unacked = 0 /\ unacked' = 1
  BY <1>0, <1>a DEF Balance
<1>c. job' \in Jobs /\ pc' \in Resumes
  BY <1>0, <1>a DEF Types, Jobs, Resumes
<1>d. pc' \in CorePoints /\ pc' \notin Resetting /\ pc' # "announce" /\ pc' # "sent"
  BY <1>c DEF Resumes, CorePoints, Resetting
<1>e. Pending' = Pending /\ Epoch' = Epoch /\ Out = 1 /\ Out' = 1
  BY <1>a, <1>b, <1>d DEF Pending, Epoch, Out, Resetting
<1>f. /\ flags \in Flags /\ flags' \in Flags /\ flags'.ready = TRUE
      /\ flags'.phase = ~flags.phase /\ flags'.over = flags.over
  BY <1>0, <1>a DEF Types, TypeOK, Flags
<1>g. echo # "rearmed"
  BY <1>0, <1>a DEF Silence, Quiet
<1>1. Types'
  <2>1. job' \in [left : Nat, ret : CorePoints, back : CorePoints, parts : 0 .. 3]
    BY <1>c DEF Jobs, Returns, Resumes, CorePoints
  <2> QED BY <1>0, <1>a, <1>b, <1>c, <1>d, <1>f, <2>1 DEF Types, TypeOK
<1>2. Handshake'
  BY <1>0, <1>a, <1>d, <1>e DEF Handshake, Resetting
<1>3. Progress'
  BY <1>d DEF Progress, Resetting
<1>4. Silence'
  BY <1>a, <1>g DEF Silence
<1>5. Balance'
  <2>1. hp \notin {"grab", "ack"} /\ (hp \in {"loop", "more"} => status.phase = last)
    <3>1. last \in BOOLEAN /\ status.phase \in BOOLEAN
      BY <1>0 DEF Types, TypeOK, Flags
    <3> QED BY <1>0, <1>b, <3>1 DEF Balance
  <2>2. hp # "cr"
    BY <1>0, <1>g DEF Handshake
  <2>3. status.phase = flags.phase
    BY <1>0 DEF Balance
  <2>4. flags.phase \in BOOLEAN
    BY <1>f DEF Flags
  <2>5. status'.phase # status.phase
    BY <1>a, <1>f, <2>3, <2>4
  <2> QED BY <1>a, <1>b, <1>d, <1>f, <2>1, <2>2, <2>5 DEF Balance
<1>6. Numbered'
  BY <1>0, <1>a, <1>e DEF Numbered
<1>7. Epochs'
  BY <1>0, <1>a, <1>e DEF Epochs, Quiet, Resetting
<1>8. Sent'
  BY <1>d DEF Sent
<1> QED BY <1>1, <1>2, <1>3, <1>4, <1>5, <1>6, <1>7, <1>8 DEF ChannelInv

(* The next byte of what core 0 is writing. *)
LEMMA AppendKeeps ==
  ASSUME ChannelInv, AppendByte, Room, pc \in {"write", "blobwrite"}, job.left > 0
  PROVE  ChannelInv'
<1> USE DEF isrVars, cellVars, conVars, hostVars
<1>0. /\ Types /\ Handshake /\ Progress /\ Silence /\ Balance /\ Numbered /\ Epochs /\ Sent
  BY DEF ChannelInv
<1>a. /\ fifo' = Append(fifo, [s |-> cur, n |-> serial + 1]) /\ serial' = serial + 1
      /\ job' = [job EXCEPT !.left = @ - 1]
      /\ UNCHANGED <<cmd, dropped, echo, resetReq, unacked, status, resp, line, menu, wasMenu, dirty, flags,
                     pc, cur, hp, last, grabbed, starting, next, sess, keys>>
  BY DEF AppendByte
<1>b. Pending' = Pending /\ Epoch' = Epoch /\ Out' = Out /\ Out \in {0, 1}
  BY <1>0, <1>a DEF Pending, Epoch, Out, Balance
<1>c. cur = Epoch /\ echo # "rearmed"
  BY <1>0 DEF Epochs, Silence, Quiet, Resetting
<1>d. /\ fifo \in Seq(RespByte) /\ serial \in Nat /\ next \in Nat \ {0}
      /\ [s |-> cur, n |-> serial + 1] \in RespByte
  BY <1>0 DEF Types, TypeOK, RespByte
<1>e. /\ Len(fifo) \in Nat
      /\ fifo' \in Seq(RespByte) /\ Len(fifo') = Len(fifo) + 1
      /\ \A i \in 1 .. Len(fifo) : fifo'[i] = fifo[i]
      /\ fifo'[Len(fifo) + 1] = [s |-> cur, n |-> serial + 1]
  BY <1>a, <1>d, AppendFacts
<1>1. Types'
  <2>1. Len(fifo') < RespSize
    BY <1>e, ChannelAssumption DEF Room
  <2>2. job' \in Jobs
    BY <1>0, <1>a DEF Types, Jobs
  <2>3. job' \in [left : Nat, ret : CorePoints, back : CorePoints, parts : 0 .. 3]
    BY <2>2 DEF Jobs, Returns, Resumes, CorePoints
  <2> QED BY <1>0, <1>a, <1>d, <1>e, <2>1, <2>2, <2>3 DEF Types, TypeOK
<1>2. Handshake'
  BY <1>0, <1>a, <1>b DEF Handshake
<1>3. Progress'
  BY <1>a DEF Progress
<1>4. Silence'
  BY <1>a, <1>c DEF Silence
<1>5. Balance'
  BY <1>0, <1>a DEF Balance
<1>6. Numbered'
  <2> SUFFICES ASSUME ~Pending PROVE Numbered!2'
    BY <1>b DEF Numbered
  <2>1. cur = sess
    BY <1>c DEF Epoch
  <2>2. serial = next - 1 + Out + Len(fifo)
    BY <1>0 DEF Numbered
  <2>3. serial' = next' - 1 + Out' + Len(fifo')
    <3>1. serial + 1 = next - 1 + Out + (Len(fifo) + 1)
      BY <1>b, <1>d, <1>e, <2>2
    <3> QED BY <1>a, <1>b, <1>e, <3>1
  <2>4. \A i \in 1 .. Len(fifo') : fifo'[i] = [s |-> sess', n |-> next' - 1 + Out' + i]
    <3> SUFFICES ASSUME NEW i \in 1 .. Len(fifo')
                 PROVE  fifo'[i] = [s |-> sess', n |-> next' - 1 + Out' + i]
      OBVIOUS
    <3>1. CASE i \in 1 .. Len(fifo)
      BY <1>0, <1>a, <1>b, <1>e, <3>1 DEF Numbered
    <3>2. CASE i = Len(fifo) + 1
      <4>1. serial + 1 = next - 1 + Out + i
        BY <1>b, <1>d, <1>e, <2>2, <3>2
      <4> QED BY <1>a, <1>b, <1>e, <2>1, <3>2, <4>1
    <3> QED BY <1>e, <3>1, <3>2
  <2> QED BY <1>0, <1>a, <1>b, <2>3, <2>4 DEF Numbered
<1>7. Epochs'
  BY <1>0, <1>a, <1>b, <1>c DEF Epochs
<1>8. Sent'
  BY <1>a DEF Sent
<1> QED BY <1>1, <1>2, <1>3, <1>4, <1>5, <1>6, <1>7, <1>8 DEF ChannelInv

(* Giving up on a host that does not take what is written. *)
LEMMA GiveUpKeeps ==
  ASSUME ChannelInv, NEW q \in Returns, GiveUp(q), pc \in {"write", "blobwrite", "blobdrain"}
  PROVE  ChannelInv'
<1> USE DEF isrVars, conVars, hostVars
<1>0. /\ Types /\ Handshake /\ Progress /\ Silence /\ Balance /\ Numbered /\ Epochs /\ Sent
  BY DEF ChannelInv
<1>a. /\ flags' = [flags EXCEPT !.over = TRUE] /\ status' = flags'
      /\ job' = [job EXCEPT !.left = 0, !.parts = 0] /\ pc' = q
      /\ UNCHANGED <<cmd, dropped, echo, resetReq, unacked, resp, fifo, line, menu, wasMenu, dirty, serial,
                     cur, hp, last, grabbed, starting, next, sess, keys>>
  BY DEF GiveUp
<1>b. pc' \in CorePoints /\ pc' \notin Resetting /\ pc' # "announce" /\ pc' # "sent"
  BY <1>a DEF Returns, CorePoints, Resetting
<1>c. Pending' = Pending /\ Epoch' = Epoch /\ Out' = Out
  BY <1>a, <1>b DEF Pending, Epoch, Out, Resetting
<1>d. flags' \in Flags /\ flags'.phase = flags.phase /\ flags'.ready = flags.ready
  BY <1>0, <1>a DEF Types, TypeOK, Flags
<1>e. cur = Epoch /\ echo # "rearmed"
  BY <1>0 DEF Epochs, Silence, Quiet, Resetting
<1>1. Types'
  <2> DEFINE j == [job EXCEPT !.left = 0]
  <2>0. j \in Jobs
    BY <1>0 DEF Types, Jobs
  <2>1. job' \in Jobs
    <3>1. job' = [j EXCEPT !.parts = 0]
      BY <1>0, <1>a DEF Types, Jobs
    <3> HIDE DEF j
    <3> QED BY <2>0, <3>1 DEF Jobs
  <2>2. job' \in [left : Nat, ret : CorePoints, back : CorePoints, parts : 0 .. 3]
    BY <2>1 DEF Jobs, Returns, Resumes, CorePoints
  <2> QED BY <1>0, <1>a, <1>b, <1>d, <2>1, <2>2 DEF Types, TypeOK
<1>2. Handshake'
  BY <1>0, <1>a, <1>b, <1>c DEF Handshake, Resetting
<1>3. Progress'
  BY <1>b DEF Progress, Resetting
<1>4. Silence'
  BY <1>a, <1>e DEF Silence
<1>5. Balance'
  BY <1>0, <1>a, <1>b, <1>d DEF Balance
<1>6. Numbered'
  BY <1>0, <1>a, <1>c DEF Numbered
<1>7. Epochs'
  BY <1>0, <1>a, <1>c, <1>e DEF Epochs
<1>8. Sent'
  BY <1>b DEF Sent
<1> QED BY <1>1, <1>2, <1>3, <1>4, <1>5, <1>6, <1>7, <1>8 DEF ChannelInv

-----------------------------------------------------------------------------
(* The writers, one lemma for each of their steps. *)

LEMMA BailKeeps ==
  ASSUME ChannelInv, Bail, pc \in {"blob", "blobwrite", "blobdrain"}
  PROVE  ChannelInv'
<1>1. Types /\ pc' = "drain" /\ job' = [job EXCEPT !.parts = 0, !.left = 0]
  BY DEF Bail, ChannelInv
<1>2. job' \in Jobs
  <2> DEFINE j == [job EXCEPT !.parts = 0]
  <2>1. j \in Jobs
    BY <1>1 DEF Types, Jobs
  <2>2. job' = [j EXCEPT !.left = 0]
    BY <1>1 DEF Types, Jobs
  <2> HIDE DEF j
  <2> QED BY <2>1, <2>2 DEF Jobs
<1>3. /\ menu \in {"none", "cdc", "via"} /\ wasMenu \in BOOLEAN /\ dirty \in BOOLEAN
  BY <1>1 DEF Types, TypeOK
<1> QED BY <1>1, <1>2, <1>3, MoveKeeps
        DEF Bail, conVars, Plain, CorePoints, Resetting, Idle, Quiet

LEMMA RespWriteKeeps ==
  ASSUME ChannelInv, RespWrite
  PROVE  ChannelInv'
<1>0. Types /\ pc = "write" /\ pc \in Plain /\ pc \notin Quiet /\ job.ret \in Returns
  BY DEF RespWrite, ChannelInv, Types, Jobs, Plain, CorePoints, Resetting, Quiet
<1>1. CASE /\ pc' = job.ret /\ job' = [Done("ret") EXCEPT !.left = 0]
           /\ UNCHANGED <<isrVars, cellVars, conVars, fifo, flags, serial, cur, hostVars>>
  <2>1. job' \in Jobs
    <3>1. Done("ret") \in Jobs
      BY <1>0 DEF Types, Jobs, Done, Returns
    <3> QED BY <1>1, <3>1 DEF Jobs
  <2>2. /\ menu' \in {"none", "cdc", "via"} /\ wasMenu' \in BOOLEAN /\ dirty' \in BOOLEAN
    BY <1>0, <1>1 DEF Types, TypeOK, conVars
  <2>3. pc' \in Plain /\ pc' # "sent"
    BY <1>0, <1>1 DEF Returns, Plain, CorePoints, Resetting
  <2> QED BY <1>0, <1>1, <2>1, <2>2, <2>3, MoveKeeps DEF conVars, Idle
<1>2. CASE job.left > 0 /\ Room /\ AppendByte
  BY <1>0, <1>2, AppendKeeps
<1>3. CASE Publish("write")
  BY <1>0, <1>3, PublishKeeps DEF Resumes
<1>4. CASE GiveUp(job.ret)
  BY <1>0, <1>4, GiveUpKeeps
<1> QED BY <1>1, <1>2, <1>3, <1>4 DEF RespWrite

LEMMA BlobBeginKeeps ==
  ASSUME ChannelInv, BlobBegin
  PROVE  ChannelInv'
<1>0. Types /\ pc = "blob"
  BY DEF BlobBegin, ChannelInv
<1>1. CASE Bail
  BY <1>0, <1>1, BailKeeps
<1>2. CASE /\ pc' = "blobwrite" /\ job' = [job EXCEPT !.left = PartLen]
           /\ UNCHANGED <<isrVars, cellVars, conVars, fifo, flags, serial, cur, hostVars>>
  <2>1. job' \in Jobs
    BY <1>0, <1>2, ChannelAssumption DEF Types, Jobs
  <2>2. /\ menu' \in {"none", "cdc", "via"} /\ wasMenu' \in BOOLEAN /\ dirty' \in BOOLEAN
    BY <1>0, <1>2 DEF Types, TypeOK, conVars
  <2> QED BY <1>0, <1>2, <2>1, <2>2, MoveKeeps
          DEF conVars, Idle, Quiet, Plain, CorePoints, Resetting
<1> QED BY <1>1, <1>2 DEF BlobBegin

LEMMA BlobWriteKeeps ==
  ASSUME ChannelInv, BlobWrite
  PROVE  ChannelInv'
<1>0. Types /\ pc = "blobwrite" /\ pc \in Plain /\ pc \notin Quiet
  BY DEF BlobWrite, ChannelInv, Plain, CorePoints, Resetting, Quiet
<1>1. CASE /\ pc' = "blobdrain"
           /\ UNCHANGED <<isrVars, cellVars, conVars, fifo, flags, job, serial, cur, hostVars>>
  <2>1. job' \in Jobs
    BY <1>0, <1>1 DEF Types
  <2>2. /\ menu' \in {"none", "cdc", "via"} /\ wasMenu' \in BOOLEAN /\ dirty' \in BOOLEAN
    BY <1>0, <1>1 DEF Types, TypeOK, conVars
  <2> QED BY <1>0, <1>1, <2>1, <2>2, MoveKeeps
          DEF conVars, Idle, Plain, CorePoints, Resetting
<1>2. CASE job.left > 0 /\ Room /\ AppendByte
  BY <1>0, <1>2, AppendKeeps
<1>3. CASE Bail
  BY <1>0, <1>3, BailKeeps
<1>4. CASE Publish("blobwrite")
  BY <1>0, <1>4, PublishKeeps DEF Resumes
<1>5. CASE GiveUp("drain")
  BY <1>0, <1>5, GiveUpKeeps DEF Returns
<1> QED BY <1>1, <1>2, <1>3, <1>4, <1>5 DEF BlobWrite

LEMMA BlobDrainKeeps ==
  ASSUME ChannelInv, BlobDrain
  PROVE  ChannelInv'
<1>0. Types /\ pc = "blobdrain" /\ pc \in Plain /\ pc \notin Quiet
  BY DEF BlobDrain, ChannelInv, Plain, CorePoints, Resetting, Quiet
<1>1. CASE /\ Delivered /\ pc' = "sent"
           /\ UNCHANGED <<isrVars, cellVars, conVars, fifo, flags, job, serial, cur, hostVars>>
  <2>1. job' \in Jobs
    BY <1>0, <1>1 DEF Types
  <2>2. /\ menu' \in {"none", "cdc", "via"} /\ wasMenu' \in BOOLEAN /\ dirty' \in BOOLEAN
    BY <1>0, <1>1 DEF Types, TypeOK, conVars
  <2> QED BY <1>0, <1>1, <2>1, <2>2, MoveKeeps
          DEF conVars, Idle, Plain, CorePoints, Resetting
<1>2. CASE Bail
  BY <1>0, <1>2, BailKeeps
<1>3. CASE Publish("blobdrain")
  BY <1>0, <1>3, PublishKeeps DEF Resumes
<1>4. CASE GiveUp("drain")
  BY <1>0, <1>4, GiveUpKeeps DEF Returns
<1> QED BY <1>1, <1>2, <1>3, <1>4 DEF BlobDrain

LEMMA BlobSentKeeps ==
  ASSUME ChannelInv, BlobSent
  PROVE  ChannelInv'
<1>0. /\ Types /\ pc = "sent" /\ pc' \in {"blob", "drain"}
      /\ job' = [job EXCEPT !.parts = IF @ > 1 THEN @ - 1 ELSE 0]
      /\ UNCHANGED <<isrVars, cellVars, conVars, fifo, flags, serial, cur, hostVars>>
  BY DEF BlobSent, ChannelInv
<1>1. job' \in Jobs
  <2>1. (IF job.parts > 1 THEN job.parts - 1 ELSE 0) \in 0 .. 3
    BY <1>0 DEF Types, Jobs
  <2> QED BY <1>0, <2>1 DEF Types, Jobs
<1>2. /\ menu' \in {"none", "cdc", "via"} /\ wasMenu' \in BOOLEAN /\ dirty' \in BOOLEAN
  BY <1>0 DEF Types, TypeOK, conVars
<1> QED BY <1>0, <1>1, <1>2, MoveKeeps
        DEF conVars, Idle, Quiet, Plain, CorePoints, Resetting

-----------------------------------------------------------------------------
(* A reset, step by step. *)

LEMMA PollBeginKeeps ==
  ASSUME ChannelInv, PollBegin
  PROVE  ChannelInv'
<1> USE DEF isrVars, cellVars, conVars, hostVars
<1>0. /\ Types /\ Handshake /\ Progress /\ Silence /\ Balance /\ Numbered /\ Epochs /\ Sent
  BY DEF ChannelInv
<1>a. /\ pc = "poll" /\ pc' = IF resetReq THEN "rebase" ELSE "branch"
      /\ UNCHANGED <<cmd, dropped, echo, resetReq, unacked, status, resp, line, menu, wasMenu, dirty,
                     fifo, flags, job, serial, cur,
                     hp, last, grabbed, starting, next, sess, keys>>
  BY DEF PollBegin, At
<1>b. Pending' = Pending /\ Epoch' = Epoch /\ Out' = Out
  BY <1>a DEF Pending, Epoch, Out, Resetting
<1>1. Types'
  BY <1>0, <1>a DEF Types, TypeOK, Jobs, CorePoints
<1>2. Handshake'
  BY <1>0, <1>a, <1>b DEF Handshake
<1>3. Progress'
  BY <1>a DEF Progress
<1>4. Silence'
  BY <1>0, <1>a DEF Silence, Handshake, Pending, Quiet
<1>5. Balance'
  BY <1>0, <1>a DEF Balance
<1>6. Numbered'
  BY <1>0, <1>a, <1>b DEF Numbered
<1>7. Epochs'
  BY <1>0, <1>a, <1>b DEF Epochs, Quiet, Resetting
<1>8. Sent'
  BY <1>a DEF Sent
<1> QED BY <1>1, <1>2, <1>3, <1>4, <1>5, <1>6, <1>7, <1>8 DEF ChannelInv

(* While a reset is served, the host waits: only what the reset has done so far
   has to be looked at. *)
LEMMA ResettingKeeps ==
  ASSUME ChannelInv, pc \in Resetting, pc' \in Resetting,
         Types', Progress',
         pc' \in {"rebase", "flush", "clear"} => resetReq',
         pc' \in {"show", "rearm"} => ~resetReq',
         cmd' \in {cmd, <<>>}, fifo' \in {fifo, <<>>}, unacked' \in {unacked, 0},
         unacked' = 1 => flags'.ready /\ status'.ready,
         status'.phase = flags'.phase,
         UNCHANGED <<echo, line, menu, wasMenu, cur, hostVars>>
  PROVE  ChannelInv'
<1> USE DEF hostVars
<1>0. /\ Types /\ Handshake /\ Balance /\ Epochs /\ Pending /\ Pending'
  BY DEF ChannelInv, Pending
<1>a. hp \in {"settle", "off"} /\ echo # "rearmed" /\ Epoch' = Epoch /\ pc' # "announce" /\ pc' # "sent"
  BY <1>0 DEF Handshake, Epoch, Resetting
<1>2. Handshake'
  BY <1>0, <1>a DEF Handshake
<1>4. Silence'
  BY <1>a DEF Silence
<1>5. Balance'
  BY <1>0, <1>a DEF Balance
<1>6. Numbered'
  BY <1>0 DEF Numbered
<1>7. Epochs'
  BY <1>0, <1>a DEF Epochs
<1>8. Sent'
  BY <1>a DEF Sent
<1> QED BY <1>2, <1>4, <1>5, <1>6, <1>7, <1>8 DEF ChannelInv

LEMMA RebaseKeeps ==
  ASSUME ChannelInv, Rebase
  PROVE  ChannelInv'
<1> USE DEF cellVars, conVars
<1>0. Types /\ Handshake /\ Balance
  BY DEF ChannelInv
<1>a. /\ pc = "rebase" /\ pc' = "flush" /\ fifo' = <<>> /\ serial' = 0 /\ unacked' = 0
      /\ UNCHANGED <<cmd, dropped, echo, resetReq, status, resp, line, menu, wasMenu, dirty, flags, job,
                     cur, hostVars>>
  BY DEF Rebase, At
<1>1. Types'
  BY <1>0, <1>a, ChannelAssumption, EmptyFacts DEF Types, TypeOK, hostVars, CorePoints
<1>2. Progress'
  BY <1>a DEF Progress
<1>3. resetReq'
  BY <1>0, <1>a DEF Handshake
<1>4. status'.phase = flags'.phase
  BY <1>0, <1>a DEF Balance
<1> QED BY <1>a, <1>1, <1>2, <1>3, <1>4, ResettingKeeps DEF Resetting

LEMMA FlushKeeps ==
  ASSUME ChannelInv, Flush
  PROVE  ChannelInv'
<1> USE DEF cellVars, conVars
<1>0. Types /\ Handshake /\ Balance /\ Progress
  BY DEF ChannelInv
<1>a. /\ pc = "flush" /\ pc' = "clear" /\ cmd' = <<>> /\ dropped' = FALSE
      /\ flags' = [flags EXCEPT !.over = FALSE, !.full = FALSE, !.ready = FALSE]
      /\ UNCHANGED <<echo, resetReq, unacked, status, resp, line, menu, wasMenu, dirty, fifo, job, serial,
                     cur, hostVars>>
  BY DEF Flush, At
<1>b. /\ flags' = [over |-> FALSE, full |-> FALSE, ready |-> FALSE, phase |-> flags.phase]
      /\ flags.phase \in BOOLEAN
  BY <1>0, <1>a DEF Types, TypeOK, Flags
<1>1. Types'
  <2>1. flags' \in Flags /\ dropped' \in BOOLEAN
    BY <1>a, <1>b DEF Flags
  <2>2. cmd' \in Seq(CmdByte) /\ Len(cmd') < CmdSize
    BY <1>a, ChannelAssumption, EmptyFacts
  <2> QED BY <1>0, <1>a, <2>1, <2>2 DEF Types, TypeOK, hostVars, CorePoints
<1>2. Progress'
  BY <1>0, <1>a, <1>b DEF Progress
<1>3. resetReq' /\ unacked' = 0
  BY <1>0, <1>a DEF Handshake, Progress
<1>4. status'.phase = flags'.phase
  BY <1>0, <1>a, <1>b DEF Balance
<1> QED BY <1>a, <1>1, <1>2, <1>3, <1>4, ResettingKeeps DEF Resetting

LEMMA ClearKeeps ==
  ASSUME ChannelInv, Clear
  PROVE  ChannelInv'
<1> USE DEF cellVars, conVars
<1>0. Types /\ Handshake /\ Balance /\ Progress
  BY DEF ChannelInv
<1>a. /\ pc = "clear" /\ pc' = "show" /\ resetReq' = FALSE
      /\ UNCHANGED <<cmd, dropped, echo, unacked, status, resp, line, menu, wasMenu, dirty, fifo, flags,
                     job, serial, cur, hostVars>>
  BY DEF Clear, At
<1>1. Types'
  <2>1. resetReq' \in BOOLEAN
    BY <1>a
  <2> QED BY <1>0, <1>a, <2>1 DEF Types, TypeOK, hostVars, CorePoints
<1>2. Progress'
  BY <1>0, <1>a DEF Progress
<1>3. unacked' = 0
  BY <1>0, <1>a DEF Progress
<1>4. status'.phase = flags'.phase
  BY <1>0, <1>a DEF Balance
<1> QED BY <1>a, <1>1, <1>2, <1>3, <1>4, ResettingKeeps DEF Resetting

LEMMA ShowKeeps ==
  ASSUME ChannelInv, Show
  PROVE  ChannelInv'
<1> USE DEF isrVars, conVars
<1>0. Types /\ Handshake /\ Balance /\ Progress
  BY DEF ChannelInv
<1>a. /\ pc = "show" /\ pc' = "rearm" /\ status' = flags
      /\ UNCHANGED <<cmd, dropped, echo, resetReq, unacked, resp, line, menu, wasMenu, dirty, fifo, flags,
                     job, serial, cur, hostVars>>
  BY DEF Show, At
<1>1. Types'
  BY <1>0, <1>a DEF Types, TypeOK, hostVars, CorePoints
<1>2. Progress'
  BY <1>0, <1>a DEF Progress
<1>3. unacked' = 0 /\ ~resetReq'
  BY <1>0, <1>a DEF Progress, Handshake
<1>4. status'.phase = flags'.phase
  BY <1>a
<1> QED BY <1>a, <1>1, <1>2, <1>3, <1>4, ResettingKeeps DEF Resetting

(* The end of a reset: both sides are in the new session, and nothing is under way. *)
LEMMA RearmKeeps ==
  ASSUME ChannelInv, Rearm
  PROVE  ChannelInv'
<1> USE DEF cellVars, hostVars
<1>0. /\ Types /\ Handshake /\ Progress /\ Silence /\ Balance /\ Numbered /\ Epochs /\ Sent
  BY DEF ChannelInv
<1>a. /\ pc = "rearm" /\ pc' = "branch" /\ echo' = "rearmed" /\ line' = <<>>
      /\ menu' = (IF menu = "via" THEN "none" ELSE menu) /\ wasMenu' = FALSE
      /\ UNCHANGED <<cmd, dropped, resetReq, unacked, status, resp, dirty, fifo, flags, job, serial, cur,
                     hp, last, grabbed, starting, next, sess, keys>>
  BY DEF Rearm, At
<1>b. /\ Pending /\ hp \in {"settle", "off"} /\ next = 1 /\ ~resetReq
  BY <1>0, <1>a DEF Handshake, Pending, Resetting
<1>c. /\ fifo = <<>> /\ unacked = 0 /\ serial = 0 /\ cmd = <<>> /\ ~flags.over /\ ~flags.ready
      /\ ~status.over /\ ~status.ready
  BY <1>0, <1>a DEF Progress
<1>d. ~Pending' /\ Epoch' = sess /\ Out' = 0
  BY <1>a, <1>b, <1>c DEF Pending, Epoch, Out, Resetting
<1>1. Types'
  <2>1. line' \in Seq(Session) /\ Len(line') <= LineCap
    BY <1>a, ChannelAssumption, EmptyFacts
  <2>2. menu' \in {"none", "cdc", "via"}
    BY <1>0, <1>a DEF Types, TypeOK
  <2>3. wasMenu' \in BOOLEAN
    BY <1>a
  <2> QED BY <1>0, <1>a, <2>1, <2>2, <2>3 DEF Types, TypeOK, CorePoints
<1>2. Handshake'
  BY <1>a, <1>b, <1>d DEF Handshake
<1>3. Progress'
  BY <1>a DEF Progress
<1>4. Silence'
  BY <1>a, <1>c DEF Silence, Quiet
<1>5. Balance'
  BY <1>0, <1>a, <1>b, <1>c DEF Balance
<1>6. Numbered'
  BY <1>a, <1>b, <1>c, <1>d, EmptyFacts DEF Numbered
<1>7. Epochs'
  BY <1>a, <1>c, <1>d, EmptyFacts DEF Epochs, Quiet
<1>8. Sent'
  BY <1>a DEF Sent
<1> QED BY <1>1, <1>2, <1>3, <1>4, <1>5, <1>6, <1>7, <1>8 DEF ChannelInv

-----------------------------------------------------------------------------
(* The console: the line engine, the menu and the pump. *)

LEMMA WriteFacts ==
  ASSUME Types, NEW n \in Nat, NEW q \in Returns, Write(n, q)
  PROVE  pc' = "write" /\ job' \in Jobs
<1> DEFINE j == [job EXCEPT !.left = n]
<1>1. j \in Jobs
  BY DEF Types, Jobs
<1>2. job' = [j EXCEPT !.ret = q] /\ pc' = "write"
  BY DEF Write, Types, Jobs
<1> HIDE DEF j
<1> QED BY <1>1, <1>2 DEF Jobs

(* The next command byte, and the line it joins, are of the session core 0 works for. *)
LEMMA HeadFacts ==
  ASSUME ChannelInv, cmd # <<>>
  PROVE  /\ Head(cmd) \in CmdByte
         /\ line \in Seq(Session) /\ Len(line) \in Nat /\ Len(line) <= LineCap
         /\ \A i \in 1 .. Len(line) : line[i] = Head(cmd).s
<1>1. Types /\ Epochs /\ cmd \in Seq(CmdByte)
  BY DEF ChannelInv, Types, TypeOK
<1>2. Len(cmd) \in Nat /\ Len(cmd) > 0 /\ Head(cmd) \in CmdByte /\ Head(cmd) = cmd[1]
  BY <1>1, TailFacts
<1>3. Head(cmd).s = Epoch
  BY <1>1, <1>2 DEF Epochs
<1> QED BY <1>1, <1>2, <1>3 DEF Epochs, Types, TypeOK

LEMMA BranchKeeps ==
  ASSUME ChannelInv, Branch
  PROVE  ChannelInv'
<1>0. /\ Types /\ Handshake /\ Progress /\ Silence /\ Balance /\ Numbered /\ Epochs /\ Sent
  BY DEF ChannelInv
<1>a. /\ pc = "branch" /\ pc \in Plain
      /\ UNCHANGED <<isrVars, cellVars, menu, dirty, fifo, flags, serial, cur, hostVars>>
      /\ menu \in {"none", "cdc", "via"} /\ dirty \in BOOLEAN /\ wasMenu \in BOOLEAN
  BY <1>0 DEF Branch, Plain, CorePoints, Resetting, Types, TypeOK
<1>1. CASE menu = "via" /\ pc' = "feed" /\ UNCHANGED <<job, line, wasMenu>>
  <2>1. job' \in Jobs /\ pc' \in Plain /\ pc' # "sent" /\ ~Idle
    BY <1>0, <1>1 DEF Types, Plain, CorePoints, Resetting, Idle
  <2> QED BY <1>1, <1>a, <2>1, MoveKeeps
<1>2. CASE menu # "via" /\ wasMenu /\ wasMenu' = FALSE /\ line' = <<>> /\ Write(1, "drain")
  <2> USE DEF isrVars, cellVars, hostVars
  <2>1. pc' = "write" /\ job' \in Jobs
    BY <1>0, <1>2, WriteFacts DEF Returns
  <2>2. cur = Epoch /\ echo # "rearmed"
    BY <1>0, <1>2 DEF Epochs, Silence
  <2>3. Pending' = Pending /\ Epoch' = Epoch /\ Out' = Out
    BY <1>a, <2>1 DEF Pending, Epoch, Out, Resetting
  <2>4. Types'
    <3>1. line' \in Seq(Session) /\ Len(line') <= LineCap
      BY <1>2, ChannelAssumption, EmptyFacts
    <3>2. wasMenu' \in BOOLEAN
      BY <1>2
    <3>3. job' \in [left : Nat, ret : CorePoints, back : CorePoints, parts : 0 .. 3]
      BY <2>1 DEF Jobs, Returns, Resumes, CorePoints
    <3>4. pc' \in CorePoints
      BY <2>1 DEF CorePoints
    <3> QED BY <1>0, <1>a, <2>1, <3>1, <3>2, <3>3, <3>4 DEF Types, TypeOK
  <2>5. Handshake'
    BY <1>0, <1>a, <2>1, <2>3 DEF Handshake
  <2>6. Progress'
    BY <2>1 DEF Progress
  <2>7. Silence'
    BY <1>a, <2>2 DEF Silence
  <2>8. Balance'
    BY <1>0, <1>a, <2>1 DEF Balance
  <2>9. Numbered'
    BY <1>0, <1>a, <2>3 DEF Numbered
  <2>10. Epochs'
    BY <1>0, <1>2, <1>a, <2>2, <2>3, EmptyFacts DEF Epochs
  <2>11. Sent'
    BY <2>1 DEF Sent
  <2> QED BY <2>4, <2>5, <2>6, <2>7, <2>8, <2>9, <2>10, <2>11 DEF ChannelInv
<1>3. CASE menu # "via" /\ ~wasMenu /\ pc' = "drain" /\ UNCHANGED <<job, line, wasMenu>>
  <2>1. job' \in Jobs /\ pc' \in Plain /\ pc' # "sent" /\ Idle'
    BY <1>0, <1>3, <1>a DEF Types, Plain, CorePoints, Resetting, Idle, Quiet
  <2> QED BY <1>3, <1>a, <2>1, MoveKeeps
<1> QED BY <1>1, <1>2, <1>3 DEF Branch

LEMMA FeedMenuKeeps ==
  ASSUME ChannelInv, FeedMenu
  PROVE  ChannelInv'
<1>0. Types /\ pc = "feed" /\ pc \in Plain /\ pc \notin Quiet /\ UNCHANGED <<line, wasMenu>>
  BY DEF FeedMenu, ChannelInv, Plain, CorePoints, Resetting, Quiet
<1>a. /\ menu \in {"none", "cdc", "via"} /\ dirty \in BOOLEAN /\ wasMenu' \in BOOLEAN /\ job \in Jobs
  BY <1>0 DEF Types, TypeOK
<1>1. CASE Pop /\ menu' = "none" /\ Write(1, "feed") /\ UNCHANGED dirty
  <2>1. pc' = "write" /\ job' \in Jobs
    BY <1>0, <1>1, WriteFacts DEF Returns
  <2>2. pc' \in Plain \ {"sent"}
    BY <2>1 DEF Plain, CorePoints, Resetting
  <2>3. cmd # <<>>
    BY <1>1 DEF Pop
  <2> QED BY <1>0, <1>1, <1>a, <2>1, <2>2, <2>3, HeadFacts, PopKeeps
<1>2. CASE Pop /\ dirty' = TRUE /\ UNCHANGED <<menu, pc, job>>
  <2>1. pc' \in Plain \ {"sent"}
    BY <1>0, <1>2
  <2>2. dirty' \in BOOLEAN
    BY <1>2
  <2>3. cmd # <<>>
    BY <1>2 DEF Pop
  <2> QED BY <1>0, <1>2, <1>a, <2>1, <2>2, <2>3, HeadFacts, PopKeeps
<1>3. CASE /\ pc' = "paint"
           /\ UNCHANGED <<isrVars, cellVars, menu, dirty, fifo, flags, job, serial, cur, hostVars>>
  <2>1. pc' \in Plain /\ pc' # "sent"
    BY <1>3 DEF Plain, CorePoints, Resetting
  <2> QED BY <1>0, <1>3, <1>a, <2>1, MoveKeeps DEF Idle
<1> QED BY <1>1, <1>2, <1>3 DEF FeedMenu

LEMMA PaintMenuKeeps ==
  ASSUME ChannelInv, PaintMenu
  PROVE  ChannelInv'
<1>0. /\ Types /\ pc = "paint" /\ pc \in Plain /\ pc \notin Quiet
      /\ UNCHANGED <<isrVars, cellVars, line, fifo, flags, serial, cur, hostVars>>
  BY DEF PaintMenu, ChannelInv, Plain, CorePoints, Resetting, Quiet
<1>a. /\ menu \in {"none", "cdc", "via"} /\ dirty \in BOOLEAN
  BY <1>0 DEF Types, TypeOK
<1>b. wasMenu' \in BOOLEAN
  <2>1. wasMenu' = TRUE
    BY DEF PaintMenu
  <2> QED BY <2>1
<1>c. ASSUME NEW n \in Nat, Write(n, "pump"), menu' \in {"none", "cdc", "via"}, dirty' \in BOOLEAN
      PROVE  ChannelInv'
  <2>1. pc' = "write" /\ job' \in Jobs
    BY <1>0, <1>c, WriteFacts DEF Returns
  <2>2. pc' \in Plain /\ pc' # "sent"
    BY <2>1 DEF Plain, CorePoints, Resetting
  <2> QED BY <1>0, <1>b, <1>c, <2>1, <2>2, MoveKeeps DEF Idle
<1>1. CASE /\ menu' = menu /\ dirty' = (dirty /\ menu # "via")
           /\ Write(IF menu = "via" /\ dirty THEN 1 ELSE 0, "pump")
  <2>1. dirty' \in BOOLEAN
    BY <1>1
  <2>2. (IF menu = "via" /\ dirty THEN 1 ELSE 0) \in Nat
    OBVIOUS
  <2> QED BY <1>1, <1>a, <1>c, <2>1, <2>2
<1>2. CASE menu' = "none" /\ Write(1, "pump") /\ UNCHANGED dirty
  BY <1>2, <1>a, <1>c
<1> QED BY <1>1, <1>2 DEF PaintMenu

LEMMA DrainRingKeeps ==
  ASSUME ChannelInv, DrainRing
  PROVE  ChannelInv'
<1>0. /\ Types /\ pc = "drain" /\ pc \in Plain /\ wasMenu' = wasMenu
  BY DEF DrainRing, ChannelInv, Plain, CorePoints, Resetting
<1>a. /\ menu \in {"none", "cdc", "via"} /\ dirty \in BOOLEAN /\ wasMenu' \in BOOLEAN /\ job \in Jobs
  BY <1>0 DEF Types, TypeOK
<1>1. CASE Pop /\ \E b \in {Head(cmd)} : Typed(b) \/ Entered(b) \/ Download(b) \/ Ignored(b)
  <2> DEFINE b == Head(cmd)
  <2>a. /\ cmd # <<>>
        /\ b \in CmdByte /\ b.s \in Session
        /\ line \in Seq(Session) /\ Len(line) \in Nat /\ Len(line) <= LineCap
        /\ \A i \in 1 .. Len(line) : line[i] = b.s
    <3>1. cmd # <<>>
      BY <1>1 DEF Pop
    <3> QED BY <3>1, HeadFacts DEF CmdByte
  <2>b. ASSUME pc' \in {"write", "drain", "blob"}, job' \in Jobs,
               menu' \in {"none", "cdc", "via"}, dirty' \in BOOLEAN,
               line' \in Seq(Session), Len(line') <= LineCap,
               \A i \in 1 .. Len(line') : line'[i] = b.s
        PROVE  ChannelInv'
    <3>1. pc' \in Plain \ {"sent"}
      BY <2>b DEF Plain, CorePoints, Resetting
    <3> QED BY <1>0, <1>1, <1>a, <2>b, <3>1, PopKeeps
  <2> HIDE DEF b
  <2>1. CASE Typed(b)
    <3>0. menu' = menu /\ dirty' = dirty
      BY <2>1 DEF Typed
    <3>1. CASE Len(line) < LineCap /\ line' = Append(line, b.s) /\ Write(1, "drain")
      <4>1. pc' = "write" /\ job' \in Jobs
        BY <1>0, <3>1, WriteFacts DEF Returns
      <4>2. /\ line' \in Seq(Session) /\ Len(line') = Len(line) + 1
            /\ \A i \in 1 .. Len(line) : line'[i] = line[i]
            /\ line'[Len(line) + 1] = b.s
        BY <2>a, <3>1, AppendFacts
      <4>3. Len(line') <= LineCap
        BY <2>a, <3>1, <4>2, ChannelAssumption
      <4>4. \A i \in 1 .. Len(line') : line'[i] = b.s
        <5> SUFFICES ASSUME NEW i \in 1 .. Len(line') PROVE line'[i] = b.s
          OBVIOUS
        <5>1. i \in 1 .. Len(line) \/ i = Len(line) + 1
          BY <2>a, <4>2
        <5> QED BY <2>a, <4>2, <5>1
      <4> QED BY <1>a, <2>b, <3>0, <4>1, <4>2, <4>3, <4>4
    <3>2. CASE UNCHANGED <<line, pc, job>>
      BY <1>0, <1>a, <2>a, <2>b, <3>0, <3>2
    <3> QED BY <2>1, <3>1, <3>2 DEF Typed
  <2>2. CASE Entered(b)
    <3>0. line' \in Seq(Session) /\ Len(line') <= LineCap /\ \A i \in 1 .. Len(line') : line'[i] = b.s
      <4>1. line' = <<>>
        BY <2>2 DEF Entered
      <4> QED BY <4>1, ChannelAssumption, EmptyFacts
    <3>1. CASE (\E n \in 1 .. MaxReply : Write(n, "drain")) /\ UNCHANGED <<menu, dirty>>
      <4>1. PICK n \in 1 .. MaxReply : Write(n, "drain")
        BY <3>1
      <4>2. pc' = "write" /\ job' \in Jobs
        BY <1>0, <4>1, WriteFacts, ChannelAssumption DEF Returns
      <4> QED BY <1>a, <2>b, <3>0, <3>1, <4>2
    <3>2. CASE menu' = "via" /\ dirty' = TRUE /\ Write(1, "pump")
      <4>1. pc' = "write" /\ job' \in Jobs
        BY <1>0, <3>2, WriteFacts DEF Returns
      <4>2. dirty' \in BOOLEAN
        BY <3>2
      <4> QED BY <1>a, <2>b, <3>0, <3>2, <4>1, <4>2
    <3>3. CASE Write(2, "drain") /\ UNCHANGED <<menu, dirty>>
      <4>1. pc' = "write" /\ job' \in Jobs
        BY <1>0, <3>3, WriteFacts DEF Returns
      <4> QED BY <1>a, <2>b, <3>0, <3>3, <4>1
    <3> QED BY <2>2, <3>1, <3>2, <3>3 DEF Entered
  <2>3. CASE Download(b)
    <3>1. pc' = "blob" /\ job' = [job EXCEPT !.parts = 3] /\ UNCHANGED <<line, menu, dirty>>
      BY <2>3 DEF Download
    <3>2. job' \in Jobs
      BY <1>a, <3>1 DEF Jobs
    <3> QED BY <1>a, <2>a, <2>b, <3>1, <3>2
  <2>4. CASE Ignored(b)
    <3>1. UNCHANGED <<line, menu, dirty, pc, job>>
      BY <2>4 DEF Ignored
    <3> QED BY <1>0, <1>a, <2>a, <2>b, <3>1
  <2> QED BY <1>1, <2>1, <2>2, <2>3, <2>4 DEF b
<1>2. CASE /\ pc' = "pump"
           /\ UNCHANGED <<isrVars, cellVars, line, menu, dirty, fifo, flags, job, serial, cur, hostVars>>
  <2>1. pc' \in Plain /\ pc' # "sent"
    BY <1>2 DEF Plain, CorePoints, Resetting
  <2>2. Idle => Idle'
    BY <1>0, <1>2 DEF Idle, Quiet
  <2> QED BY <1>0, <1>2, <1>a, <2>1, <2>2, MoveKeeps
<1> QED BY <1>1, <1>2 DEF DrainRing

LEMMA PumpBeginKeeps ==
  ASSUME ChannelInv, PumpBegin
  PROVE  ChannelInv'
<1> USE DEF cellVars, conVars, hostVars
<1>0. /\ Types /\ Handshake /\ Progress /\ Silence /\ Balance /\ Numbered /\ Epochs /\ Sent
  BY DEF ChannelInv
<1>a. /\ pc = "pump" /\ pc' = "burst"
      /\ flags' = [flags EXCEPT !.full = (@ \/ dropped) /\ cmd # <<>>] /\ dropped' = FALSE
      /\ UNCHANGED <<cmd, echo, resetReq, unacked, status, resp, line, menu, wasMenu, dirty, fifo, job, serial, cur,
                     hp, last, grabbed, starting, next, sess, keys>>
  BY DEF PumpBegin, At
<1>b. Pending' = Pending /\ Epoch' = Epoch /\ Out' = Out
  BY <1>a DEF Pending, Epoch, Out, Resetting
<1>c. /\ flags' \in Flags /\ flags'.phase = flags.phase /\ flags'.ready = flags.ready
      /\ flags'.over = flags.over
  BY <1>0, <1>a DEF Types, TypeOK, Flags
<1>1. Types'
  <2>1. dropped' \in BOOLEAN
    BY <1>a
  <2> QED BY <1>0, <1>a, <1>c, <2>1 DEF Types, TypeOK, CorePoints
<1>2. Handshake'
  BY <1>0, <1>a, <1>b DEF Handshake
<1>3. Progress'
  BY <1>a DEF Progress
<1>4. Silence'
  BY <1>0, <1>a, <1>c DEF Silence, Quiet
<1>5. Balance'
  BY <1>0, <1>a, <1>c DEF Balance
<1>6. Numbered'
  BY <1>0, <1>a, <1>b DEF Numbered
<1>7. Epochs'
  BY <1>0, <1>a, <1>b DEF Epochs, Quiet
<1>8. Sent'
  BY <1>a DEF Sent
<1> QED BY <1>1, <1>2, <1>3, <1>4, <1>5, <1>6, <1>7, <1>8 DEF ChannelInv

LEMMA PumpEndKeeps ==
  ASSUME ChannelInv, PumpEnd
  PROVE  ChannelInv'
<1> USE DEF isrVars, conVars, hostVars
<1>0. /\ Types /\ Handshake /\ Progress /\ Silence /\ Balance /\ Numbered /\ Epochs /\ Sent
  BY DEF ChannelInv
<1>a. /\ pc = "store" /\ pc' = "main" /\ status' = flags
      /\ UNCHANGED <<cmd, dropped, echo, resetReq, unacked, resp, line, menu, wasMenu, dirty, fifo, flags, job,
                     serial, cur, hp, last, grabbed, starting, next, sess, keys>>
  BY DEF PumpEnd, At
<1>b. Pending' = Pending /\ Epoch' = Epoch /\ Out' = Out
  BY <1>a DEF Pending, Epoch, Out, Resetting
<1>1. Types'
  BY <1>0, <1>a DEF Types, TypeOK, CorePoints
<1>2. Handshake'
  BY <1>0, <1>a, <1>b DEF Handshake
<1>3. Progress'
  BY <1>a DEF Progress
<1>4. Silence'
  BY <1>0, <1>a DEF Silence, Quiet
<1>5. Balance'
  BY <1>0, <1>a DEF Balance
<1>6. Numbered'
  BY <1>0, <1>a, <1>b DEF Numbered
<1>7. Epochs'
  BY <1>0, <1>a, <1>b DEF Epochs, Quiet
<1>8. Sent'
  BY <1>a DEF Sent
<1> QED BY <1>1, <1>2, <1>3, <1>4, <1>5, <1>6, <1>7, <1>8 DEF ChannelInv

(* The steps of a poll that only move on. *)
LEMMA PollMoves ==
  ASSUME ChannelInv, PumpBurst \/ PumpSpin \/ MainLoop
  PROVE  ChannelInv'
<1>0. /\ Types /\ job \in Jobs
      /\ menu \in {"none", "cdc", "via"} /\ wasMenu \in BOOLEAN /\ dirty \in BOOLEAN
  BY DEF ChannelInv, Types, TypeOK
<1>a. ASSUME pc \in {"burst", "spin", "main"}, pc' \in {"spin", "store", "burst", "poll"},
             menu' \in {"none", "cdc", "via"}, menu # "via" => menu' # "via",
             UNCHANGED <<isrVars, cellVars, line, wasMenu, dirty, fifo, flags, job, serial, cur, hostVars>>
      PROVE  ChannelInv'
  <2>1. pc \in Plain /\ pc' \in Plain /\ pc' # "sent" /\ (Idle => Idle')
    BY <1>a DEF Plain, CorePoints, Resetting, Idle, Quiet
  <2> QED BY <1>0, <1>a, <2>1, MoveKeeps
<1>1. CASE PumpBurst
  <2>1. CASE Publish("spin")
    BY <1>1, <2>1, PublishKeeps DEF PumpBurst, Resumes, Plain, CorePoints, Resetting, Quiet
  <2>2. CASE /\ pc' = IF unacked # 0 THEN "spin" ELSE "store"
             /\ UNCHANGED <<isrVars, cellVars, conVars, fifo, flags, job, serial, cur, hostVars>>
    BY <1>0, <1>1, <1>a, <2>2 DEF PumpBurst, conVars
  <2> QED BY <1>1, <2>1, <2>2 DEF PumpBurst
<1>2. CASE PumpSpin
  <2>1. pc = "spin" /\ pc' \in {"store", "burst"}
    BY <1>2 DEF PumpSpin
  <2> QED BY <1>0, <1>2, <1>a, <2>1 DEF PumpSpin, conVars
<1>3. CASE MainLoop
  BY <1>0, <1>3, <1>a DEF MainLoop, At
<1> QED BY <1>1, <1>2, <1>3

-----------------------------------------------------------------------------
(* The host. *)

(* A command byte of the host's session: no reset is pending, so it is core 0's too. *)
LEMMA PushKeeps ==
  ASSUME ChannelInv, NEW k \in Kinds, Push([kind |-> k, s |-> sess]), HostStep,
         hp \in {"probe", "probe2", "cr", "loop"}, hp' \in {"check", "check2", "loop"},
         hp' = "loop" => hp \in {"cr", "loop"},
         keys' \in 0 .. MaxKeys,
         UNCHANGED <<last, grabbed, starting, next, sess>>
  PROVE  ChannelInv'
<1> USE DEF HostStep, cellVars, conVars, coreVars
<1> DEFINE b == [kind |-> k, s |-> sess]
<1>0. /\ Types /\ Handshake /\ Progress /\ Silence /\ Balance /\ Numbered /\ Epochs /\ Sent
  BY DEF ChannelInv
<1>a. /\ ~Pending /\ Epoch = sess
      /\ echo' = k /\ k # "rearmed" /\ UNCHANGED <<resetReq, unacked>>
      /\ \/ Len(cmd) < CmdSize - 1 /\ cmd' = Append(cmd, b) /\ dropped' = dropped
         \/ dropped' = TRUE /\ cmd' = cmd
  BY <1>0 DEF Handshake, Epoch, Push, Kinds
<1>b. Pending' = Pending /\ Epoch' = Epoch /\ Out' = Out
  BY <1>a DEF Pending, Epoch, Out
<1>c. cmd \in Seq(CmdByte) /\ b \in CmdByte
  BY <1>0 DEF Types, TypeOK, CmdByte
<1>d. /\ cmd' \in Seq(CmdByte) /\ Len(cmd') < CmdSize /\ dropped' \in BOOLEAN
      /\ \A i \in 1 .. Len(cmd') : cmd'[i].s = sess
  <2>0. \A i \in 1 .. Len(cmd) : cmd[i].s = sess
    BY <1>0, <1>a DEF Epochs
  <2>1. CASE Len(cmd) < CmdSize - 1 /\ cmd' = Append(cmd, b) /\ dropped' = dropped
    <3>1. /\ Len(cmd) \in Nat
          /\ cmd' \in Seq(CmdByte) /\ Len(cmd') = Len(cmd) + 1
          /\ \A i \in 1 .. Len(cmd) : cmd'[i] = cmd[i]
          /\ cmd'[Len(cmd) + 1] = b
      BY <1>c, <2>1, AppendFacts
    <3>2. Len(cmd') < CmdSize
      BY <2>1, <3>1, ChannelAssumption
    <3>3. \A i \in 1 .. Len(cmd') : cmd'[i].s = sess
      <4> SUFFICES ASSUME NEW i \in 1 .. Len(cmd') PROVE cmd'[i].s = sess
        OBVIOUS
      <4>1. i \in 1 .. Len(cmd) \/ i = Len(cmd) + 1
        BY <3>1
      <4> QED BY <2>0, <3>1, <4>1
    <3> QED BY <1>0, <2>1, <3>1, <3>2, <3>3 DEF Types, TypeOK
  <2>2. CASE dropped' = TRUE /\ cmd' = cmd
    <3>1. dropped' \in BOOLEAN
      BY <2>2
    <3> QED BY <1>0, <2>0, <2>2, <3>1 DEF Types, TypeOK
  <2> QED BY <1>a, <2>1, <2>2
<1> HIDE DEF b
<1>1. Types'
  <2>1. hp' \in HostPoints
    BY DEF HostPoints
  <2> QED BY <1>0, <1>a, <1>d, <2>1 DEF Types, TypeOK
<1>2. Handshake'
  BY <1>0, <1>a, <1>b DEF Handshake
<1>3. Progress'
  BY <1>0, <1>a DEF Progress, Pending, Resetting
<1>4. Silence'
  BY <1>a DEF Silence
<1>5. Balance'
  <2>1. hp \in {"cr", "loop"} => (unacked = 1 <=> status.phase # last)
    BY <1>0 DEF Balance, Handshake, Silence
  <2> QED BY <1>0, <1>a, <2>1 DEF Balance
<1>6. Numbered'
  BY <1>0, <1>a, <1>b DEF Numbered
<1>7. Epochs'
  BY <1>0, <1>a, <1>b, <1>d DEF Epochs
<1>8. Sent'
  BY <1>0, <1>a DEF Sent, Delivered
<1> QED BY <1>1, <1>2, <1>3, <1>4, <1>5, <1>6, <1>7, <1>8 DEF ChannelInv

LEMMA ProbeKeeps ==
  ASSUME ChannelInv, Probe
  PROVE  ChannelInv'
<1>1. hp \in {"probe", "probe2"}
  BY DEF Probe, ProbeKind
<1>2. ProbeKind[hp] \in Kinds /\ AfterProbe[hp] \in {"check", "check2"}
  BY <1>1 DEF ProbeKind, AfterProbe, Kinds
<1>3. keys' \in 0 .. MaxKeys
  BY DEF Probe, ChannelInv, Types, TypeOK
<1>4. /\ HostStep /\ Push([kind |-> ProbeKind[hp], s |-> sess]) /\ hp' = AfterProbe[hp]
      /\ UNCHANGED <<last, grabbed, starting, next, sess>>
  BY DEF Probe
<1> QED BY <1>1, <1>2, <1>3, <1>4, PushKeeps

LEMMA HelloKeeps ==
  ASSUME ChannelInv, Hello
  PROVE  ChannelInv'
<1>1. keys' \in 0 .. MaxKeys
  BY DEF Hello, ChannelInv, Types, TypeOK
<1>2. /\ HostStep /\ Push([kind |-> "cr", s |-> sess]) /\ hp = "cr" /\ hp' = "loop"
      /\ UNCHANGED <<last, grabbed, starting, next, sess>>
  BY DEF Hello
<1>3. "cr" \in Kinds
  BY DEF Kinds
<1> QED BY <1>1, <1>2, <1>3, PushKeeps

LEMMA TypeKeeps ==
  ASSUME ChannelInv, NEW k \in Kinds, Type(k)
  PROVE  ChannelInv'
<1>1. keys' \in 0 .. MaxKeys
  <2>1. keys \in 0 .. MaxKeys /\ keys < MaxKeys /\ keys' = keys + 1
    BY DEF Type, ChannelInv, Types, TypeOK
  <2> QED BY <2>1, ChannelAssumption
<1>2. /\ HostStep /\ Push([kind |-> k, s |-> sess]) /\ hp = "loop" /\ hp' = "loop"
      /\ UNCHANGED <<last, grabbed, starting, next, sess>>
  BY DEF Type
<1> QED BY <1>1, <1>2, PushKeeps

(* Where the host does nothing but go on. *)
LEMMA HostMoves ==
  ASSUME ChannelInv, Launch \/ Check \/ Leave
  PROVE  ChannelInv'
<1> USE DEF HostStep, isrVars, cellVars, conVars, coreVars
<1>0. /\ Types /\ Handshake /\ Progress /\ Silence /\ Balance /\ Numbered /\ Epochs /\ Sent
  BY DEF ChannelInv
<1>a. /\ UNCHANGED <<cmd, dropped, echo, resetReq, unacked, status, resp, line, menu, wasMenu, dirty, fifo,
                     flags, pc, job, serial, cur, next, sess, keys>>
      /\ hp' \in {"off", "probe", "probe2", "undetected", "reset"}
      /\ hp' # "off" => ~Pending
      /\ hp' = "reset" => echo # "rearmed"
      /\ last' \in {last, FALSE} /\ grabbed' \in {grabbed, NoByte} /\ starting' \in {starting, TRUE}
  <2>1. CASE Launch
    BY <2>1 DEF Launch, Pending, Resetting
  <2>2. CASE Check
    <3>1. hp \in {"check", "check2"} /\ hp' \in {AfterCheck[hp], "undetected"}
      BY <2>2 DEF Check, AfterCheck
    <3>2. AfterCheck[hp] \in {"probe2", "reset"}
      BY <3>1 DEF AfterCheck
    <3>3. hp' = "reset" => echo # "rearmed"
      BY <2>2, <3>1 DEF Check
    <3>4. ~Pending
      BY <1>0, <3>1 DEF Handshake
    <3> QED BY <2>2, <3>1, <3>2, <3>3, <3>4 DEF Check
  <2>3. CASE Leave
    BY <2>3 DEF Leave
  <2> QED BY <2>1, <2>2, <2>3
<1>b. Pending' = Pending /\ Epoch' = Epoch /\ Out' = Out
  BY <1>a DEF Pending, Epoch, Out
<1>1. Types'
  <2>1. NoByte \in RespByte
    BY ChannelAssumption DEF NoByte, RespByte, Session
  <2>2. last' \in BOOLEAN /\ starting' \in BOOLEAN /\ grabbed' \in RespByte
    BY <1>0, <1>a, <2>1 DEF Types, TypeOK
  <2>3. hp' \in HostPoints
    BY <1>a DEF HostPoints
  <2> QED BY <1>0, <1>a, <2>2, <2>3 DEF Types, TypeOK
<1>2. Handshake'
  BY <1>0, <1>a, <1>b DEF Handshake
<1>3. Progress'
  BY <1>0, <1>a DEF Progress
<1>4. Silence'
  BY <1>0, <1>a DEF Silence
<1>5. Balance'
  BY <1>0, <1>a DEF Balance
<1>6. Numbered'
  BY <1>0, <1>a, <1>b DEF Numbered
<1>7. Epochs'
  BY <1>0, <1>a, <1>b DEF Epochs
<1>8. Sent'
  BY <1>0, <1>a DEF Sent, Delivered
<1> QED BY <1>1, <1>2, <1>3, <1>4, <1>5, <1>6, <1>7, <1>8 DEF ChannelInv

(* A reset opens a session, in which nothing has been sent: what core 0 has at hand
   belongs to the one before. *)
LEMMA ResetKeeps ==
  ASSUME ChannelInv, Reset
  PROVE  ChannelInv'
<1> USE DEF HostStep, cellVars, conVars, coreVars
<1>0. /\ Types /\ Handshake /\ Progress /\ Silence /\ Balance /\ Numbered /\ Epochs /\ Sent
  BY DEF ChannelInv
<1>a. /\ hp = "reset" /\ hp' = "settle" /\ resetReq' = TRUE /\ sess' = sess + 1 /\ next' = 1
      /\ sess < MaxSessions
      /\ UNCHANGED <<cmd, dropped, echo, unacked, status, resp, line, menu, wasMenu, dirty, fifo,
                     flags, pc, job, serial, cur, last, grabbed, starting, keys>>
  BY DEF Reset, RequestReset
<1>b. ~Pending /\ echo # "rearmed" /\ sess \in Nat /\ sess' \in Session /\ sess' > 0
  BY <1>0, <1>a, ChannelAssumption DEF Handshake, Types, TypeOK, Session
<1>c. Pending' /\ Epoch' = Epoch
  <2>1. Pending'
    BY <1>a DEF Pending
  <2>2. sess' - 1 = sess
    BY <1>a, <1>b
  <2> QED BY <1>b, <2>1, <2>2 DEF Epoch
<1>d. pc \notin Resetting
  BY <1>b DEF Pending
<1>1. Types'
  <2>1. resetReq' \in BOOLEAN /\ hp' \in HostPoints /\ next' \in Nat \ {0}
    BY <1>a DEF HostPoints
  <2> QED BY <1>0, <1>a, <1>b, <2>1 DEF Types, TypeOK
<1>2. Handshake'
  BY <1>a, <1>b, <1>c, <1>d DEF Handshake, Resetting
<1>3. Progress'
  BY <1>a, <1>d DEF Progress, Resetting
<1>4. Silence'
  BY <1>a, <1>b DEF Silence
<1>5. Balance'
  BY <1>0, <1>a DEF Balance
<1>6. Numbered'
  BY <1>c DEF Numbered
<1>7. Epochs'
  BY <1>0, <1>a, <1>c DEF Epochs
<1>8. Sent'
  BY <1>0, <1>a DEF Sent, Delivered
<1> QED BY <1>1, <1>2, <1>3, <1>4, <1>5, <1>6, <1>7, <1>8 DEF ChannelInv

(* The host reads the cells and takes its next decision. *)
LEMMA HostReads ==
  ASSUME ChannelInv, ~Impatient, Settle \/ SeedPhase \/ ReadStatus \/ ReadMore \/ Grab
  PROVE  ChannelInv'
<1> USE DEF HostStep, isrVars, cellVars, conVars, coreVars
<1>0. /\ Types /\ Handshake /\ Progress /\ Silence /\ Balance /\ Numbered /\ Epochs /\ Sent
  BY DEF ChannelInv
<1>a. /\ UNCHANGED <<cmd, dropped, echo, resetReq, unacked, status, resp, line, menu, wasMenu, dirty, fifo,
                     flags, pc, job, serial, cur, next, sess, keys>>
      /\ last' \in {last, status.phase} /\ grabbed' \in {grabbed, resp} /\ starting' \in {starting, FALSE}
      /\ \/ hp = "settle" /\ echo = "rearmed" /\ hp' = "phase"
         \/ hp = "phase" /\ last' = status.phase /\ hp' \in {"cr", "loop"}
         \/ hp = "loop" /\ status.over /\ hp' = "reset"
         \/ hp \in {"loop", "more"} /\ status.phase # last /\ last' = last /\ hp' = "grab"
         \/ hp = "more" /\ last' = last /\ hp' = "loop"
         \/ hp = "grab" /\ last' = last /\ grabbed' = resp /\ hp' = "ack"
  BY DEF Settle, SeedPhase, ReadStatus, ReadMore, Grab
<1>b. Pending' = Pending /\ Epoch' = Epoch /\ Out' = Out /\ ~Pending
  BY <1>0, <1>a DEF Pending, Epoch, Out, Handshake, Resetting
<1>1. Types'
  <2>1. last' \in BOOLEAN /\ starting' \in BOOLEAN /\ grabbed' \in RespByte
    BY <1>0, <1>a DEF Types, TypeOK, Flags
  <2>2. hp' \in HostPoints
    BY <1>a DEF HostPoints
  <2> QED BY <1>0, <1>a, <2>1, <2>2 DEF Types, TypeOK
<1>2. Handshake'
  BY <1>0, <1>a, <1>b DEF Handshake, Silence
<1>3. Progress'
  BY <1>0, <1>a DEF Progress
<1>4. Silence'
  BY <1>0, <1>a DEF Silence
<1>5. Balance'
  <2>1. hp = "phase" => unacked = 0
    BY <1>0 DEF Handshake, Silence
  <2> QED BY <1>0, <1>a, <2>1 DEF Balance
<1>6. Numbered'
  <2>1. hp = "grab" => Out = 1
    BY <1>0 DEF Balance, Out
  <2> QED BY <1>0, <1>a, <1>b, <2>1 DEF Numbered
<1>7. Epochs'
  BY <1>0, <1>a, <1>b DEF Epochs
<1>8. Sent'
  BY <1>0, <1>a DEF Sent, Delivered
<1> QED BY <1>1, <1>2, <1>3, <1>4, <1>5, <1>6, <1>7, <1>8 DEF ChannelInv

(* An acknowledge settles the byte that is out. *)
LEMMA AckKeeps ==
  ASSUME ChannelInv, Ack
  PROVE  ChannelInv'
<1> USE DEF HostStep, cellVars, conVars, coreVars
<1>0. /\ Types /\ Handshake /\ Progress /\ Silence /\ Balance /\ Numbered /\ Epochs /\ Sent
  BY DEF ChannelInv
<1>a. /\ hp = "ack" /\ hp' = "more" /\ unacked' = unacked - 1 /\ last' = ~last /\ next' = next + 1
      /\ grabbed' = NoByte
      /\ UNCHANGED <<cmd, dropped, echo, resetReq, status, resp, line, menu, wasMenu, dirty, fifo,
                     flags, pc, job, serial, cur, starting, sess, keys>>
  BY DEF Ack, Acknowledge
<1>b. unacked = 1 /\ unacked' = 0 /\ pc # "announce" /\ Out = 1 /\ Out' = 0
  BY <1>0, <1>a DEF Balance, Out
<1>c. /\ Pending' = Pending /\ Epoch' = Epoch /\ ~Pending /\ echo # "rearmed"
      /\ pc \notin Resetting /\ pc # "sent"
  BY <1>0, <1>a, <1>b DEF Pending, Epoch, Handshake, Silence, Sent, Delivered
<1>d. next \in Nat \ {0} /\ serial \in Nat /\ fifo \in Seq(RespByte) /\ Len(fifo) \in Nat
  BY <1>0 DEF Types, TypeOK
<1>1. Types'
  <2>1. grabbed' \in RespByte
    BY <1>a, ChannelAssumption DEF NoByte, RespByte, Session
  <2>2. last' \in BOOLEAN
    BY <1>a
  <2>3. hp' \in HostPoints /\ unacked' \in Int /\ next' \in Nat \ {0}
    BY <1>a, <1>b, <1>d DEF HostPoints
  <2> QED BY <1>0, <1>a, <2>1, <2>2, <2>3 DEF Types, TypeOK
<1>2. Handshake'
  BY <1>0, <1>a, <1>c DEF Handshake
<1>3. Progress'
  BY <1>a, <1>c DEF Progress, Resetting
<1>4. Silence'
  BY <1>a, <1>c DEF Silence
<1>5. Balance'
  <2>1. status.phase # last /\ status.phase \in BOOLEAN /\ last \in BOOLEAN
    BY <1>0, <1>a DEF Balance, Types, TypeOK, Flags
  <2>2. status'.phase = last'
    BY <1>a, <2>1
  <2> QED BY <1>0, <1>a, <1>b, <2>2 DEF Balance
<1>6. Numbered'
  <2>1. serial = next - 1 + Out + Len(fifo)
    BY <1>0, <1>c DEF Numbered
  <2>2. serial = (next + 1) - 1 + 0 + Len(fifo)
    BY <1>b, <1>d, <2>1
  <2>3. serial' = next' - 1 + Out' + Len(fifo')
    BY <1>a, <1>b, <2>2
  <2>4. \A i \in 1 .. Len(fifo') : fifo'[i] = [s |-> sess', n |-> next' - 1 + Out' + i]
    <3> SUFFICES ASSUME NEW i \in 1 .. Len(fifo)
                 PROVE  fifo[i] = [s |-> sess, n |-> (next + 1) - 1 + 0 + i]
      BY <1>a, <1>b
    <3>1. fifo[i] = [s |-> sess, n |-> next - 1 + Out + i]
      BY <1>0, <1>c DEF Numbered
    <3>2. next - 1 + Out + i = (next + 1) - 1 + 0 + i
      BY <1>b, <1>d
    <3> QED BY <3>1, <3>2
  <2> QED BY <1>a, <1>b, <2>3, <2>4 DEF Numbered
<1>7. Epochs'
  BY <1>0, <1>a, <1>c DEF Epochs
<1>8. Sent'
  BY <1>a, <1>c DEF Sent
<1> QED BY <1>1, <1>2, <1>3, <1>4, <1>5, <1>6, <1>7, <1>8 DEF ChannelInv

-----------------------------------------------------------------------------
(* The invariant holds throughout. *)

LEMMA ChannelStart == Init => ChannelInv
<1> SUFFICES ASSUME Init PROVE ChannelInv
  OBVIOUS
<1>1. Types
  <2>1. job \in Jobs /\ pc \in CorePoints /\ hp \in HostPoints
        /\ job \in [left : Nat, ret : CorePoints, back : CorePoints, parts : 0 .. 3]
    BY DEF Init, Jobs, Returns, Resumes, CorePoints, HostPoints
  <2>2. flags \in Flags /\ status \in Flags
    BY DEF Init, Flags
  <2>3. resp \in RespByte /\ grabbed \in RespByte /\ cur \in Session /\ sess \in Session
    BY ChannelAssumption DEF Init, NoByte, RespByte, Session
  <2>4. /\ cmd \in Seq(CmdByte) /\ Len(cmd) < CmdSize
        /\ fifo \in Seq(RespByte) /\ Len(fifo) < RespSize
        /\ line \in Seq(Session) /\ Len(line) <= LineCap
    BY ChannelAssumption, EmptyFacts DEF Init
  <2>5. /\ dropped \in BOOLEAN /\ resetReq \in BOOLEAN /\ wasMenu \in BOOLEAN /\ dirty \in BOOLEAN
        /\ last \in BOOLEAN /\ starting \in BOOLEAN
    BY DEF Init
  <2>6. /\ echo \in Kinds \cup {"rearmed"} /\ unacked \in Int /\ serial \in Nat
        /\ menu \in {"none", "cdc", "via"} /\ next \in Nat \ {0} /\ keys \in 0 .. MaxKeys
    BY ChannelAssumption DEF Init
  <2> QED BY <2>1, <2>2, <2>3, <2>4, <2>5, <2>6 DEF Types, TypeOK
<1>2. ~Pending /\ Epoch = 0 /\ Out = 0
  BY DEF Init, Pending, Epoch, Out, Resetting
<1>3. Handshake /\ Progress /\ Silence /\ Balance /\ Sent
  BY <1>2 DEF Init, Handshake, Progress, Silence, Balance, Sent, Quiet
<1>4. Numbered /\ Epochs
  BY <1>2, EmptyFacts DEF Init, Numbered, Epochs
<1> QED BY <1>1, <1>3, <1>4 DEF ChannelInv

LEMMA ChannelStep ==
  ASSUME Impatient = FALSE, ChannelInv, [Next]_vars
  PROVE  ChannelInv'
<1>1. CASE UNCHANGED vars
  BY <1>1 DEF vars, isrVars, cellVars, conVars, coreVars, hostVars, ChannelInv, Types, TypeOK, Handshake, Progress,
              Silence, Balance, Numbered, Epochs, Sent, Pending, Epoch, Out, Delivered
<1>2. CASE Host
  <2>1. CASE \E k \in Kinds \ {"noise"} : Type(k)
    BY <2>1, TypeKeeps
  <2> QED BY <1>2, <2>1, ProbeKeeps, HelloKeeps, HostMoves, ResetKeeps, HostReads, AckKeeps
          DEF Host, HostProgress
<1>3. CASE Core0
  BY <1>3, AnnounceKeeps, RespWriteKeeps, BlobBeginKeeps, BlobWriteKeeps, BlobDrainKeeps, BlobSentKeeps,
     PollBeginKeeps, RebaseKeeps, FlushKeeps, ClearKeeps, ShowKeeps, RearmKeeps,
     BranchKeeps, FeedMenuKeeps, PaintMenuKeeps, DrainRingKeeps, PumpBeginKeeps, PollMoves, PumpEndKeeps
  DEF Core0
<1> QED BY <1>1, <1>2, <1>3 DEF Next

THEOREM ChannelInvAlways == ASSUME Impatient = FALSE PROVE Spec => []ChannelInv
<1>1. ChannelInv /\ [Next]_vars => ChannelInv'
  BY ChannelStep
<1> QED BY <1>1, ChannelStart, PTL DEF Spec

(* Type correctness: both rings and the line stay inside their buffers, whatever
   their sizes (mgmt_chan_cmd_push, resp_write, the line engine). *)
THEOREM TypeCorrect == ASSUME Impatient = FALSE PROVE Spec => []TypeOK
<1>1. ChannelInv => TypeOK
  BY DEF ChannelInv, Types
<1> QED BY <1>1, ChannelInvAlways, PTL

(* The host acknowledges the reply bytes of its own session one by one, in the order
   in which core 0 wrote them (mgmt_chan_publish, dmaterm's poll loop). *)
THEOREM InOrderAlways == ASSUME Impatient = FALSE PROVE Spec => []InOrder
<1>1. ChannelInv => InOrder
  <2> SUFFICES ASSUME ChannelInv, hp = "ack" PROVE grabbed = [s |-> sess, n |-> next]
    BY DEF InOrder
  <2>1. ~Pending
    BY DEF ChannelInv, Handshake
  <2> QED BY <2>1 DEF ChannelInv, Numbered
<1> QED BY <1>1, ChannelInvAlways, PTL

(* At most one byte is out, and then the host can see it: neither a reset nor a host
   that leaves makes the counts of served and acknowledged bytes drift apart. *)
THEOREM AckIsDueAlways == ASSUME Impatient = FALSE PROVE Spec => []AckIsDue
<1>1. ChannelInv => AckIsDue
  BY DEF ChannelInv, Balance, AckIsDue
<1> QED BY <1>1, ChannelInvAlways, PTL

(* A session starts on a silent channel, with an empty line, and the flush takes
   nothing of it (take_reset, session_settle). *)
THEOREM CleanSessionAlways == ASSUME Impatient = FALSE PROVE Spec => []CleanSession
<1>1. ChannelInv => CleanSession
  <2> SUFFICES ASSUME ChannelInv PROVE CleanSession
    OBVIOUS
  <2>0. Types /\ Handshake /\ Silence /\ Epochs
    BY DEF ChannelInv
  <2>1. hp \in {"phase", "cr"} => fifo = <<>> /\ ~status.ready /\ pc # "announce"
    BY <2>0 DEF Handshake, Silence, Quiet
  <2>2. pc = "drain" => \A i \in 1 .. Len(line) : line[i] = cur
    BY <2>0, EmptyFacts DEF Epochs
  <2>3. pc = "flush" => \A i \in 1 .. Len(cmd) : cmd[i].s < sess
    <3> SUFFICES ASSUME pc = "flush", NEW i \in 1 .. Len(cmd) PROVE cmd[i].s < sess
      OBVIOUS
    <3>1. cmd[i].s = sess - 1
      BY <2>0 DEF Epochs, Epoch, Pending, Resetting
    <3>2. sess \in Nat
      BY <2>0, ChannelAssumption DEF Types, TypeOK, Session
    <3> QED BY <3>1, <3>2
  <2> QED BY <2>1, <2>2, <2>3 DEF CleanSession
<1> QED BY <1>1, ChannelInvAlways, PTL

(* A part of a download that has been sent has been acknowledged to its last byte
   (mgmt_chan_blob_send). *)
THEOREM BlobDeliveredAlways == ASSUME Impatient = FALSE PROVE Spec => []BlobDelivered
<1>1. ChannelInv => BlobDelivered
  <2> SUFFICES ASSUME ChannelInv, pc = "sent", ~resetReq PROVE next = serial + 1
    BY DEF BlobDelivered
  <2>1. /\ ~Pending /\ Out = 0 /\ Len(fifo) = 0
        /\ next \in Nat \ {0} /\ serial \in Nat
    BY EmptyFacts DEF ChannelInv, Sent, Delivered, Pending, Resetting, Out, Types, TypeOK
  <2>2. serial = next - 1 + Out + Len(fifo)
    BY <2>1 DEF ChannelInv, Numbered
  <2> QED BY <2>1, <2>2
<1> QED BY <1>1, ChannelInvAlways, PTL
=============================================================================
