--------------------------- MODULE FujiLinkProofs ---------------------------
(***************************************************************************)
(* Proofs about the FujiNet link, for every number of targets, entries,    *)
(* retries, calls and faults that the tags allow (TagsAssumption): no      *)
(* stale reply is accepted, a mounted target is served its own image, a    *)
(* read returns what was written last, a listing is complete up to its cap *)
(* but for what repeated requests skip.  A tag cannot come round while its *)
(* request waits, since each new tag is paid for by a time-out, a reply, a *)
(* place in the queue or a fault, and a waiting request sees few of these. *)
(***************************************************************************)
EXTENDS FujiLink, TLAPS

-----------------------------------------------------------------------------
(* Tags. *)

(* Time-outs while the requests up to place i are served. *)
Weight(i) == i * MaxWait

Bound == QueueCap * (MaxWait + 2) + MaxFaults - 1

(* What the request at place i can still wait for: time-outs until it and those before
   it are served, their replies, sends the queue has room for, and sends that are lost. *)
Timeouts(i) == Weight(i) - waited
Room(i) == QueueCap - Len(inbox) + 2 * (i - 1)
Losses == MaxFaults - faults
ToCome(i) == Timeouts(i) + Room(i) + Losses

(* What is already on its way: a tag, when an attempt has ended the transaction, the end
   of this attempt, and that of the one whose send meets the reply. *)
TagsDue == IF pc \in {"send", "recv"} THEN 0 ELSE 1
Receiving == IF pc = "recv" THEN 1 ELSE 0
ReplyArmed == IF armed = "reply" THEN 1 ELSE 0
OnTheWay == TagsDue + Receiving + ReplyArmed

InTime ==
  /\ \A i \in DOMAIN inbox : inbox[i].age + OnTheWay + ToCome(i) <= Bound
  /\ armed = "reply" => out.age + TagsDue <= Bound

(* Ages tell the requests apart, and the reply is to one that came before them. *)
Ordered ==
  /\ \A i, j \in DOMAIN inbox : i < j => inbox[i].age > inbox[j].age
  /\ armed = "reply" => \A i \in DOMAIN inbox : out.age > inbox[i].age

(* Only the request that was just sent has the tag of this attempt. *)
TagIsNew ==
  /\ pc = "send" => /\ \A i \in DOMAIN inbox : inbox[i].age > 0
                    /\ armed = "reply" => out.age > 0
  /\ pc = "recv" => \A i \in DOMAIN inbox :
                      inbox[i].age = 0 => inbox[i].do = step /\ inbox[i].of = call

Tags == InTime /\ Ordered /\ TagIsNew /\ NothingOutstanding

-----------------------------------------------------------------------------
(* Calls. *)

(* What an idle core leaves, and what a call has not begun with. *)
Rested ==
  /\ pc = "idle" => call = NoCall /\ step = "ping"
  /\ pc = "idle" \/ (call.kind = "list" /\ step \in {"host", "open"}) => walk = NoWalk /\ again = 0

(* The transactions a call is made of. *)
Stages ==
  /\ step \in {"select", "mountall"} => call.kind \in {"mount", "boot"}
  /\ step = "select" => call.kind = "mount"
  /\ step = "read" => call.kind = "read"
  /\ step = "put" => call.kind = "write"

(* What waits in the module, without tags. *)
Asked == {[do |-> inbox[i].do, of |-> inbox[i].of] : i \in DOMAIN inbox}
Asking == [do |-> step, of |-> call]

(* A transaction that follows a success meets no other request in the module. *)
Steady == step \in {"open", "entry", "select", "mountall"} => Asked \subseteq {Asking}

Calls == Rested /\ Stages /\ Steady

-----------------------------------------------------------------------------
(* Images. *)

(* A slot changes only while it is open what its target serves. *)
OpenWhileSelected ==
  /\ \A q \in Asked : q.do = "select" => want[q.of.t] = None
  /\ call.kind = "mount" /\ step \in {"unmount", "select", "mountall"} => want[call.t] = None

SlotsAsWanted == \A t \in Targets : want[t] # None => conf[t] = want[t] /\ live[t] \in {None, want[t]}

SelectedForMount == call.kind = "mount" /\ step = "mountall" => conf[call.t] = call.img

(* The image a write to target t can reach. *)
Reaches(t, i) ==
  \/ live[t] = i
  \/ conf[t] = i
  \/ \E q \in Asked : q.do = "select" /\ q.of.t = t /\ q.of.img = i

Accounted(c) == \A i \in Images : Reaches(c.t, i) => c.n \in vals[i]

WritesAccounted ==
  /\ \A q \in Asked : q.do = "put" => Accounted(q.of)
  /\ step = "put" => Accounted(call)
  /\ \A i \in Images : disk[i] \in vals[i]

Slots == OpenWhileSelected /\ SlotsAsWanted /\ SelectedForMount /\ WritesAccounted

-----------------------------------------------------------------------------
(* Answers. *)

Passed == LastEntry - Len(dir.left)

(* A walk goes through the entries in order and up to the cap, ... *)
Ascends == \A i, j \in DOMAIN walk.found : i < j => walk.found[i] < walk.found[j]
BelowCap == Len(walk.found) < WalkCap

Remains ==
  /\ Len(dir.left) <= LastEntry
  /\ \A j \in DOMAIN dir.left : dir.left[j] = Passed + j
  /\ \A i \in DOMAIN walk.found : walk.found[i] <= Passed

(* ... and each request for an entry passes one of them at most. *)
Requests == Len(inbox) + (IF pc = "send" THEN 1 ELSE 0)
MissesFew == Passed + Requests <= Len(walk.found) + 1 + again

WalkGoesOn ==
  call.kind = "list" /\ step = "entry" =>
    Ascends /\ BelowCap /\ (dir.open => Remains /\ MissesFew)

(* What the payload p of a positive reply says. *)
Means(p) ==
  /\ step = "select" => conf[call.t] = call.img
  /\ step = "mountall" => \A t \in Targets : live[t] \in {None, conf[t]}
  /\ step = "read" /\ want[call.t] # None => p.img = want[call.t] /\ p.v = disk[p.img]
  /\ step = "put" /\ want[call.t] # None => disk[want[call.t]] = call.n
  /\ step = "open" /\ call.kind = "list" /\ dir.open => dir.left = Listing
  /\ step = "entry" /\ call.kind = "list" /\ p # End
       => /\ p.img \in Entries
          /\ \A i \in DOMAIN walk.found : walk.found[i] < p.img
          /\ dir.open => p.img <= Passed
  /\ step = "entry" /\ call.kind = "list" /\ p = End => LastEntry <= Len(walk.found) + again

AnswersTrue ==
  /\ pc = "answered" => Means(got)
  /\ pc = "recv" /\ armed = "reply" /\ out.age = 0 /\ out.ack => Means(out.payload)

IInv == TypeOK /\ Tags /\ Calls /\ Slots /\ WalkGoesOn /\ AnswersTrue /\ ListIsFaithful
-----------------------------------------------------------------------------
(* Types. *)

(* What a call consists of. *)
LEMMA CallFields ==
  ASSUME NEW c \in Call
  PROVE  /\ c.kind \in {"read", "write", "eject", "mount", "boot", "list", "join", "query"}
         /\ c.t \in Targets /\ c.img \in OrNone /\ c.n \in 1 .. MaxCalls
         /\ c.kind = "mount" => c.img \in Images
         /\ c.kind = "list" => c.img = None
<1>1. CASE c \in [kind : {"read", "write", "eject"}, t : Targets, img : {None}, n : 1 .. MaxCalls]
  BY <1>1 DEF OrNone
<1>2. CASE c \in [kind : {"mount"}, t : Targets, img : Images, n : 1 .. MaxCalls]
  BY <1>2 DEF OrNone
<1>3. CASE c \in [kind : {"boot", "list", "join", "query"}, t : {0}, img : {None}, n : 1 .. MaxCalls]
  BY <1>3, LinkAssumption DEF OrNone
<1>4. QED
  BY <1>1, <1>2, <1>3 DEF Call

(* The constants and the literals. *)
LEMMA Literals ==
  /\ LastEntry \in Nat /\ None \notin Entries /\ Nothing \in Data /\ NoCall \in Call
  /\ Images \subseteq Entries /\ None \notin Images
  /\ NoWalk \in [found : Seq(Entries), ok : BOOLEAN]
  /\ NoReply \in [age : Age, ack : BOOLEAN, payload : Data]
  /\ Closed \in [open : BOOLEAN, left : Seq(Entries)]
  /\ Listing \in Seq(Entries) /\ Len(Listing) = LastEntry
<1>1. /\ LastEntry \in Nat /\ None \notin Entries /\ Nothing \in Data
      /\ Images \subseteq Entries /\ None \notin Images
  BY LinkAssumption DEF Entries, Data
<1>2. NoCall \in Call /\ 0 \in Age
  BY LinkAssumption DEF NoCall, Call, Age
<1>3. Listing \in Seq(Entries) /\ Len(Listing) = LastEntry
  BY LinkAssumption DEF Listing, Entries
<1>4. QED
  BY <1>1, <1>2, <1>3 DEF NoWalk, NoReply, Closed

(* A new tag leaves requests and reply typed, ... *)
LEMMA NewTagTyped ==
  ASSUME TypeOK, NewTag
  PROVE  /\ inbox' \in Seq(Request) /\ Len(inbox') = Len(inbox) /\ DOMAIN inbox' = DOMAIN inbox
         /\ \A i \in DOMAIN inbox : inbox'[i] = Older(inbox[i])
         /\ out' \in [age : Age, ack : BOOLEAN, payload : Data]
<1>1. \A m \in Request : Older(m) \in Request
  BY LinkAssumption DEF Older, Request, Age
<1>2. inbox \in Seq(Request) /\ Len(inbox) \in Nat /\ DOMAIN inbox = 1 .. Len(inbox)
  BY DEF TypeOK
<1>3. inbox' = [i \in 1 .. Len(inbox) |-> Older(inbox[i])]
  BY <1>2 DEF NewTag
<1>4. inbox' \in Seq(Request) /\ Len(inbox') = Len(inbox)
  BY <1>1, <1>2, <1>3
<1>5. out' \in [age : Age, ack : BOOLEAN, payload : Data]
  <2>1. (out.age + 1) % TagWrap \in Age
    BY LinkAssumption DEF TypeOK, Age
  <2>2. Older(out) \in [age : Age, ack : BOOLEAN, payload : Data]
    BY <2>1 DEF Older, TypeOK
  <2>3. QED
    BY <2>2 DEF NewTag, TypeOK
<1>6. QED
  BY <1>2, <1>3, <1>4, <1>5

(* ... and so does whatever ends an attempt, ... *)
LEMMA RetryTyped ==
  ASSUME TypeOK, Retry
  PROVE  /\ pc' \in {"send", "failed"} /\ attempt' \in 1 .. Retries /\ again' \in Nat
         /\ inbox' \in Seq(Request) /\ Len(inbox') = Len(inbox)
         /\ out' \in [age : Age, ack : BOOLEAN, payload : Data]
<1>1. CASE attempt < Attempts
  <2>1. pc' = "send" /\ attempt' = attempt + 1 /\ NewTag /\ AsksAgain
    BY <1>1 DEF Retry
  <2>2. attempt' \in 1 .. Retries /\ again' \in Nat
    BY <1>1, <2>1, LinkAssumption DEF Attempts, AsksAgain, TypeOK
  <2>3. QED
    BY <2>1, <2>2, NewTagTyped
<1>2. CASE ~(attempt < Attempts)
  BY <1>2 DEF Retry, TypeOK
<1>3. QED
  BY <1>1, <1>2

(* ... the beginning of a transaction, ... *)
LEMMA GoesTyped ==
  ASSUME TypeOK, NEW s \in Steps, Goes(s), pc # "idle",
         walk' \in [found : Seq(Entries), ok : BOOLEAN], want' \in [Targets -> OrNone]
  PROVE  TypeOK'
<1>1. /\ pc' = "send" /\ step' = s /\ attempt' = 1 /\ NewTag
      /\ UNCHANGED <<call, got, mounted, calls, vals, again, armed, waited, disk, conf, live, host, dir, faults>>
  BY DEF Goes, Transact, Others, espVars
<1>2. attempt' \in 1 .. Retries
  BY <1>1, LinkAssumption
<1>3. QED
  BY <1>1, <1>2, NewTagTyped DEF TypeOK

(* ... and the end of a call. *)
LEMMA ReturnsTyped ==
  ASSUME TypeOK, Returns, mounted' \in [Targets -> BOOLEAN], want' \in [Targets -> OrNone],
         vals' \in [Images -> SUBSET (0 .. MaxCalls)]
  PROVE  TypeOK'
<1>1. /\ pc' = "idle" /\ step' = "ping" /\ attempt' = 1 /\ got' = Nothing /\ walk' = NoWalk
      /\ call' = NoCall /\ again' = 0
      /\ UNCHANGED <<calls, inbox, out, armed, waited, disk, conf, live, host, dir, faults>>
  BY DEF Returns, Others, espVars
<1>2. attempt' \in 1 .. Retries /\ step' \in Steps
  BY <1>1, LinkAssumption DEF Steps
<1>3. QED
  BY <1>1, <1>2, Literals DEF TypeOK

(* What the module does to a request is typed. *)
LEMMA EspTyped ==
  ASSUME TypeOK, Esp
  PROVE  TypeOK'
<1> USE DEF coreVars, espVars, histVars
<1>1. CASE EspServe
  <2> DEFINE r == Head(inbox)
  <2>1. /\ r \in Request /\ inbox' \in Seq(Request) /\ Len(inbox') <= QueueCap /\ r.of \in Call
        /\ r.age \in Age
    <3>1. inbox # <<>> /\ inbox \in Seq(Request) /\ inbox' = Tail(inbox) /\ Len(inbox) <= QueueCap
      BY <1>1 DEF EspServe, TypeOK
    <3>2. r \in Request /\ inbox' \in Seq(Request) /\ Len(inbox') <= QueueCap
      BY <3>1, LinkAssumption
    <3>3. QED
      BY <3>2 DEF Request
  <2>2. r.of.t \in Targets /\ r.of.img \in OrNone /\ r.of.n \in 1 .. MaxCalls
    BY <2>1, CallFields
  <2>3. faults' \in 0 .. MaxFaults
    BY <1>1, LinkAssumption DEF EspServe, Fault, TypeOK
  <2>4. Nak(r) \in [age : Age, ack : BOOLEAN, payload : Data]
    BY <2>1, Literals DEF Nak
  <2>5. CASE Serves(r) /\ out' = Reply(r)
    <3>1. disk' \in [Images -> 0 .. MaxCalls]
      BY <2>2, <2>5 DEF Serves, TypeOK, OrNone
    <3>2. conf' \in [Targets -> OrNone] /\ live' \in [Targets -> OrNone] /\ host' \in BOOLEAN
      BY <2>2, <2>5 DEF Serves, TypeOK, OrNone
    <3>3. dir' \in [open : BOOLEAN, left : Seq(Entries)]
      <4>1. Listing \in Seq(Entries) /\ Closed \in [open : BOOLEAN, left : Seq(Entries)]
        BY Literals
      <4>2. r.of.img # None => <<r.of.img>> \in Seq(Entries)
        BY <2>2, Literals DEF OrNone
      <4>3. dir.left # <<>> => [dir EXCEPT !.left = Tail(@)] \in [open : BOOLEAN, left : Seq(Entries)]
        <5>1. dir.left \in Seq(Entries) /\ (dir.left # <<>> => Tail(dir.left) \in Seq(Entries))
          BY DEF TypeOK
        <5>2. QED
          BY <5>1 DEF TypeOK
      <4>4. QED
        BY <2>5, <4>1, <4>2, <4>3 DEF Serves, TypeOK
    <3>4. Payload(r) \in Data \/ ~Succeeds(r)
      <4>1. CASE r.do = "read" /\ Succeeds(r)
        BY <2>2, <4>1, Literals DEF Succeeds, Payload, Sector, Data, TypeOK, OrNone
      <4>2. CASE r.do = "entry" /\ dir.left # <<>>
        <5>1. Head(dir.left) \in Entries
          BY <4>2 DEF TypeOK
        <5>2. QED
          BY <4>2, <5>1, LinkAssumption DEF Payload, Sector, Data
      <4>3. CASE r.do # "read" /\ ~(r.do = "entry" /\ dir.left # <<>>)
        BY <4>3, Literals DEF Payload
      <4>4. QED
        BY <4>1, <4>2, <4>3
    <3>5. out' \in [age : Age, ack : BOOLEAN, payload : Data]
      BY <2>1, <2>4, <2>5, <3>4 DEF Reply, Ack
    <3>6. QED
      BY <1>1, <2>1, <2>3, <3>1, <3>2, <3>3, <3>5, LinkAssumption DEF EspServe, TypeOK
  <2>6. CASE out' = Nak(r) /\ UNCHANGED espVars
    BY <1>1, <2>1, <2>3, <2>4, <2>6, LinkAssumption DEF EspServe, TypeOK
  <2>7. QED
    BY <1>1, <2>5, <2>6 DEF EspServe
<1>2. CASE EspListen
  BY <1>2 DEF EspListen, TypeOK
<1>3. CASE EspReboot
  <2>1. inbox' \in Seq(Request) /\ Len(inbox') = 0
    BY <1>3 DEF EspReboot
  <2>2. live' \in [Targets -> OrNone] /\ faults' \in 0 .. MaxFaults
    BY <1>3, LinkAssumption DEF EspReboot, OrNone, Fault, TypeOK
  <2>3. /\ Len(inbox') <= QueueCap /\ 0 \in 0 .. MaxWait
        /\ NoReply \in [age : Age, ack : BOOLEAN, payload : Data]
        /\ Closed \in [open : BOOLEAN, left : Seq(Entries)]
    BY <2>1, Literals, LinkAssumption
  <2>4. QED
    BY <1>3, <2>1, <2>2, <2>3 DEF EspReboot, TypeOK
<1>4. QED
  BY <1>1, <1>2, <1>3 DEF Esp

(* An attempt, ... *)
LEMMA TransactionTyped ==
  ASSUME TypeOK, Transaction
  PROVE  TypeOK'
<1> USE DEF InCall, espVars
<1>1. CASE Send
  <2>1. [age |-> 0, do |-> step, of |-> call] \in Request
    BY LinkAssumption DEF Request, TypeOK, Age
  <2>2. inbox' \in Seq(Request) /\ Len(inbox') <= QueueCap /\ faults' \in 0 .. MaxFaults
    BY <1>1, <2>1, LinkAssumption DEF Send, Fault, TypeOK
  <2>3. QED
    BY <1>1, <2>2, Literals DEF Send, TypeOK
<1>2. CASE SendTimesOut \/ RecvTimesOut
  <2>1. Retry /\ TimesOut
    BY <1>2 DEF SendTimesOut, RecvTimesOut
  <2>2. waited' \in 0 .. MaxWait
    BY <2>1, LinkAssumption DEF TimesOut, TypeOK
  <2>3. QED
    BY <1>2, <2>1, <2>2, RetryTyped DEF SendTimesOut, RecvTimesOut, TimesOut, TypeOK
<1>3. CASE Recv
  <2>1. faults' \in 0 .. MaxFaults
    BY <1>3, LinkAssumption DEF Recv, Fault, TypeOK
  <2>2. CASE Retry /\ UNCHANGED got
    BY <1>3, <2>1, <2>2, RetryTyped DEF Recv, TypeOK
  <2>3. CASE pc' = "answered" /\ got' = out.payload /\ UNCHANGED <<attempt, inbox, out, again>>
    BY <1>3, <2>1, <2>3 DEF Recv, TypeOK
  <2>4. QED
    BY <1>3, <2>2, <2>3 DEF Recv
<1>4. CASE RecvJunk
  BY <1>4, RetryTyped DEF RecvJunk, TypeOK
<1>5. QED
  BY <1>1, <1>2, <1>3, <1>4 DEF Transaction

(* ... and the rest of a call. *)
LEMMA CallerTyped ==
  ASSUME TypeOK, Caller
  PROVE  TypeOK'
<1> DEFINE Walked == walk' \in [found : Seq(Entries), ok : BOOLEAN]
           Wanted == want' \in [Targets -> OrNone]
<1>0. call.t \in Targets /\ call.img \in OrNone /\ call.n \in 1 .. MaxCalls
  BY CallFields DEF TypeOK
<1>1. CASE Begin
  <2>1. PICK c \in Call : /\ c.n = calls + 1
                          /\ c.kind \in {"read", "write", "eject"} => mounted[c.t]
                          /\ call' = c /\ Transact(First(c)) /\ MayWrite(c)
                          /\ IF c.kind = "eject" THEN Undecided(c.t) ELSE UNCHANGED want
    BY <1>1 DEF Begin
  <2>2. c.t \in Targets /\ c.n \in 1 .. MaxCalls /\ First(c) \in Steps
    BY CallFields DEF First, Steps
  <2>3. want' \in [Targets -> OrNone]
    BY <2>1, <2>2 DEF Undecided, TypeOK, OrNone
  <2>4. vals' \in [Images -> SUBSET (0 .. MaxCalls)]
    BY <2>1, <2>2 DEF MayWrite, TypeOK
  <2>5. pc' = "send" /\ step' \in Steps /\ attempt' \in 1 .. Retries /\ NewTag
    BY <2>1, <2>2, LinkAssumption DEF Transact
  <2>6. calls' \in 0 .. MaxCalls
    BY <1>1, LinkAssumption DEF Begin, TypeOK
  <2>7. QED
    BY <1>1, <2>1, <2>3, <2>4, <2>5, <2>6, NewTagTyped DEF Begin, Others, espVars, TypeOK
<1>2. ASSUME NEW s \in Steps, Goes(s), pc # "idle", Walked, Wanted PROVE TypeOK'
  BY <1>2, GoesTyped
<1>3. CASE Stats \/ Opens \/ Enters \/ Selects \/ MountsAll
  <2>1. Walked /\ Wanted
    BY <1>3 DEF Stats, Opens, Enters, Selects, MountsAll, TypeOK
  <2>2. QED
    BY <1>2, <1>3, <2>1 DEF Stats, Opens, Enters, Selects, MountsAll, After, Steps
<1>4. CASE Walks \/ CutsWalk
  <2>1. got.img \in Entries
    BY <1>4 DEF Walks, CutsWalk, SeesEntry, TypeOK, Data, End
  <2>2. Walked /\ Wanted
    <3>1. Append(walk.found, got.img) \in Seq(Entries)
      BY <2>1 DEF TypeOK
    <3>2. QED
      BY <1>4, <3>1 DEF Walks, CutsWalk, SeesEntry, TypeOK
  <2>3. QED
    BY <1>2, <1>4, <2>2 DEF Walks, CutsWalk, SeesEntry, After, Steps
<1>5. CASE EndsWalk
  <2>1. Walked /\ Wanted
    BY <1>5 DEF EndsWalk, TypeOK
  <2>2. QED
    BY <1>2, <1>5, <2>1 DEF EndsWalk, Steps
<1>6. CASE Unslots
  <2>1. Walked /\ Wanted
    BY <1>6 DEF Unslots, Undecided, TypeOK, OrNone
  <2>2. QED
    BY <1>2, <1>6, <2>1 DEF Unslots, Steps
<1>7. CASE Delivers
  <2>1. vals' \in [Images -> SUBSET (0 .. MaxCalls)]
    <3>1. got.v \in 0 .. MaxCalls
      BY LinkAssumption DEF TypeOK, Data, Nothing, Sector
    <3>2. QED
      BY <1>7, <3>1 DEF Delivers, TypeOK
  <2>2. QED
    BY <1>7, <2>1, ReturnsTyped DEF Delivers, TypeOK
<1>8. CASE Stores
  <2>1. vals' \in [Images -> SUBSET (0 .. MaxCalls)]
    <3>1. {call.n} \in SUBSET (0 .. MaxCalls)
      BY <1>0, LinkAssumption
    <3>2. QED
      BY <1>8, <3>1 DEF Stores, TypeOK
  <2>2. QED
    BY <1>8, <2>1, ReturnsTyped DEF Stores, TypeOK
<1>9. CASE Ejects \/ Mounts
  <2>1. mounted' \in [Targets -> BOOLEAN] /\ Wanted /\ vals' = vals
    BY <1>0, <1>9 DEF Ejects, Mounts, TypeOK
  <2>2. QED
    BY <1>9, <2>1, ReturnsTyped DEF Ejects, Mounts, TypeOK
<1>10. CASE MountFails \/ Lists \/ Talks
  BY <1>10, ReturnsTyped DEF MountFails, Lists, Talks, TypeOK
<1>11. QED
  BY <1>1, <1>3, <1>4, <1>5, <1>6, <1>7, <1>8, <1>9, <1>10 DEF Caller

(* The power-on state is typed. *)
LEMMA InitTyped == Init => TypeOK
<1> SUFFICES ASSUME Init PROVE TypeOK
  OBVIOUS
<1>1. <<>> \in Seq(Request) /\ Len(<<>>) = 0
  OBVIOUS
<1>2. attempt \in 1 .. Retries /\ step \in Steps
  BY LinkAssumption DEF Init, Steps
<1>3. /\ disk \in [Images -> 0 .. MaxCalls] /\ vals \in [Images -> SUBSET (0 .. MaxCalls)]
      /\ live \in [Targets -> OrNone] /\ want \in [Targets -> OrNone]
      /\ mounted \in [Targets -> BOOLEAN] /\ conf \in [Targets -> OrNone]
  BY LinkAssumption DEF Init, OrNone
<1>4. waited \in 0 .. MaxWait /\ calls \in 0 .. MaxCalls /\ faults \in 0 .. MaxFaults /\ again \in Nat
  BY LinkAssumption DEF Init
<1>5. inbox \in Seq(Request) /\ Len(inbox) <= QueueCap
  BY <1>1, LinkAssumption DEF Init
<1>6. QED
  BY <1>2, <1>3, <1>4, <1>5, Literals DEF Init, TypeOK, NoCall

(* Every step keeps the types. *)
LEMMA NextTyped == ASSUME TypeOK, [Next]_vars PROVE TypeOK'
<1>1. CASE UNCHANGED vars
  BY <1>1 DEF vars, coreVars, linkVars, espVars, histVars, TypeOK
<1>2. QED
  BY <1>1, EspTyped, TransactionTyped, CallerTyped DEF Next

(* Type correctness for every number of targets, images, retries, calls and faults:
   counters stay in range, the module holds no more requests than it can, and no read,
   write or eject is made on a target that is not mounted. *)
THEOREM TypeCorrect == Spec => []TypeOK
<1>1. TypeOK /\ [Next]_vars => TypeOK'
  BY NextTyped
<1>2. QED
  BY InitTyped, <1>1, PTL DEF Spec
-----------------------------------------------------------------------------
(* Tags do not come round again. *)

(* Places in the queue, weighed with the time-outs each of them can see. *)
LEMMA Weights ==
  /\ Bound = Weight(QueueCap) + 2 * QueueCap + MaxFaults - 1
  /\ Weight(QueueCap) \in Nat /\ Weight(0) = 0
  /\ \A i \in 1 .. QueueCap : /\ Weight(i) \in Nat /\ MaxWait <= Weight(i)
                              /\ Weight(i) <= Weight(QueueCap)
                              /\ Weight(i - 1) = Weight(i) - MaxWait
<1>1. QueueCap \in Nat /\ MaxWait \in Nat /\ MaxFaults \in Nat
  BY LinkAssumption
<1>2. QueueCap * (MaxWait + 2) = QueueCap * MaxWait + 2 * QueueCap
  BY <1>1
<1>3. Weight(QueueCap) \in Nat /\ Weight(0) = 0
  BY <1>1 DEF Weight
<1>4. ASSUME NEW i \in 1 .. QueueCap
      PROVE  /\ Weight(i) \in Nat /\ MaxWait <= Weight(i)
             /\ Weight(i) <= Weight(QueueCap)
             /\ Weight(i - 1) = Weight(i) - MaxWait
  <2>1. (i - 1) * MaxWait = i * MaxWait - MaxWait /\ i * MaxWait \in Nat
    BY <1>1
  <2>2. (i - 1) * MaxWait \in Nat /\ (QueueCap - i) * MaxWait \in Nat
    BY <1>1
  <2>3. (QueueCap - i) * MaxWait = QueueCap * MaxWait - i * MaxWait
    BY <1>1
  <2>4. QED
    BY <1>1, <1>3, <2>1, <2>2, <2>3 DEF Weight
<1>5. Bound = Weight(QueueCap) + 2 * QueueCap + MaxFaults - 1
  BY <1>2 DEF Bound, Weight
<1>6. QED
  BY <1>3, <1>4, <1>5

(* The numbers the tags are about. *)
LEMMA Counts ==
  ASSUME TypeOK
  PROVE  /\ QueueCap \in Nat \ {0} /\ MaxWait \in Nat /\ waited \in 0 .. MaxWait
         /\ MaxFaults \in Nat /\ faults \in 0 .. MaxFaults /\ TagWrap \in Nat \ {0}
         /\ inbox \in Seq(Request) /\ Len(inbox) \in 0 .. QueueCap /\ DOMAIN inbox = 1 .. Len(inbox)
         /\ \A i \in DOMAIN inbox : inbox[i].age \in Nat /\ i \in 1 .. QueueCap
         /\ out.age \in Nat /\ Bound \in Int /\ Bound < TagWrap
<1>1. inbox \in Seq(Request) /\ Len(inbox) \in 0 .. QueueCap /\ DOMAIN inbox = 1 .. Len(inbox)
  BY LinkAssumption DEF TypeOK
<1>2. \A i \in DOMAIN inbox : inbox[i].age \in Nat /\ i \in 1 .. QueueCap
  <2> SUFFICES ASSUME NEW i \in DOMAIN inbox PROVE inbox[i].age \in Nat /\ i \in 1 .. QueueCap
    OBVIOUS
  <2>1. inbox[i] \in Request
    BY <1>1
  <2>2. QED
    BY <1>1, <2>1, LinkAssumption DEF Request, Age
<1>3. Bound \in Int /\ Bound < TagWrap
  <2>1. QueueCap * (MaxWait + 2) = Weight(QueueCap) + 2 * QueueCap
    BY LinkAssumption DEF Weight
  <2>2. QED
    BY <2>1, Weights, LinkAssumption, TagsAssumption
<1>4. QED
  BY <1>1, <1>2, <1>3, LinkAssumption DEF TypeOK, Age

(* The same without what they count. *)
LEMMA Ranges ==
  ASSUME TypeOK
  PROVE  /\ QueueCap \in Nat /\ MaxWait \in Nat /\ waited \in Nat /\ waited <= MaxWait
         /\ MaxFaults \in Nat /\ faults \in Nat /\ faults <= MaxFaults /\ TagWrap \in Nat
         /\ Len(inbox) \in Nat /\ Len(inbox) <= QueueCap
         /\ \A i \in DOMAIN inbox :
              /\ inbox[i].age \in Nat /\ i \in Nat /\ 1 <= i /\ i <= Len(inbox)
              /\ Weight(i) \in Nat /\ MaxWait <= Weight(i)
         /\ out.age \in Nat /\ Bound \in Int /\ Bound < TagWrap
BY Counts, Weights

(* What a request can still wait for is at least the time-outs of the one before it. *)
LEMMA ToComeRange ==
  ASSUME TypeOK, NEW i \in DOMAIN inbox
  PROVE  /\ Timeouts(i) \in Nat /\ Room(i) \in Nat /\ Losses \in Nat /\ ToCome(i) \in Nat
         /\ MaxWait - waited <= ToCome(i)
<1>1. MaxWait <= Weight(i) /\ Weight(i) \in Nat /\ i \in Nat /\ 1 <= i /\ i <= Len(inbox)
  BY Ranges
<1>2. /\ waited \in Nat /\ waited <= MaxWait /\ MaxFaults \in Nat /\ faults \in Nat /\ faults <= MaxFaults
      /\ Len(inbox) \in Nat /\ Len(inbox) <= QueueCap /\ QueueCap \in Nat /\ MaxWait \in Nat
  BY Ranges
<1>3. Timeouts(i) \in Nat /\ MaxWait - waited <= Timeouts(i)
  BY <1>1, <1>2 DEF Timeouts
<1>4. Room(i) \in Nat
  BY <1>1, <1>2 DEF Room
<1>5. Losses \in Nat
  BY <1>2 DEF Losses
<1>6. QED
  BY <1>2, <1>3, <1>4, <1>5 DEF ToCome

(* What is on its way counts at most three. *)
LEMMA OnTheWayRange == /\ TagsDue \in {0, 1} /\ Receiving \in {0, 1} /\ ReplyArmed \in {0, 1}
                       /\ OnTheWay \in Nat /\ TagsDue <= OnTheWay /\ Receiving <= OnTheWay
BY DEF TagsDue, Receiving, ReplyArmed, OnTheWay

(* So its age has not come round. *)
LEMMA AgeInTime ==
  ASSUME TypeOK, InTime, NEW i \in DOMAIN inbox
  PROVE  /\ inbox[i].age + OnTheWay + ToCome(i) <= Bound
         /\ inbox[i].age \in Nat /\ ToCome(i) \in Nat /\ OnTheWay \in Nat /\ Bound \in Int
         /\ inbox[i].age + OnTheWay <= Bound
         /\ waited < MaxWait => inbox[i].age < Bound
<1>1. inbox[i].age + OnTheWay + ToCome(i) <= Bound
  BY DEF InTime
<1>2. /\ inbox[i].age \in Nat /\ OnTheWay \in Nat /\ ToCome(i) \in Nat /\ Bound \in Int
      /\ waited \in Nat /\ MaxWait \in Nat /\ MaxWait - waited <= ToCome(i)
  BY Ranges, ToComeRange, OnTheWayRange
<1>3. QED
  BY <1>1, <1>2

(* While none of them comes round, a new tag makes everything older by one. *)
LEMMA NewTagAges ==
  ASSUME TypeOK, NewTag,
         \A i \in DOMAIN inbox : inbox[i].age < Bound
  PROVE  /\ Len(inbox') = Len(inbox) /\ DOMAIN inbox' = DOMAIN inbox
         /\ \A i \in DOMAIN inbox : /\ inbox'[i].age = inbox[i].age + 1
                                    /\ inbox'[i].do = inbox[i].do /\ inbox'[i].of = inbox[i].of
         /\ armed = "reply" /\ out.age < Bound => out'.age = out.age + 1
<1>1. Len(inbox') = Len(inbox) /\ DOMAIN inbox' = DOMAIN inbox
  BY NewTagTyped
<1>2. ASSUME NEW i \in DOMAIN inbox
      PROVE  /\ inbox'[i].age = inbox[i].age + 1
             /\ inbox'[i].do = inbox[i].do /\ inbox'[i].of = inbox[i].of
  <2>1. inbox'[i] = Older(inbox[i]) /\ inbox[i] \in Request
    BY NewTagTyped, Counts
  <2>2. (inbox[i].age + 1) % TagWrap = inbox[i].age + 1
    <3>1. inbox[i].age \in Nat /\ Bound \in Int /\ Bound < TagWrap /\ TagWrap \in Nat
      BY Ranges
    <3>2. QED
      BY <3>1
  <2>3. QED
    BY <2>1, <2>2 DEF Older, Request
<1>3. armed = "reply" /\ out.age < Bound => out'.age = out.age + 1
  <2>1. ASSUME out.age < Bound PROVE (out.age + 1) % TagWrap = out.age + 1
    <3>1. out.age \in Nat /\ Bound \in Int /\ Bound < TagWrap /\ TagWrap \in Nat
      BY Ranges
    <3>2. QED
      BY <2>1, <3>1
  <2>2. QED
    BY <2>1 DEF NewTag, Older, TypeOK
<1>4. QED
  BY <1>1, <1>2, <1>3

(* A transaction begins with a tag that was due. *)
LEMMA TransactKeepsTags ==
  ASSUME TypeOK, Tags, NewTag, pc \notin {"send", "recv"}, pc' = "send",
         UNCHANGED <<armed, waited, faults>>
  PROVE  Tags'
<1>1. /\ TagsDue = 1 /\ OnTheWay \in Nat /\ 1 <= OnTheWay /\ OnTheWay' = OnTheWay - 1
      /\ TagsDue' = 0 /\ Bound \in Int /\ out.age \in Nat
  BY Ranges DEF TagsDue, Receiving, ReplyArmed, OnTheWay
<1>2. \A i \in DOMAIN inbox : inbox[i].age \in Nat /\ inbox[i].age < Bound
  BY <1>1, AgeInTime DEF Tags
<1>3. armed = "reply" => out.age < Bound
  BY <1>1 DEF Tags, InTime
<1>4. /\ Len(inbox') = Len(inbox) /\ DOMAIN inbox' = DOMAIN inbox
      /\ \A i \in DOMAIN inbox : inbox'[i].age = inbox[i].age + 1
      /\ armed = "reply" => out'.age = out.age + 1
  BY <1>2, <1>3, NewTagAges
<1>5. InTime'
  <2>1. ASSUME NEW i \in DOMAIN inbox PROVE inbox'[i].age + OnTheWay' + ToCome(i)' <= Bound
    <3>1. ToCome(i)' = ToCome(i)
      BY <1>4 DEF ToCome, Timeouts, Room, Losses
    <3>2. /\ inbox[i].age + OnTheWay + ToCome(i) <= Bound
          /\ inbox[i].age \in Nat /\ ToCome(i) \in Nat
      BY AgeInTime DEF Tags
    <3>3. QED
      BY <1>1, <1>4, <3>1, <3>2
  <2>2. armed = "reply" => out'.age + TagsDue' <= Bound
    BY <1>1, <1>3, <1>4
  <2>3. QED
    BY <1>4, <2>1, <2>2 DEF InTime, Bound
<1>6. Ordered'
  BY <1>1, <1>2, <1>4 DEF Tags, Ordered
<1>7. TagIsNew' /\ NothingOutstanding'
  BY <1>1, <1>2, <1>4 DEF TagIsNew, NothingOutstanding
<1>8. QED
  BY <1>5, <1>6, <1>7 DEF Tags

(* An attempt that ends has been paid for by its send or by a time-out, and nothing
   counts an empty queue. *)
AttemptPaid ==
  /\ \/ waited' = waited /\ pc = "recv"
     \/ waited' = waited + 1 /\ waited < MaxWait
     \/ inbox = <<>>
  /\ \E f \in Nat : faults' = f /\ faults <= f

(* So the end of an attempt, with or without a new one, leaves the tags in order. *)
LEMMA RetryKeepsTags ==
  ASSUME TypeOK, Tags, Retry, pc \in {"send", "recv"},
         armed' # "reply", AttemptPaid
  PROVE  Tags'
<1> DEFINE more == IF pc' = "send" THEN 1 ELSE 0
<1>1. \/ pc' = "failed" /\ UNCHANGED <<inbox, out>>
      \/ pc' = "send" /\ NewTag
  BY DEF Retry
<1>2. more \in {0, 1} /\ OnTheWay' = 1 - more /\ OnTheWay \in Nat /\ Bound \in Int
  BY <1>1, Ranges DEF TagsDue, Receiving, ReplyArmed, OnTheWay
<1> HIDE DEF more
<1>3. ASSUME NEW i \in DOMAIN inbox
      PROVE  /\ inbox[i].age \in Nat /\ inbox[i].age < Bound
             /\ Len(inbox') = Len(inbox)
                  => \E n \in Int : ToCome(i)' = n /\ inbox[i].age + 1 + n <= Bound
  <2>1. /\ inbox[i].age + OnTheWay + ToCome(i) <= Bound
        /\ inbox[i].age \in Nat /\ ToCome(i) \in Nat
    BY AgeInTime DEF Tags
  <2>2. inbox # <<>>
    OBVIOUS
  <2>3. Timeouts(i) \in Nat /\ Room(i) \in Nat /\ Losses \in Nat
    BY ToComeRange
  <2>4. MaxFaults \in Nat /\ faults \in Nat /\ Weight(i) \in Nat /\ waited \in Nat
    BY Ranges
  <2>5. PICK lost \in Int : Losses' = lost /\ lost <= Losses
    <3>1. PICK f \in Nat : faults' = f /\ faults <= f
      BY DEF AttemptPaid
    <3>2. MaxFaults - f \in Int /\ MaxFaults - f <= MaxFaults - faults
      BY <2>4, <3>1
    <3>3. QED
      BY <3>1, <3>2 DEF Losses
  <2>6. Len(inbox') = Len(inbox) => Room(i)' = Room(i)
    BY DEF Room
  <2>7. \/ Timeouts(i)' = Timeouts(i) /\ 1 <= OnTheWay
        \/ Timeouts(i)' = Timeouts(i) - 1
    <3>1. pc = "recv" => 1 <= OnTheWay
      BY DEF TagsDue, Receiving, ReplyArmed, OnTheWay
    <3>2. QED
      BY <2>2, <2>4, <3>1 DEF Timeouts, Weight, AttemptPaid
  <2>8. ASSUME Len(inbox') = Len(inbox)
        PROVE  \E n \in Int : ToCome(i)' = n /\ inbox[i].age + 1 + n <= Bound
    <3>1. CASE Timeouts(i)' = Timeouts(i) /\ 1 <= OnTheWay
      <4>1. ToCome(i)' = Timeouts(i) + Room(i) + lost
        BY <2>5, <2>6, <2>8, <3>1 DEF ToCome
      <4>2. inbox[i].age + 1 + (Timeouts(i) + Room(i) + lost) <= Bound
        BY <1>2, <2>1, <2>3, <2>5, <3>1 DEF ToCome
      <4>3. QED
        BY <2>3, <4>1, <4>2
    <3>2. CASE Timeouts(i)' = Timeouts(i) - 1
      <4>1. ToCome(i)' = Timeouts(i) - 1 + Room(i) + lost
        BY <2>5, <2>6, <2>8, <3>2 DEF ToCome
      <4>2. inbox[i].age + 1 + (Timeouts(i) - 1 + Room(i) + lost) <= Bound
        BY <1>2, <2>1, <2>3, <2>5, <3>2 DEF ToCome
      <4>3. QED
        BY <2>3, <4>1, <4>2
    <3>3. QED
      BY <2>7, <3>1, <3>2
  <2>9. inbox[i].age < Bound
    <3>1. 1 <= OnTheWay \/ waited < MaxWait
      BY <2>2 DEF TagsDue, Receiving, ReplyArmed, OnTheWay, AttemptPaid
    <3>2. QED
      BY <1>2, <2>1, <3>1, AgeInTime DEF Tags
  <2>10. QED
    BY <2>1, <2>8, <2>9
<1>4. /\ Len(inbox') = Len(inbox) /\ DOMAIN inbox' = DOMAIN inbox
      /\ \A i \in DOMAIN inbox : inbox'[i].age = inbox[i].age + more
  <2>1. CASE pc' = "send" /\ NewTag
    BY <1>3, <2>1, NewTagAges DEF more
  <2>2. CASE pc' = "failed" /\ UNCHANGED <<inbox, out>>
    BY <1>3, <2>2 DEF more
  <2>3. QED
    BY <1>1, <2>1, <2>2
<1>5. ASSUME NEW i \in DOMAIN inbox PROVE inbox'[i].age + OnTheWay' + ToCome(i)' <= Bound
  <2>1. PICK n \in Int : ToCome(i)' = n /\ inbox[i].age + 1 + n <= Bound
    BY <1>3, <1>4
  <2>2. inbox'[i].age + OnTheWay' = inbox[i].age + 1
    BY <1>2, <1>3, <1>4
  <2>3. QED
    BY <2>1, <2>2
<1>6. InTime'
  BY <1>4, <1>5 DEF InTime, Bound
<1>7. Ordered'
  <2>1. ASSUME NEW i \in DOMAIN inbox, NEW j \in DOMAIN inbox, i < j
        PROVE  inbox[i].age + more > inbox[j].age + more
    BY <1>2, <1>3, <2>1 DEF Tags, Ordered
  <2>2. QED
    BY <1>4, <2>1 DEF Ordered
<1>8. TagIsNew' /\ NothingOutstanding'
  BY <1>1, <1>2, <1>3, <1>4 DEF TagIsNew, NothingOutstanding, more
<1>9. QED
  BY <1>6, <1>7, <1>8 DEF Tags

(* Sums, term by term: a request that waits behind a send. *)
LEMMA SendSum ==
  ASSUME NEW a \in Int, NEW w \in Nat, NEW t \in Int, NEW r \in Int, NEW l \in Int, NEW m \in Int,
         NEW b \in Int, a + w + (t + r + l) <= b, m <= l
  PROVE  a + 1 + (t + (r - 1) + m) <= b
OBVIOUS

(* A request that was just sent. *)
LEMMA NewSum ==
  ASSUME NEW t \in Int, NEW r \in Int, NEW l \in Int, NEW w \in Int, NEW q \in Int, NEW m \in Int,
         t <= w, r <= 2 * q - 2, l <= m
  PROVE  1 + (t + r + l) <= w + 2 * q + m - 1
OBVIOUS

(* One that moves up in the queue. *)
LEMMA ServeSum ==
  ASSUME NEW a \in Int, NEW w \in Int, NEW t \in Int, NEW u \in Int, NEW r \in Int, NEW l \in Int,
         NEW m \in Int, NEW b \in Int, a + w + (t + r + l) <= b, u <= t, m <= l
  PROVE  a + (w + 1) + (u + (r - 1) + m) <= b
OBVIOUS

(* A fault costs at most what is left of them. *)
LEMMA FaultCounts ==
  ASSUME TypeOK, NEW h \in BOOLEAN, Fault(h)
  PROVE  \E f \in Nat : faults' = f /\ faults <= f /\ (h => f = faults + 1)
BY Ranges DEF Fault

(* A send takes a place in the queue, meets a reply, or is a fault. *)
LEMMA SendKeepsTags ==
  ASSUME TypeOK, Tags, Send
  PROVE  Tags'
<1>1. /\ pc = "send" /\ armed # "none" /\ pc' = "recv" /\ armed' = "none" /\ waited' = waited
      /\ step' = step /\ call' = call
  BY DEF Send, InCall
<1> DEFINE n == Len(inbox)
           new == [age |-> 0, do |-> step, of |-> call]
<1>2. PICK taken \in BOOLEAN : /\ Fault(armed = "rx" /\ ~taken)
                               /\ taken => n < QueueCap
                               /\ inbox' = IF taken THEN Append(inbox, new) ELSE inbox
  BY DEF Send
<1>3. PICK f \in Nat : faults' = f /\ faults <= f /\ (armed = "rx" /\ ~taken => f = faults + 1)
  BY <1>2, FaultCounts
<1>4. /\ MaxFaults \in Nat /\ faults \in Nat /\ n \in Nat /\ QueueCap \in Nat /\ waited \in Nat
      /\ DOMAIN inbox = 1 .. n /\ MaxWait \in Nat /\ inbox \in Seq(Request) /\ Bound \in Int
  BY Ranges, Counts
<1>5. new \in Request
  BY LinkAssumption DEF Request, TypeOK, Age
<1>6. \A i \in DOMAIN inbox : inbox[i].age \in Nat /\ inbox[i].age > 0
  BY <1>1, Ranges DEF Tags, TagIsNew
<1>7. OnTheWay' = 1 /\ TagsDue' = 0 /\ OnTheWay = ReplyArmed /\ ReplyArmed \in {0, 1}
  BY <1>1, OnTheWayRange DEF OnTheWay, TagsDue, Receiving, ReplyArmed
<1>8. ASSUME NEW i \in DOMAIN inbox PROVE inbox[i].age + 1 + ToCome(i)' <= Bound
  <2>1. /\ inbox[i].age + OnTheWay + ToCome(i) <= Bound /\ i \in Nat
        /\ Timeouts(i) \in Nat /\ Room(i) \in Nat /\ Losses \in Nat /\ inbox[i].age \in Nat
    BY AgeInTime, ToComeRange, Ranges DEF Tags
  <2>2. Timeouts(i)' = Timeouts(i)
    BY <1>1 DEF Timeouts, Weight
  <2>3. MaxFaults - f \in Int /\ MaxFaults - f <= Losses /\ Losses' = MaxFaults - f
    BY <1>3, <1>4 DEF Losses
  <2>4. CASE taken
    <3>1. Len(inbox') = n + 1
      BY <1>2, <1>4, <1>5, <2>4
    <3>2. Room(i)' = Room(i) - 1
      BY <1>4, <2>1, <3>1 DEF Room
    <3>3. ToCome(i)' = Timeouts(i) + (Room(i) - 1) + (MaxFaults - f)
      BY <2>2, <2>3, <3>2 DEF ToCome
    <3>4. inbox[i].age + 1 + (Timeouts(i) + (Room(i) - 1) + (MaxFaults - f)) <= Bound
      <4>1. /\ inbox[i].age + OnTheWay + (Timeouts(i) + Room(i) + Losses) <= Bound
            /\ inbox[i].age \in Int /\ OnTheWay \in Nat /\ Timeouts(i) \in Int /\ Room(i) \in Int
            /\ Losses \in Int
        BY <1>7, <2>1 DEF ToCome
      <4>2. QED
        BY <1>4, <2>3, <4>1, SendSum
    <3>5. QED
      BY <3>3, <3>4
  <2>5. CASE ~taken
    <3>1. Room(i)' = Room(i)
      BY <1>2, <2>5 DEF Room
    <3>2. ToCome(i)' = Timeouts(i) + Room(i) + (MaxFaults - f)
      BY <2>2, <2>3, <3>1 DEF ToCome
    <3>3. 1 + (MaxFaults - f) <= OnTheWay + Losses
      <4>1. armed \in {"none", "rx", "reply"}
        BY DEF TypeOK
      <4>2. CASE armed = "rx"
        BY <1>3, <1>4, <1>7, <2>5, <4>2 DEF Losses
      <4>3. CASE armed = "reply"
        BY <1>4, <1>7, <2>1, <2>3, <4>3 DEF ReplyArmed
      <4>4. QED
        BY <1>1, <4>1, <4>2, <4>3
    <3>4. inbox[i].age + 1 + (Timeouts(i) + Room(i) + (MaxFaults - f)) <= Bound
      BY <1>4, <1>7, <2>1, <2>3, <3>3 DEF ToCome
    <3>5. QED
      BY <3>2, <3>4
  <2>6. QED
    BY <2>4, <2>5
<1>9. CASE taken
  <2>1. /\ n < QueueCap /\ Len(inbox') = n + 1 /\ DOMAIN inbox' = 1 .. (n + 1)
        /\ \A i \in DOMAIN inbox : inbox'[i] = inbox[i]
        /\ inbox'[n + 1] = new
    BY <1>2, <1>4, <1>5, <1>9
  <2>2. PICK k \in Nat : k = n + 1
    BY <1>4
  <2>3. \E c \in Int : ToCome(k)' = c /\ 1 + c <= Bound
    <3>1. k \in 1 .. QueueCap /\ k - 1 = n
      BY <1>4, <2>1, <2>2
    <3>2. /\ Weight(k) \in Nat /\ Weight(k) <= Weight(QueueCap) /\ Weight(QueueCap) \in Nat
          /\ Bound = Weight(QueueCap) + 2 * QueueCap + MaxFaults - 1
      BY <3>1, Weights
    <3>3. /\ Timeouts(k)' = Weight(k) - waited
          /\ Room(k)' = QueueCap - k + 2 * (k - 1)
          /\ Losses' = MaxFaults - f
      <4>1. Weight(k)' = Weight(k)
        BY DEF Weight
      <4>2. QED
        BY <1>1, <1>3, <2>1, <2>2, <4>1 DEF Timeouts, Room, Losses
    <3>4. ToCome(k)' = (Weight(k) - waited) + (QueueCap - k + 2 * (k - 1)) + (MaxFaults - f)
      BY <3>3 DEF ToCome
    <3>5. PICK r \in Int : r = QueueCap - k + 2 * (k - 1) /\ r <= 2 * QueueCap - 2
      <4>1. QueueCap \in Nat /\ k <= QueueCap
        BY <1>4, <3>1
      <4>2. QueueCap - k + 2 * (k - 1) = QueueCap + k - 2
        BY <4>1
      <4>3. QueueCap + k - 2 \in Int /\ QueueCap + k - 2 <= 2 * QueueCap - 2
        BY <4>1
      <4>4. QED
        BY <4>2, <4>3
    <3>6. PICK t \in Int : t = Weight(k) - waited /\ t <= Weight(QueueCap)
      BY <1>4, <3>2
    <3>7. PICK l \in Int : l = MaxFaults - f /\ l <= MaxFaults
      BY <1>4
    <3>8. ToCome(k)' = t + r + l
      BY <3>4, <3>5, <3>6, <3>7
    <3>9. 1 + (t + r + l) <= Weight(QueueCap) + 2 * QueueCap + MaxFaults - 1
      <4>1. /\ Weight(QueueCap) \in Int /\ QueueCap \in Int /\ MaxFaults \in Int
            /\ t <= Weight(QueueCap) /\ r <= 2 * QueueCap - 2 /\ l <= MaxFaults
        BY <1>4, <3>2, <3>5, <3>6, <3>7
      <4>2. QED
        BY <4>1, NewSum
    <3>10. QED
      BY <3>2, <3>8, <3>9
  <2>4. ASSUME NEW i \in DOMAIN inbox' PROVE inbox'[i].age + OnTheWay' + ToCome(i)' <= Bound
    <3>1. CASE i \in DOMAIN inbox
      BY <1>7, <1>8, <2>1, <3>1
    <3>2. CASE i = k
      <4>1. inbox'[i].age + OnTheWay' = 1
        BY <1>7, <2>1, <2>2, <3>2
      <4>2. QED
        BY <2>3, <3>2, <4>1
    <3>3. QED
      BY <1>4, <2>1, <2>2, <3>1, <3>2
  <2>5. InTime'
    BY <1>1, <2>4 DEF InTime, Bound
  <2>6. Ordered'
    <3>1. ASSUME NEW i \in DOMAIN inbox', NEW j \in DOMAIN inbox', i < j
          PROVE  inbox'[i].age > inbox'[j].age
      <4>1. CASE j \in DOMAIN inbox
        <5>1. i \in DOMAIN inbox
          BY <1>4, <2>1, <3>1, <4>1
        <5>2. QED
          BY <2>1, <3>1, <4>1, <5>1 DEF Tags, Ordered
      <4>2. CASE j = n + 1
        <5>1. i \in DOMAIN inbox
          BY <1>4, <2>1, <3>1, <4>2
        <5>2. QED
          BY <1>6, <2>1, <4>2, <5>1
      <4>3. QED
        BY <1>4, <2>1, <4>1, <4>2
    <3>2. QED
      BY <1>1, <3>1 DEF Ordered
  <2>7. TagIsNew'
    <3>1. ASSUME NEW i \in DOMAIN inbox', inbox'[i].age = 0 PROVE i = n + 1
      BY <1>4, <1>6, <2>1, <3>1
    <3>2. QED
      BY <1>1, <2>1, <3>1 DEF TagIsNew
  <2>8. QED
    BY <1>1, <2>5, <2>6, <2>7 DEF Tags, NothingOutstanding
<1>10. CASE ~taken
  <2>1. inbox' = inbox
    BY <1>2, <1>10
  <2>2. InTime'
    BY <1>1, <1>7, <1>8, <2>1 DEF InTime, Bound
  <2>3. Ordered' /\ TagIsNew' /\ NothingOutstanding'
    BY <1>1, <1>6, <2>1 DEF Tags, Ordered, TagIsNew, NothingOutstanding
  <2>4. QED
    BY <2>2, <2>3 DEF Tags
<1>11. QED
  BY <1>9, <1>10

(* A reply has the tag of its request. *)
LEMMA ReplyAge == \A r : Reply(r).age = r.age /\ Nak(r).age = r.age
BY DEF Reply, Ack, Nak

(* Serving a request leaves the others nearer to the front. *)
LEMMA ServeKeepsTags ==
  ASSUME TypeOK, Tags, EspServe
  PROVE  Tags'
<1> DEFINE n == Len(inbox)
<1>1. /\ inbox # <<>> /\ armed # "reply" /\ armed' = "reply" /\ inbox' = Tail(inbox) /\ waited' = 0
      /\ UNCHANGED <<pc, step, call>> /\ out'.age = Head(inbox).age
  BY ReplyAge DEF EspServe, coreVars
<1>2. PICK f \in Nat : faults' = f /\ faults <= f
  BY FaultCounts DEF EspServe
<1>3. /\ MaxFaults \in Nat /\ faults \in Nat /\ n \in Nat /\ QueueCap \in Nat /\ waited \in Nat
      /\ waited <= MaxWait /\ n <= QueueCap
      /\ DOMAIN inbox = 1 .. n /\ MaxWait \in Nat /\ inbox \in Seq(Request) /\ Bound \in Int
  BY Ranges, Counts
<1>4. /\ n > 0 /\ Len(inbox') = n - 1 /\ DOMAIN inbox' = 1 .. (n - 1) /\ 1 \in DOMAIN inbox
      /\ \A i \in DOMAIN inbox' : inbox'[i] = inbox[i + 1] /\ i + 1 \in DOMAIN inbox /\ i \in Nat
      /\ out'.age = inbox[1].age
  BY <1>1, <1>3
<1>5. TagsDue' = TagsDue /\ OnTheWay' = OnTheWay + 1 /\ OnTheWay \in Nat /\ TagsDue \in Nat /\ TagsDue <= OnTheWay
  BY <1>1, OnTheWayRange DEF OnTheWay, TagsDue, Receiving, ReplyArmed
<1>6. ASSUME NEW i \in DOMAIN inbox' PROVE inbox'[i].age + OnTheWay' + ToCome(i)' <= Bound
  <2>1. /\ inbox[i + 1].age + OnTheWay + ToCome(i + 1) <= Bound /\ inbox[i + 1].age \in Nat
    BY <1>4, AgeInTime DEF Tags
  <2>2. i \in Nat /\ i + 1 \in 1 .. QueueCap /\ (i + 1) - 1 = i
    BY <1>3, <1>4
  <2>3. Weight(i) = Weight(i + 1) - MaxWait /\ Weight(i + 1) \in Nat
    BY <2>2, Weights
  <2>4. /\ Timeouts(i)' = Weight(i)
        /\ Room(i)' = QueueCap - (n - 1) + 2 * (i - 1)
        /\ Losses' = MaxFaults - f
    <3>1. Weight(i)' = Weight(i) /\ Weight(i) \in Int
      BY <1>3, <2>2, <2>3 DEF Weight
    <3>2. QED
      BY <1>1, <1>2, <1>4, <3>1 DEF Timeouts, Room, Losses
  <2>5. ToCome(i)' = Weight(i) + (QueueCap - (n - 1) + 2 * (i - 1)) + (MaxFaults - f)
    BY <2>4 DEF ToCome
  <2>6. /\ Timeouts(i + 1) = Weight(i + 1) - waited
        /\ Room(i + 1) = QueueCap - n + 2 * i
        /\ Losses = MaxFaults - faults
        /\ ToCome(i + 1) = Timeouts(i + 1) + Room(i + 1) + Losses
    BY <2>2 DEF Timeouts, Room, Losses, ToCome
  <2>7. /\ Weight(i) \in Int /\ Weight(i) <= Timeouts(i + 1) /\ Timeouts(i + 1) \in Int
        /\ QueueCap - (n - 1) + 2 * (i - 1) = Room(i + 1) - 1 /\ Room(i + 1) \in Int
        /\ MaxFaults - f \in Int /\ MaxFaults - f <= Losses /\ Losses \in Int
    <3>1. Weight(i) \in Int /\ Weight(i) <= Timeouts(i + 1) /\ Timeouts(i + 1) \in Int
      BY <1>3, <2>3, <2>6
    <3>2. QueueCap - (n - 1) + 2 * (i - 1) = Room(i + 1) - 1 /\ Room(i + 1) \in Int
      BY <1>3, <2>2, <2>6
    <3>3. MaxFaults - f \in Int /\ MaxFaults - f <= Losses /\ Losses \in Int
      BY <1>2, <1>3, <2>6
    <3>4. QED
      BY <3>1, <3>2, <3>3
  <2>8. inbox[i + 1].age + (OnTheWay + 1) + (Weight(i) + (Room(i + 1) - 1) + (MaxFaults - f)) <= Bound
    <3>1. inbox[i + 1].age + OnTheWay + (Timeouts(i + 1) + Room(i + 1) + Losses) <= Bound
      BY <2>1, <2>6
    <3>2. /\ inbox[i + 1].age \in Int /\ OnTheWay \in Int /\ Bound \in Int
          /\ Weight(i) \in Int /\ Timeouts(i + 1) \in Int /\ Room(i + 1) \in Int /\ Losses \in Int
          /\ MaxFaults - f \in Int /\ Weight(i) <= Timeouts(i + 1) /\ MaxFaults - f <= Losses
      BY <1>3, <1>5, <2>1, <2>7
    <3>3. QED
      BY <3>1, <3>2, ServeSum
  <2>9. QED
    BY <1>4, <1>5, <2>5, <2>7, <2>8
<1>7. InTime'
  <2>1. inbox[1].age + OnTheWay <= Bound /\ inbox[1].age \in Nat
    BY <1>4, AgeInTime DEF Tags
  <2>2. inbox[1].age + TagsDue <= Bound
    BY <1>3, <1>5, <2>1
  <2>3. QED
    BY <1>4, <1>5, <1>6, <2>2 DEF InTime, Bound
<1>8. Ordered'
  <2>1. ASSUME NEW i \in DOMAIN inbox', NEW j \in DOMAIN inbox', i < j
        PROVE  inbox'[i].age > inbox'[j].age
    <3>1. i + 1 < j + 1
      BY <1>4, <2>1
    <3>2. QED
      BY <1>4, <3>1 DEF Tags, Ordered
  <2>2. ASSUME NEW i \in DOMAIN inbox' PROVE out'.age > inbox'[i].age
    <3>1. 1 < i + 1
      BY <1>4
    <3>2. QED
      BY <1>4, <3>1 DEF Tags, Ordered
  <2>3. QED
    BY <2>1, <2>2 DEF Ordered
<1>9. TagIsNew'
  BY <1>1, <1>4 DEF Tags, TagIsNew
<1>10. NothingOutstanding'
  BY <1>1 DEF Tags, NothingOutstanding
<1>11. QED
  BY <1>7, <1>8, <1>9, <1>10 DEF Tags

(* A reply with the tag of this attempt is the last thing that was under way. *)
LEMMA AcceptKeepsTags ==
  ASSUME TypeOK, Tags, pc = "recv", armed = "reply", out.age = 0
  PROVE  inbox = <<>>
<1>1. \A i \in DOMAIN inbox : inbox[i].age \in Nat /\ ~(out.age > inbox[i].age)
  BY Ranges
<1>2. DOMAIN inbox = {}
  BY <1>1 DEF Tags, Ordered
<1>3. QED
  BY <1>2, Counts

(* Whatever the module, an attempt or a call does, the tags stay in order. *)
LEMMA NextKeepsTags ==
  ASSUME TypeOK, Tags, [Next]_vars
  PROVE  Tags'
<1> USE DEF coreVars, linkVars, espVars, histVars
<1>1. CASE Esp
  <2>1. CASE EspListen
    <3>1. UNCHANGED <<pc, call, step, out, inbox, waited, faults>> /\ armed = "none" /\ armed' = "rx"
      BY <2>1 DEF EspListen
    <3>2. \A i : ToCome(i)' = ToCome(i) /\ OnTheWay' = OnTheWay
      BY <3>1 DEF ToCome, Timeouts, Room, Losses, Weight, OnTheWay, TagsDue, Receiving, ReplyArmed
    <3>3. QED
      BY <3>1, <3>2 DEF Tags, InTime, Bound, Ordered, TagIsNew, NothingOutstanding
  <2>2. CASE EspReboot
    BY <2>2 DEF EspReboot, Tags, InTime, Ordered, TagIsNew, NothingOutstanding
  <2>3. QED
    BY <1>1, <2>1, <2>2, ServeKeepsTags DEF Esp
<1>2. CASE Transaction
  <2>1. CASE SendTimesOut \/ RecvTimesOut
    <3>1. /\ pc \in {"send", "recv"} /\ Retry /\ armed' # "reply" /\ TimesOut /\ faults' = faults
      BY <2>1 DEF SendTimesOut, RecvTimesOut, TimesOut
    <3>2. AttemptPaid
      BY <3>1, Ranges DEF TimesOut, AttemptPaid
    <3>3. QED
      BY <3>1, <3>2, RetryKeepsTags
  <2>2. CASE RecvJunk
    <3>1. AttemptPaid
      BY <2>2, Ranges DEF RecvJunk, AttemptPaid
    <3>2. QED
      BY <2>2, <3>1, RetryKeepsTags DEF RecvJunk
  <2>3. CASE Recv /\ Retry
    <3>1. AttemptPaid
      BY <2>3, FaultCounts DEF Recv, AttemptPaid
    <3>2. QED
      BY <2>3, <3>1, RetryKeepsTags DEF Recv
  <2>4. CASE Recv /\ ~Retry
    <3>1. /\ pc = "recv" /\ armed = "reply" /\ armed' = "none" /\ pc' = "answered" /\ out.age = 0
          /\ inbox' = inbox
      BY <2>4 DEF Recv, Accepts
    <3>2. inbox = <<>>
      BY <3>1, AcceptKeepsTags
    <3>3. QED
      BY <3>1, <3>2 DEF Tags, InTime, Ordered, TagIsNew, NothingOutstanding
  <2>5. QED
    BY <1>2, <2>1, <2>2, <2>3, <2>4, SendKeepsTags DEF Transaction
<1>3. CASE Caller
  <2>1. \/ /\ NewTag /\ pc \notin {"send", "recv"} /\ pc' = "send"
           /\ UNCHANGED <<armed, waited, faults>>
        \/ /\ pc \in {"answered", "failed"} /\ pc' = "idle"
           /\ UNCHANGED <<armed, waited, faults, inbox, out>>
    BY <1>3 DEF Caller, Begin, Stats, Opens, Enters, SeesEntry, Walks, CutsWalk, EndsWalk, Unslots, Selects, MountsAll, Delivers,
       Stores, Ejects, Mounts, MountFails, Lists, Talks, After, Goes, Returns, Transact, Others
  <2>2. CASE /\ pc \in {"answered", "failed"} /\ pc' = "idle"
             /\ UNCHANGED <<armed, waited, faults, inbox, out>>
    <3>1. \A i : ToCome(i)' = ToCome(i) /\ OnTheWay' = OnTheWay /\ TagsDue' = TagsDue
      BY <2>2 DEF ToCome, Timeouts, Room, Losses, Weight, OnTheWay, TagsDue, Receiving, ReplyArmed
    <3>2. QED
      BY <2>2, <3>1 DEF Tags, InTime, Bound, Ordered, TagIsNew, NothingOutstanding
  <2>3. QED
    BY <2>1, <2>2, TransactKeepsTags
<1>4. CASE UNCHANGED vars
  <2>1. UNCHANGED <<pc, call, step, out, inbox, waited, faults, armed>>
    BY <1>4 DEF vars
  <2>2. \A i : ToCome(i)' = ToCome(i) /\ OnTheWay' = OnTheWay /\ TagsDue' = TagsDue
    BY <2>1 DEF ToCome, Timeouts, Room, Losses, Weight, OnTheWay, TagsDue, Receiving, ReplyArmed
  <2>3. QED
    BY <2>1, <2>2 DEF Tags, InTime, Bound, Ordered, TagIsNew, NothingOutstanding
<1>5. QED
  BY <1>1, <1>2, <1>3, <1>4 DEF Next

(* A reply that is accepted is the last thing under way, for every number of tags,
   retries, faults and requests that the module may hold, as long as no request is older
   than all the tags: a stale reply is never taken for the current one
   (transact_frame_locked, recv_reply). *)
THEOREM NothingOutstandingAlways == Spec => []NothingOutstanding
<1>1. Init => Tags
  <2> SUFFICES ASSUME Init PROVE Tags
    OBVIOUS
  <2>1. pc = "idle" /\ inbox = <<>> /\ armed = "none"
    BY DEF Init
  <2>2. QED
    BY <2>1 DEF Tags, InTime, Ordered, TagIsNew, NothingOutstanding
<1>2. Tags => NothingOutstanding
  BY DEF Tags
<1>3. TypeOK /\ Tags /\ [Next]_vars => Tags'
  BY NextKeepsTags
<1>4. QED
  BY <1>1, <1>2, <1>3, TypeCorrect, PTL DEF Spec

-----------------------------------------------------------------------------
(* What the steps do to requests and answers. *)

(* What waits in the module is typed. *)
LEMMA AskedTyped ==
  ASSUME TypeOK
  PROVE  \A q \in Asked : q.do \in Steps /\ q.of \in Call /\ q.of.t \in Targets
<1> SUFFICES ASSUME NEW i \in DOMAIN inbox PROVE inbox[i].do \in Steps /\ inbox[i].of \in Call
  BY CallFields DEF Asked
<1>1. inbox[i] \in Request
  BY Counts
<1>2. QED
  BY <1>1 DEF Request

(* New tags do not change what is asked. *)
LEMMA AskedKept ==
  ASSUME TypeOK, NewTag \/ UNCHANGED inbox
  PROVE  Asked' = Asked /\ Len(inbox') = Len(inbox)
<1>1. CASE UNCHANGED inbox
  BY <1>1 DEF Asked
<1>2. CASE NewTag
  <2>1. DOMAIN inbox' = DOMAIN inbox /\ Len(inbox') = Len(inbox)
    BY <1>2, NewTagTyped
  <2>2. ASSUME NEW i \in DOMAIN inbox
        PROVE  inbox'[i].do = inbox[i].do /\ inbox'[i].of = inbox[i].of
    <3>1. inbox'[i] = Older(inbox[i]) /\ inbox[i] \in Request
      BY <1>2, NewTagTyped, Counts
    <3>2. QED
      BY <3>1 DEF Older, Request
  <2>3. QED
    BY <2>1, <2>2 DEF Asked
<1>3. QED
  BY <1>1, <1>2

(* An attempt asks once more what its call asks, ... *)
LEMMA SendAsks ==
  ASSUME TypeOK, Send
  PROVE  /\ Asked' \subseteq Asked \cup {Asking}
         /\ Len(inbox') \in {Len(inbox), Len(inbox) + 1}
<1> DEFINE new == [age |-> 0, do |-> step, of |-> call]
<1>1. new \in Request /\ inbox \in Seq(Request) /\ DOMAIN inbox = 1 .. Len(inbox) /\ Len(inbox) \in Nat
  BY LinkAssumption, Counts DEF Request, TypeOK, Age
<1>2. CASE inbox' = inbox
  BY <1>2 DEF Asked
<1>3. CASE inbox' = Append(inbox, new)
  <2>1. /\ Len(inbox') = Len(inbox) + 1 /\ DOMAIN inbox' = 1 .. (Len(inbox) + 1)
        /\ \A i \in DOMAIN inbox : inbox'[i] = inbox[i]
        /\ inbox'[Len(inbox) + 1] = new
    BY <1>1, <1>3
  <2>2. ASSUME NEW i \in DOMAIN inbox'
        PROVE  [do |-> inbox'[i].do, of |-> inbox'[i].of] \in Asked \cup {Asking}
    <3>1. CASE i \in DOMAIN inbox
      BY <2>1, <3>1 DEF Asked
    <3>2. CASE i = Len(inbox) + 1
      BY <2>1, <3>2 DEF Asking
    <3>3. QED
      BY <1>1, <2>1, <3>1, <3>2
  <2>3. QED
    BY <2>1, <2>2 DEF Asked
<1>4. QED
  BY <1>2, <1>3 DEF Send

(* ... and is otherwise a matter of core 1 alone. *)
LEMMA AttemptStep ==
  ASSUME TypeOK, Transaction
  PROVE  /\ UNCHANGED <<call, step, walk, mounted, disk, conf, live, host, dir, calls, want, vals>>
         /\ pc \in {"send", "recv"} /\ pc' \in {"send", "recv", "answered", "failed"}
         /\ Asked' \subseteq Asked \cup {Asking}
         /\ step # "entry" \/ call.kind # "list" => again' = again
         /\ armed' # "reply"
         /\ pc' = "answered" => /\ pc = "recv" /\ armed = "reply" /\ out.age = 0 /\ out.ack
                                /\ got' = out.payload /\ again' = again
<1>1. UNCHANGED <<call, step, walk, mounted, disk, conf, live, host, dir, calls, want, vals>>
  BY DEF Transaction, Send, SendTimesOut, Recv, RecvJunk, RecvTimesOut, InCall, espVars
<1>2. CASE Send
  BY <1>1, <1>2, SendAsks DEF Send
<1>3. ASSUME Retry PROVE Asked' = Asked /\ pc' \in {"send", "failed"}
                         /\ (step # "entry" \/ call.kind # "list" => again' = again)
  <2>1. again \in Nat
    BY DEF TypeOK
  <2>2. QED
    BY <1>3, <2>1, AskedKept DEF Retry, AsksAgain
<1>4. CASE SendTimesOut \/ RecvTimesOut \/ RecvJunk
  BY <1>1, <1>3, <1>4 DEF SendTimesOut, RecvTimesOut, RecvJunk, TimesOut
<1>5. CASE Recv
  <2>1. CASE Retry
    BY <1>1, <1>3, <1>5, <2>1 DEF Recv
  <2>2. CASE ~Retry
    <3>1. UNCHANGED <<inbox, again>> /\ pc = "recv" /\ armed = "reply" /\ armed' = "none"
          /\ pc' = "answered" /\ got' = out.payload /\ out.age = 0 /\ out.ack
      BY <1>5, <2>2 DEF Recv, Accepts
    <3>2. QED
      BY <1>1, <3>1, AskedKept
  <2>3. QED
    BY <2>1, <2>2
<1>6. QED
  BY <1>2, <1>4, <1>5 DEF Transaction

(* Each repeated request for an entry of a listing is counted. *)
LEMMA EntryAttempt ==
  ASSUME TypeOK, Transaction, step = "entry", call.kind = "list"
  PROVE  \/ pc = "send" /\ pc' = "recv" /\ again' = again /\ Len(inbox') \in {Len(inbox), Len(inbox) + 1}
         \/ pc' = "send" /\ again' = again + 1 /\ Len(inbox') = Len(inbox)
         \/ pc' \in {"answered", "failed"} /\ again' = again /\ Len(inbox') = Len(inbox)
<1>1. CASE Send
  BY <1>1, SendAsks DEF Send
<1>2. CASE Retry
  BY <1>2, AskedKept DEF Retry, AsksAgain
<1>3. CASE Recv /\ ~Retry
  BY <1>3 DEF Recv
<1>4. QED
  BY <1>1, <1>2, <1>3 DEF Transaction, SendTimesOut, RecvTimesOut, RecvJunk, Recv

(* The module serves what was asked. *)
LEMMA ServeStep ==
  ASSUME TypeOK, EspServe
  PROVE  /\ UNCHANGED <<pc, call, step, got, walk, mounted, calls, want, vals, again>>
         /\ Asked' \subseteq Asked
         /\ Len(inbox) \in Nat /\ Len(inbox) > 0 /\ Len(inbox') = Len(inbox) - 1
         /\ inbox # <<>> /\ armed # "reply" /\ armed' = "reply"
         /\ Head(inbox) \in Request /\ Head(inbox) = inbox[1] /\ 1 \in DOMAIN inbox
         /\ [do |-> Head(inbox).do, of |-> Head(inbox).of] \in Asked
         /\ \/ Serves(Head(inbox)) /\ out' = Reply(Head(inbox))
            \/ out' = Nak(Head(inbox)) /\ UNCHANGED espVars
<1>1. /\ inbox # <<>> /\ inbox' = Tail(inbox) /\ inbox \in Seq(Request) /\ Len(inbox) \in Nat
      /\ DOMAIN inbox = 1 .. Len(inbox)
  BY Counts DEF EspServe
<1>2. /\ Len(inbox) > 0 /\ Len(inbox') = Len(inbox) - 1 /\ DOMAIN inbox' = 1 .. (Len(inbox) - 1)
      /\ \A i \in DOMAIN inbox' : i + 1 \in DOMAIN inbox /\ inbox'[i] = inbox[i + 1]
      /\ Head(inbox) \in Request /\ Head(inbox) = inbox[1] /\ 1 \in DOMAIN inbox
  BY <1>1
<1>3. Asked' \subseteq Asked /\ [do |-> Head(inbox).do, of |-> Head(inbox).of] \in Asked
  BY <1>2 DEF Asked
<1>4. QED
  BY <1>1, <1>2, <1>3 DEF EspServe, coreVars, histVars

(* An empty module was asked nothing. *)
LEMMA NothingAsked == (inbox = <<>> => Asked = {}) /\ (inbox' = <<>> => Asked' = {})
BY DEF Asked

(* A call goes on, ... *)
LEMMA GoesStep ==
  ASSUME TypeOK, NEW s, Goes(s)
  PROVE  /\ UNCHANGED <<call, got, mounted, disk, conf, live, host, dir, calls, vals, again, armed>>
         /\ pc' = "send" /\ step' = s /\ Asked' = Asked /\ Len(inbox') = Len(inbox)
BY AskedKept DEF Goes, Transact, Others, espVars

(* ... or returns. *)
LEMMA ReturnsStep ==
  ASSUME TypeOK, Returns
  PROVE  /\ UNCHANGED <<disk, conf, live, host, dir, calls, armed, inbox>>
         /\ pc' = "idle" /\ step' = "ping" /\ call' = NoCall /\ walk' = NoWalk /\ again' = 0
         /\ Asked' = Asked
BY AskedKept DEF Returns, Others, espVars

-----------------------------------------------------------------------------
(* The transactions of a call. *)

(* A call begins and goes on in the order of its transactions. *)
LEMMA NextKeepsCalls ==
  ASSUME TypeOK, Tags, Calls, [Next]_vars
  PROVE  Calls'
<1> USE DEF coreVars, linkVars, espVars, histVars
<1>1. CASE Esp
  <2>1. UNCHANGED <<pc, call, step, walk, again>>
    BY <1>1 DEF Esp, EspServe, EspListen, EspReboot
  <2>2. Asked' \subseteq Asked
    BY <1>1, ServeStep, AskedKept, NothingAsked DEF Esp, EspListen, EspReboot
  <2>3. QED
    BY <2>1, <2>2 DEF Calls, Rested, Stages, Steady, Asking
<1>2. CASE Transaction
  BY <1>2, AttemptStep DEF Calls, Rested, Stages, Steady, Asking
<1>3. CASE Begin
  <2>1. PICK c \in Call : call' = c /\ Transact(First(c))
    BY <1>3 DEF Begin
  <2>2. /\ pc = "idle" /\ pc' = "send" /\ step' = First(c) /\ UNCHANGED <<walk, again>>
    BY <1>3, <2>1 DEF Begin, Transact
  <2>3. c.kind \in {"read", "write", "eject", "mount", "boot", "list", "join", "query"}
    BY CallFields
  <2>4. First(c) \in {"read", "put", "unmount", "host", "join", "ping"}
        /\ (First(c) = "read" => c.kind = "read") /\ (First(c) = "put" => c.kind = "write")
    BY <2>3 DEF First
  <2>5. QED
    BY <2>1, <2>2, <2>4 DEF Calls, Rested, Stages, Steady
<1>4. CASE Stats \/ Opens \/ Enters \/ Walks \/ Selects \/ MountsAll
  <2>1. pc = "answered" /\ Asked = {}
    BY <1>4, NothingAsked DEF Stats, Opens, Enters, SeesEntry, Walks, Selects, MountsAll, After, Tags, NothingOutstanding
  <2>2. PICK s \in Steps : /\ Goes(s)
                           /\ s \notin {"read", "put", "close"}
                           /\ s = "host" => call.kind = "mount"
                           /\ s = "open" => step = "host" /\ walk' = walk
                           /\ s = "select" => call.kind = "mount"
                           /\ s = "mountall" => step = "select" \/ call.kind = "boot"
    BY <1>4 DEF Stats, Opens, Enters, SeesEntry, Walks, Selects, MountsAll, After, Steps
  <2>3. QED
    BY <2>1, <2>2, GoesStep DEF Calls, Rested, Stages, Steady, Asking
<1>5. CASE CutsWalk \/ EndsWalk \/ Unslots
  <2>1. PICK s \in {"close", "unmount"} : Goes(s)
    BY <1>5 DEF CutsWalk, EndsWalk, Unslots
  <2>2. QED
    BY <2>1, GoesStep DEF Calls, Rested, Stages, Steady
<1>6. CASE Delivers \/ Stores \/ Ejects \/ Mounts \/ MountFails \/ Lists \/ Talks
  <2>1. Returns
    BY <1>6 DEF Delivers, Stores, Ejects, Mounts, MountFails, Lists, Talks
  <2>2. QED
    BY <2>1, ReturnsStep DEF Calls, Rested, Stages, Steady
<1>7. CASE UNCHANGED vars
  BY <1>7 DEF vars, Calls, Rested, Stages, Steady, Asked, Asking
<1>8. QED
  BY <1>1, <1>2, <1>3, <1>4, <1>5, <1>6, <1>7 DEF Next, Caller

-----------------------------------------------------------------------------
(* Images are not mixed up. *)

(* What a success leaves. *)
LEMMA AnsweredAlone ==
  ASSUME Tags, AnswersTrue, pc = "answered"
  PROVE  Asked = {} /\ inbox = <<>> /\ Means(got)
BY NothingAsked DEF Tags, NothingOutstanding, AnswersTrue

(* Serving a request changes no slot whose image is decided, and no write is served by
   an image it may not reach. *)
LEMMA ServeKeepsSlots ==
  ASSUME TypeOK, Calls, Slots, EspServe
  PROVE  Slots'
<1> DEFINE r == Head(inbox)
           q == [do |-> r.do, of |-> r.of]
<1>1. /\ UNCHANGED <<pc, call, step, want, vals>> /\ Asked' \subseteq Asked /\ q \in Asked
      /\ \/ Serves(r) /\ out' = Reply(r)
         \/ UNCHANGED espVars
  BY ServeStep
<1>2. r.do \in Steps /\ r.of.t \in Targets /\ r.of.img \in OrNone /\ None \notin Images
  BY <1>1, AskedTyped, CallFields, Literals
<1>3. /\ r.do = "select" => want[r.of.t] = None
      /\ r.do = "put" => Accounted(r.of)
  BY <1>1 DEF Slots, OpenWhileSelected, WritesAccounted
<1>4. \A t \in Targets : /\ conf'[t] \in {conf[t]} \cup (IF r.do = "select" /\ r.of.t = t THEN {r.of.img} ELSE {})
                         /\ live'[t] \in {live[t], conf[t], None}
  BY <1>1, <1>2 DEF Serves, espVars, TypeOK
<1>5. OpenWhileSelected'
  BY <1>1 DEF Slots, OpenWhileSelected
<1>6. SlotsAsWanted'
  BY <1>1, <1>3, <1>4 DEF Slots, SlotsAsWanted
<1>7. SelectedForMount'
  <2>1. SUFFICES ASSUME call.kind = "mount", step = "mountall" PROVE conf'[call.t] = call.img
    BY <1>1 DEF SelectedForMount
  <2>2. r.do = "mountall"
    BY <1>1, <2>1 DEF Calls, Steady, Asking
  <2>3. conf' = conf
    BY <1>1, <2>2 DEF Serves, espVars
  <2>4. QED
    BY <2>1, <2>3 DEF Slots, SelectedForMount
<1>8. ASSUME NEW t \in Targets, NEW i \in Images, Reaches(t, i)' PROVE Reaches(t, i)
  BY <1>1, <1>2, <1>4, <1>8 DEF Reaches
<1>9. ASSUME NEW c, c.t \in Targets, Accounted(c) PROVE Accounted(c)'
  BY <1>1, <1>8, <1>9 DEF Accounted
<1>10. \A i \in Images : disk'[i] \in vals'[i]
  <2>1. \A i \in Images : disk'[i] = disk[i] \/ (r.do = "put" /\ live[r.of.t] = i /\ disk'[i] = r.of.n)
    BY <1>1, <1>2 DEF Serves, espVars, TypeOK
  <2>2. QED
    BY <1>1, <1>3, <2>1 DEF Slots, WritesAccounted, Accounted, Reaches
<1>11. WritesAccounted'
  <2>1. \A p \in Asked : p.of.t \in Targets
    BY AskedTyped
  <2>2. call.t \in Targets
    BY CallFields DEF TypeOK
  <2>3. QED
    BY <1>1, <1>9, <1>10, <2>1, <2>2 DEF Slots, WritesAccounted
<1>12. QED
  BY <1>5, <1>6, <1>7, <1>11 DEF Slots

(* A write under way is accounted for as long as slots, values and what waits in the
   module do not change. *)
LEMMA AccountedKept ==
  ASSUME Asked' \subseteq Asked, UNCHANGED <<conf, live>>,
         \A i \in Images : vals[i] \subseteq vals'[i],
         NEW c, Accounted(c)
  PROVE  Accounted(c)'
BY DEF Accounted, Reaches

(* An attempt can only ask again what was asked. *)
LEMMA AttemptKeepsSlots ==
  ASSUME TypeOK, Calls, Slots, Transaction
  PROVE  Slots'
<1>1. /\ UNCHANGED <<call, step, disk, conf, live, want, vals>>
      /\ Asked' \subseteq Asked \cup {Asking}
  BY AttemptStep
<1>2. OpenWhileSelected'
  BY <1>1 DEF Slots, OpenWhileSelected, Asking, Calls, Stages
<1>3. SlotsAsWanted' /\ SelectedForMount'
  BY <1>1 DEF Slots, SlotsAsWanted, SelectedForMount
<1>4. WritesAccounted'
  <2>1. CASE step = "select"
    <3>1. \A q \in Asked' : q.do = "select"
      BY <1>1, <2>1 DEF Calls, Steady, Asking
    <3>2. QED
      BY <1>1, <2>1, <3>1 DEF Slots, WritesAccounted
  <2>2. CASE step # "select"
    <3>1. ASSUME NEW c, Accounted(c) PROVE Accounted(c)'
      BY <1>1, <2>2, <3>1 DEF Accounted, Reaches, Asking
    <3>2. \A q \in Asked' : q.do = "put" => Accounted(q.of)
      BY <1>1 DEF Slots, WritesAccounted, Asking
    <3>3. QED
      BY <1>1, <3>1, <3>2 DEF Slots, WritesAccounted
  <2>3. QED
    BY <2>1, <2>2
<1>5. QED
  BY <1>2, <1>3, <1>4 DEF Slots

(* A write begins with its value among those of every image it can reach. *)
LEMMA BeginKeepsSlots ==
  ASSUME TypeOK, Slots, Begin
  PROVE  Slots'
<1>1. PICK c \in Call : /\ call' = c /\ Transact(First(c)) /\ MayWrite(c)
                        /\ IF c.kind = "eject" THEN Undecided(c.t) ELSE UNCHANGED want
  BY DEF Begin
<1>2. step' = First(c) /\ UNCHANGED <<disk, conf, live>> /\ Asked' = Asked
  BY <1>1, AskedKept DEF Transact, Begin, Others, espVars
<1>3. /\ c.t \in Targets /\ None \notin Images
      /\ c.kind \in {"read", "write", "eject", "mount", "boot", "list", "join", "query"}
  BY CallFields, Literals
<1>4. First(c) \notin {"select", "mountall"} /\ (First(c) = "put" => c.kind = "write")
      /\ (c.kind = "mount" => First(c) = "ping")
  BY <1>3 DEF First
<1>5. \A t \in Targets : want'[t] \in {None, want[t]}
  BY <1>1, <1>3 DEF Undecided, TypeOK
<1>6. OpenWhileSelected'
  <2>1. \A q \in Asked : q.of.t \in Targets
    BY AskedTyped
  <2>2. QED
    BY <1>1, <1>2, <1>4, <1>5, <2>1 DEF Slots, OpenWhileSelected
<1>7. SlotsAsWanted' /\ SelectedForMount'
  BY <1>1, <1>2, <1>4, <1>5 DEF Slots, SlotsAsWanted, SelectedForMount
<1>8. \A i \in Images : vals[i] \subseteq vals'[i]
  BY <1>1 DEF MayWrite
<1>9. c.kind = "write" => Accounted(c)'
  <2>1. SUFFICES ASSUME c.kind = "write", NEW i \in Images, Reaches(c.t, i) PROVE want[c.t] \in {i, None}
    <3>1. SUFFICES ASSUME c.kind = "write", NEW i \in Images, Reaches(c.t, i)' PROVE c.n \in vals'[i]
      BY DEF Accounted
    <3>2. Reaches(c.t, i)
      BY <1>2, <3>1 DEF Reaches
    <3>3. QED
      BY <1>1, <3>1, <3>2 DEF MayWrite
  <2>2. QED
    BY <1>3, <2>1 DEF Reaches, Slots, SlotsAsWanted, OpenWhileSelected
<1>10. WritesAccounted'
  <2>1. \A q \in Asked' : q.do = "put" => Accounted(q.of)'
    BY <1>2, <1>8, AccountedKept DEF Slots, WritesAccounted
  <2>2. \A i \in Images : disk'[i] \in vals'[i]
    BY <1>2, <1>8 DEF Slots, WritesAccounted
  <2>3. QED
    BY <1>1, <1>2, <1>4, <1>9, <2>1, <2>2 DEF WritesAccounted
<1>11. QED
  BY <1>6, <1>7, <1>10 DEF Slots

(* A call goes on: a slot is open from before it is taken from its image until the
   mount is complete. *)
LEMMA GoesKeepsSlots ==
  ASSUME TypeOK, Tags, Calls, Slots, AnswersTrue, NEW s, Goes(s), s \notin {"read", "put"},
         want' \in {want, [want EXCEPT ![call.t] = None]},
         s = "unmount" => want' = [want EXCEPT ![call.t] = None],
         s \in {"select", "mountall"} /\ call.kind = "mount"
           => step \in {"unmount", "select", "mountall"},
         s = "mountall" /\ call.kind = "mount" => conf[call.t] = call.img
  PROVE  Slots'
<1>1. UNCHANGED <<call, disk, conf, live, vals>> /\ step' = s /\ Asked' = Asked
  BY GoesStep
<1>2. call.t \in Targets /\ \A q \in Asked : q.of.t \in Targets
  BY CallFields, AskedTyped DEF TypeOK
<1>3. \A t \in Targets : want'[t] \in {None, want[t]}
  BY <1>2 DEF TypeOK
<1>4. OpenWhileSelected'
  <2>1. s \in {"unmount", "select", "mountall"} /\ call.kind = "mount" => want'[call.t] = None
    BY <1>2, <1>3 DEF Slots, OpenWhileSelected, TypeOK
  <2>2. QED
    BY <1>1, <1>2, <1>3, <2>1 DEF Slots, OpenWhileSelected
<1>5. SlotsAsWanted' /\ SelectedForMount'
  BY <1>1, <1>3 DEF Slots, SlotsAsWanted, SelectedForMount
<1>6. WritesAccounted'
  <2>1. \A q \in Asked' : q.do = "put" => Accounted(q.of)'
    BY <1>1, AccountedKept DEF Slots, WritesAccounted
  <2>2. QED
    BY <1>1, <2>1 DEF Slots, WritesAccounted
<1>7. QED
  BY <1>4, <1>5, <1>6 DEF Slots

(* The module and core 1 keep their slots and their sectors in step. *)
LEMMA NextKeepsSlots ==
  ASSUME TypeOK, Tags, Calls, Slots, AnswersTrue, [Next]_vars
  PROVE  Slots'
<1> USE DEF coreVars, linkVars, espVars, histVars
<1>0. call.t \in Targets /\ call.img \in OrNone /\ None \notin Images
  BY CallFields, Literals DEF TypeOK
<1>1. CASE EspListen \/ EspReboot
  <2>1. UNCHANGED <<call, step, want, vals, conf, disk>> /\ Asked' \subseteq Asked
    BY <1>1, AskedKept, NothingAsked DEF EspListen, EspReboot
  <2>2. \A t \in Targets : live'[t] \in {live[t], None}
    BY <1>1 DEF EspListen, EspReboot
  <2>3. OpenWhileSelected' /\ SlotsAsWanted' /\ SelectedForMount'
    BY <2>1, <2>2 DEF Slots, OpenWhileSelected, SlotsAsWanted, SelectedForMount
  <2>4. ASSUME NEW c, c.t \in Targets, Accounted(c) PROVE Accounted(c)'
    BY <1>0, <2>1, <2>2, <2>4 DEF Accounted, Reaches
  <2>5. WritesAccounted'
    BY <1>0, <2>1, <2>4, AskedTyped DEF Slots, WritesAccounted
  <2>6. QED
    BY <2>3, <2>5 DEF Slots
<1>2. CASE Stats \/ Opens \/ Enters \/ Walks \/ Selects \/ MountsAll
  <2>1. pc = "answered" /\ Means(got)
    BY <1>2, AnsweredAlone DEF Stats, Opens, Enters, SeesEntry, Walks, Selects, MountsAll, After
  <2>2. PICK s \in Steps : /\ Goes(s) /\ s \notin {"read", "put", "unmount"} /\ want' = want
                           /\ s \in {"select", "mountall"} /\ call.kind = "mount"
                                => step \in {"unmount", "select"}
                           /\ s = "mountall" /\ call.kind = "mount" => step = "select"
    BY <1>2 DEF Stats, Opens, Enters, SeesEntry, Walks, Selects, MountsAll, After, Steps
  <2>3. s = "mountall" /\ call.kind = "mount" => conf[call.t] = call.img
    BY <2>1, <2>2 DEF Means
  <2>4. QED
    BY <2>2, <2>3, GoesKeepsSlots
<1>3. CASE CutsWalk \/ EndsWalk \/ Unslots
  <2>1. CASE CutsWalk \/ EndsWalk
    BY <2>1, GoesKeepsSlots DEF CutsWalk, SeesEntry, EndsWalk
  <2>2. CASE Unslots
    BY <2>2, GoesKeepsSlots DEF Unslots, Undecided
  <2>3. QED
    BY <1>3, <2>1, <2>2
<1>4. CASE Delivers \/ Stores
  <2>1. Returns /\ want' = want
    BY <1>4 DEF Delivers, Stores
  <2>2. /\ UNCHANGED <<disk, conf, live, inbox>> /\ step' = "ping" /\ call' = NoCall /\ Asked' = Asked
    BY <2>1, ReturnsStep
  <2>3. OpenWhileSelected' /\ SlotsAsWanted' /\ SelectedForMount'
    BY <2>1, <2>2 DEF Slots, OpenWhileSelected, SlotsAsWanted, SelectedForMount
  <2>4. CASE pc = "answered"
    <3>1. Asked' = {} /\ Means(got)
      BY <2>2, <2>4, AnsweredAlone
    <3>2. want[call.t] # None => want[call.t] \in Images
      BY <1>0 DEF TypeOK, OrNone
    <3>3. \A i \in Images : disk[i] \in vals'[i]
      <4>1. \A i \in Images : disk[i] \in vals[i]
        BY DEF Slots, WritesAccounted
      <4>2. \A i \in Images : vals'[i] = vals[i] \/ (i = want[call.t] /\ vals'[i] = {disk[i]})
        <5>1. CASE Delivers
          BY <2>4, <3>1, <3>2, <5>1 DEF Delivers, Means, TypeOK
        <5>2. CASE Stores
          BY <2>4, <3>1, <3>2, <5>2 DEF Stores, Means, TypeOK
        <5>3. QED
          BY <1>4, <5>1, <5>2
      <4>3. QED
        BY <4>1, <4>2
    <3>4. QED
      BY <2>2, <2>3, <3>1, <3>3 DEF Slots, WritesAccounted
  <2>5. CASE pc # "answered"
    <3>1. vals' = vals
      BY <1>4, <2>5 DEF Delivers, Stores
    <3>2. \A q \in Asked' : q.do = "put" => Accounted(q.of)'
      BY <2>2, <3>1, AccountedKept DEF Slots, WritesAccounted
    <3>3. QED
      BY <2>2, <2>3, <3>1, <3>2 DEF Slots, WritesAccounted
  <2>6. QED
    BY <2>4, <2>5
<1>5. CASE Mounts
  <2>1. /\ Returns /\ vals' = vals /\ pc = "answered" /\ step = "mountall"
        /\ want' = [want EXCEPT ![call.t] = IF call.kind = "boot" THEN conf[call.t] ELSE call.img]
    BY <1>5 DEF Mounts, After
  <2>2. /\ UNCHANGED <<disk, conf, live, inbox>> /\ step' = "ping" /\ call' = NoCall /\ Asked' = Asked
    BY <2>1, ReturnsStep
  <2>3. Asked' = {} /\ \A t \in Targets : live[t] \in {None, conf[t]}
    BY <2>1, <2>2, AnsweredAlone DEF Means
  <2>4. call.kind # "boot" => conf[call.t] = call.img
    BY <2>1 DEF Slots, SelectedForMount, Calls, Stages
  <2>5. \A t \in Targets : t # call.t => want'[t] = want[t]
    BY <2>1 DEF TypeOK
  <2>6. want'[call.t] = conf[call.t]
    BY <1>0, <2>1, <2>4 DEF TypeOK
  <2>7. SlotsAsWanted'
    BY <2>2, <2>3, <2>5, <2>6 DEF Slots, SlotsAsWanted
  <2>8. QED
    BY <2>1, <2>2, <2>3, <2>7 DEF Slots, OpenWhileSelected, SelectedForMount, WritesAccounted
<1>6. CASE Ejects \/ MountFails \/ Lists \/ Talks
  <2>1. Returns /\ UNCHANGED <<want, vals>>
    BY <1>6 DEF Ejects, MountFails, Lists, Talks
  <2>2. UNCHANGED <<disk, conf, live>> /\ step' = "ping" /\ call' = NoCall /\ Asked' = Asked
    BY <2>1, ReturnsStep
  <2>3. \A q \in Asked' : q.do = "put" => Accounted(q.of)'
    BY <2>1, <2>2, AccountedKept DEF Slots, WritesAccounted
  <2>4. QED
    BY <2>1, <2>2, <2>3 DEF Slots, OpenWhileSelected, SlotsAsWanted, SelectedForMount, WritesAccounted
<1>7. CASE UNCHANGED vars
  BY <1>7 DEF vars, Slots, OpenWhileSelected, SlotsAsWanted, SelectedForMount, WritesAccounted, Accounted,
     Reaches, Asked
<1>8. QED
  BY <1>1, <1>2, <1>3, <1>4, <1>5, <1>6, <1>7, ServeKeepsSlots, AttemptKeepsSlots, BeginKeepsSlots
     DEF Next, Esp, Caller

-----------------------------------------------------------------------------
(* Replies say what is so. *)

(* What a reply said stays so while the module executes nothing, also if it reboots. *)
LEMMA MeansKept ==
  ASSUME UNCHANGED <<call, step, conf, want, disk, walk, again>>,
         live' = live \/ \A t \in Targets : live'[t] = None,
         dir' = dir \/ ~dir'.open,
         NEW p, Means(p)
  PROVE  Means(p)'
BY DEF Means, Passed

(* A reply with the tag of this attempt says what serving its request did, ... *)
LEMMA ServeMeans ==
  ASSUME TypeOK, Calls, Slots, WalkGoesOn, EspServe,
         Head(inbox).do = step, Head(inbox).of = call, Serves(Head(inbox)), Succeeds(Head(inbox)),
         NEW p, p = Payload(Head(inbox))
  PROVE  Means(p)'
<1> DEFINE r == Head(inbox)
<1>1. UNCHANGED <<pc, call, step, walk, want, again>> /\ inbox # <<>> /\ Len(inbox) \in Nat /\ Len(inbox) > 0
  BY ServeStep
<1>2. call \in Call /\ call.t \in Targets /\ (call.kind = "list" => call.img = None) /\ None \notin Images
  BY CallFields, Literals DEF TypeOK
<1>3. r.do = step /\ r.of = call /\ Serves(r) /\ Succeeds(r) /\ p = Payload(r)
  OBVIOUS
<1>4. want[call.t] # None /\ step \in {"read", "put"} => live[call.t] = want[call.t] /\ want[call.t] \in Images
  BY <1>2, <1>3 DEF Succeeds, Slots, SlotsAsWanted, TypeOK, OrNone
<1> HIDE DEF r
<1>5. CASE step = "select"
  BY <1>1, <1>2, <1>3, <1>5 DEF Serves, Means, TypeOK
<1>6. CASE step = "mountall"
  BY <1>1, <1>2, <1>3, <1>6 DEF Serves, Means, TypeOK
<1>7. CASE step = "read"
  <2>1. disk' = disk /\ (want[call.t] # None => p = Sector(want[call.t], disk[want[call.t]]))
    BY <1>3, <1>4, <1>7 DEF Serves, Payload
  <2>2. QED
    BY <1>1, <1>7, <2>1 DEF Means, Sector
<1>8. CASE step = "put"
  <2>1. want[call.t] # None => disk'[want[call.t]] = call.n
    BY <1>3, <1>4, <1>8 DEF Serves, TypeOK
  <2>2. QED
    BY <1>1, <1>8, <2>1 DEF Means
<1>9. CASE step = "open"
  <2>1. call.kind = "list" => dir'.left = Listing
    BY <1>2, <1>3, <1>9 DEF Serves, Succeeds
  <2>2. QED
    BY <1>1, <1>9, <2>1 DEF Means
<1>10. CASE step = "entry" /\ call.kind = "list"
  <2>1. /\ dir.open /\ dir.left \in Seq(Entries) /\ LastEntry \in Nat /\ DOMAIN dir.left = 1 .. Len(dir.left)
        /\ Len(dir.left) \in Nat /\ again \in Nat /\ walk.found \in Seq(Entries) /\ Len(walk.found) \in Nat
        /\ DOMAIN walk.found = 1 .. Len(walk.found) /\ \A i \in DOMAIN walk.found : walk.found[i] \in Entries
    BY <1>3, <1>10, Literals DEF Succeeds, TypeOK
  <2>2. /\ Len(dir.left) <= LastEntry /\ Passed \in Nat
        /\ \A j \in DOMAIN dir.left : dir.left[j] = Passed + j
        /\ \A i \in DOMAIN walk.found : walk.found[i] <= Passed
        /\ MissesFew
    <3>1. Remains /\ MissesFew
      BY <1>10, <2>1 DEF WalkGoesOn
    <3>2. Passed \in Nat
      BY <2>1, <3>1 DEF Passed, Remains
    <3>3. QED
      BY <3>1, <3>2 DEF Remains
  <2>3. CASE dir.left # <<>>
    <3>1. /\ p = Sector(Head(dir.left), 0) /\ dir' = [dir EXCEPT !.left = Tail(@)]
          /\ Head(dir.left) = dir.left[1] /\ 1 \in DOMAIN dir.left /\ dir.left[1] \in Entries
          /\ Len(Tail(dir.left)) = Len(dir.left) - 1
      BY <1>3, <1>10, <2>1, <2>3 DEF Serves, Payload
    <3>2. p.img = Passed + 1 /\ p.img \in Entries /\ p # End
      BY <2>2, <3>1, Literals DEF Sector, End, Nothing
    <3>3. dir'.left = Tail(dir.left)
      BY <3>1 DEF TypeOK
    <3>4. Passed' = Passed + 1
      BY <2>1, <3>1, <3>3 DEF Passed
    <3>5. \A i \in DOMAIN walk.found : walk.found[i] < Passed + 1
      <4>1. ASSUME NEW i \in DOMAIN walk.found PROVE walk.found[i] < Passed + 1
        <5>1. walk.found[i] \in Int /\ walk.found[i] <= Passed /\ Passed \in Int
          BY <2>1, <2>2 DEF Entries
        <5>2. QED
          BY <5>1
      <4>2. QED
        BY <4>1
    <3>6. PICK k \in Nat : k = Passed + 1
      BY <2>2
    <3>7. QED
      BY <1>1, <1>10, <3>2, <3>4, <3>5, <3>6 DEF Means
  <2>4. CASE dir.left = <<>>
    <3>1. p = End /\ Passed = LastEntry
      BY <1>3, <1>10, <2>1, <2>4 DEF Payload, End, Passed
    <3>2. LastEntry <= Len(walk.found) + again
      BY <1>1, <2>1, <2>2, <3>1 DEF MissesFew, Requests
    <3>3. QED
      BY <1>1, <1>10, <3>1, <3>2 DEF Means
  <2>5. QED
    BY <2>3, <2>4
<1>11. CASE step \notin {"select", "mountall", "read", "put", "open"} /\ ~(step = "entry" /\ call.kind = "list")
  BY <1>1, <1>11 DEF Means
<1>12. QED
  BY <1>5, <1>6, <1>7, <1>8, <1>9, <1>10, <1>11

(* ... and no other reply is taken for an answer. *)
LEMMA NextKeepsAnswers ==
  ASSUME TypeOK, Tags, Calls, Slots, WalkGoesOn, AnswersTrue, [Next]_vars
  PROVE  AnswersTrue'
<1> USE DEF coreVars, linkVars, espVars, histVars
<1>1. CASE EspListen
  <2>1. /\ UNCHANGED <<pc, got, call, step, conf, want, disk, walk, again, live, dir>>
        /\ armed' # "reply"
    BY <1>1 DEF EspListen
  <2>2. PICK p : p = got /\ got' = p
    BY <2>1
  <2>3. pc = "answered" => Means(p)
    BY <2>2 DEF AnswersTrue
  <2>4. pc = "answered" => Means(p)'
    BY <2>1, <2>3, MeansKept
  <2>5. QED
    BY <2>1, <2>2, <2>4 DEF AnswersTrue, Means
<1>2. CASE EspReboot
  <2>1. /\ UNCHANGED <<pc, got, call, step, conf, want, disk, walk, again>>
        /\ armed' # "reply" /\ ~dir'.open /\ \A t \in Targets : live'[t] = None
    BY <1>2 DEF EspReboot, Closed
  <2>2. PICK p : p = got /\ got' = p
    BY <2>1
  <2>3. pc = "answered" => Means(p)
    BY <2>2 DEF AnswersTrue
  <2>4. pc = "answered" => Means(p)'
    BY <2>1, <2>3, MeansKept
  <2>5. QED
    BY <2>1, <2>2, <2>4 DEF AnswersTrue, Means
<1>3. CASE EspServe
  <2>1. pc' = pc /\ pc # "answered" /\ step' = step /\ call' = call
    BY <1>3, ServeStep, AnsweredAlone
  <2>2. SUFFICES ASSUME pc = "recv", out'.age = 0, out'.ack, NEW p, p = out'.payload
                 PROVE  Means(p)'
    BY <2>1 DEF AnswersTrue, Means
  <2>3. /\ Serves(Head(inbox)) /\ Succeeds(Head(inbox))
        /\ out'.age = Head(inbox).age /\ p = Payload(Head(inbox))
    BY <1>3, <2>2, ServeStep DEF Reply, Ack, Nak
  <2>4. Head(inbox).do = step /\ Head(inbox).of = call
    BY <1>3, <2>2, <2>3, ServeStep DEF Tags, TagIsNew
  <2>5. QED
    BY <1>3, <2>3, <2>4, ServeMeans
<1>4. CASE Transaction
  <2>1. armed' # "reply"
    BY <1>4, AttemptStep
  <2>2. SUFFICES ASSUME pc' = "answered", NEW p, p = got' PROVE Means(p)'
    BY <2>1 DEF AnswersTrue, Means
  <2>3. /\ UNCHANGED <<call, step, conf, want, disk, walk, again, live, dir>>
        /\ p = out.payload /\ pc = "recv" /\ armed = "reply" /\ out.age = 0 /\ out.ack
    BY <1>4, <2>2, AttemptStep
  <2>4. QED
    BY <2>3, MeansKept DEF AnswersTrue
<1>5. CASE Caller
  <2>1. pc' \in {"send", "idle"}
    BY <1>5 DEF Caller, Begin, Stats, Opens, Enters, SeesEntry, Walks, CutsWalk, EndsWalk, Unslots, Selects, MountsAll, Delivers,
       Stores, Ejects, Mounts, MountFails, Lists, Talks, Goes, Returns, Transact
  <2>2. QED
    BY <2>1 DEF AnswersTrue
<1>6. CASE UNCHANGED vars
  BY <1>6 DEF vars, AnswersTrue, Means, Passed
<1>7. QED
  BY <1>1, <1>2, <1>3, <1>4, <1>5, <1>6 DEF Next, Esp

-----------------------------------------------------------------------------
(* A directory walk. *)

(* The numbers a walk is about. *)
LEMMA WalkCounts ==
  ASSUME TypeOK
  PROVE  /\ Len(inbox) \in Nat /\ again \in Nat /\ LastEntry \in Nat
         /\ walk.found \in Seq(Entries) /\ Len(walk.found) \in Nat /\ DOMAIN walk.found = 1 .. Len(walk.found)
         /\ dir.left \in Seq(Entries) /\ Len(dir.left) \in Nat /\ DOMAIN dir.left = 1 .. Len(dir.left)
         /\ \A i \in DOMAIN walk.found : walk.found[i] \in Int
         /\ Passed \in Int
BY Literals DEF TypeOK, Entries, Passed

(* A listing that has just been opened begins with the first image, ... *)
LEMMA EnterKeepsWalk ==
  ASSUME TypeOK, Tags, Calls, AnswersTrue, Enters
  PROVE  WalkGoesOn'
<1>1. /\ pc = "answered" /\ step = "open" /\ Goes("entry") /\ walk' = walk
  BY DEF Enters, After
<1>2. /\ UNCHANGED <<call, dir, again>> /\ pc' = "send" /\ Len(inbox') = Len(inbox) /\ inbox = <<>>
      /\ Means(got)
  BY <1>1, GoesStep, AnsweredAlone
<1>3. SUFFICES ASSUME call.kind = "list" PROVE Ascends' /\ BelowCap' /\ (dir.open => Remains' /\ MissesFew')
  BY <1>2 DEF WalkGoesOn
<1>4. walk.found = <<>> /\ again = 0 /\ (dir.open => dir.left = Listing)
  BY <1>1, <1>2, <1>3 DEF Calls, Rested, NoWalk, Means
<1>5. Ascends' /\ BelowCap'
  BY <1>1, <1>4, LinkAssumption DEF Ascends, BelowCap
<1>6. ASSUME dir.open PROVE Remains' /\ MissesFew'
  <2>1. /\ dir' = dir /\ Len(dir.left) = LastEntry /\ LastEntry \in Nat
        /\ DOMAIN dir.left = 1 .. LastEntry /\ \A j \in DOMAIN dir.left : dir.left[j] = j
    BY <1>2, <1>4, <1>6, Literals DEF Listing, Entries
  <2>2. Passed' = 0
    BY <2>1 DEF Passed
  <2>3. Requests' = 1
    BY <1>2 DEF Requests
  <2>4. Remains'
    BY <1>1, <1>4, <2>1, <2>2 DEF Remains
  <2>5. MissesFew'
    BY <1>1, <1>2, <1>4, <2>2, <2>3 DEF MissesFew
  <2>6. QED
    BY <2>4, <2>5
<1>7. QED
  BY <1>5, <1>6

(* ... sees an entry behind the one it has seen last, ... *)
LEMMA SeesInOrder ==
  ASSUME TypeOK, Tags, WalkGoesOn, AnswersTrue, SeesEntry
  PROVE  /\ Ascends'
         /\ got.img \in Entries /\ (dir.open => got.img <= Passed)
         /\ Len(walk'.found) = Len(walk.found) + 1
         /\ DOMAIN walk'.found = 1 .. (Len(walk.found) + 1)
         /\ \A i \in 1 .. Len(walk.found) : walk'.found[i] = walk.found[i]
         /\ walk'.found[Len(walk.found) + 1] = got.img
<1>1. /\ pc = "answered" /\ step = "entry" /\ got # End /\ call.kind = "list"
      /\ walk' = [walk EXCEPT !.found = Append(@, got.img)]
  BY DEF SeesEntry, After
<1>2. Means(got)
  BY <1>1, AnsweredAlone
<1> DEFINE n == Len(walk.found)
<1>3. /\ got.img \in Entries /\ \A i \in DOMAIN walk.found : walk.found[i] < got.img
      /\ dir.open => got.img <= Passed
  BY <1>1, <1>2 DEF Means
<1>4. /\ n \in Nat /\ DOMAIN walk.found = 1 .. n /\ walk.found \in Seq(Entries)
  BY WalkCounts
<1>5. /\ Len(walk'.found) = n + 1 /\ DOMAIN walk'.found = 1 .. (n + 1)
      /\ \A i \in 1 .. n : walk'.found[i] = walk.found[i]
      /\ walk'.found[n + 1] = got.img
  <2>1. walk'.found = Append(walk.found, got.img)
    BY <1>1 DEF TypeOK
  <2>2. QED
    BY <1>3, <1>4, <2>1
<1>6. ASSUME NEW i \in 1 .. (n + 1), NEW j \in 1 .. (n + 1), i < j
      PROVE  walk'.found[i] < walk'.found[j]
  <2>1. i \in 1 .. n
    BY <1>4, <1>6
  <2>2. CASE j = n + 1
    BY <1>3, <1>4, <1>5, <2>1, <2>2
  <2>3. CASE j \in 1 .. n
    BY <1>1, <1>4, <1>5, <1>6, <2>1, <2>3 DEF WalkGoesOn, Ascends
  <2>4. QED
    BY <1>4, <2>2, <2>3
<1>7. Ascends'
  BY <1>5, <1>6 DEF Ascends
<1>8. QED
  BY <1>3, <1>5, <1>7

(* ... goes on below the cap, ... *)
LEMMA WalkKeepsWalk ==
  ASSUME TypeOK, Tags, WalkGoesOn, AnswersTrue, Walks
  PROVE  WalkGoesOn'
<1>1. /\ pc = "answered" /\ step = "entry" /\ Goes("entry") /\ call.kind = "list"
      /\ SeesEntry /\ Len(walk.found) + 1 < WalkCap
  BY DEF Walks, SeesEntry, After
<1>2. /\ UNCHANGED <<call, dir, again>> /\ pc' = "send" /\ Len(inbox') = Len(inbox) /\ inbox = <<>>
  BY <1>1, GoesStep, AnsweredAlone
<1> DEFINE n == Len(walk.found)
<1>3. got.img \in Entries /\ (dir.open => got.img <= Passed)
  BY <1>1, SeesInOrder
<1>4. /\ n \in Nat /\ DOMAIN walk.found = 1 .. n /\ walk.found \in Seq(Entries) /\ again \in Nat /\ Passed \in Int
  BY WalkCounts
<1>5. /\ Len(walk'.found) = n + 1 /\ DOMAIN walk'.found = 1 .. (n + 1)
      /\ \A i \in 1 .. n : walk'.found[i] = walk.found[i]
      /\ walk'.found[n + 1] = got.img
  BY <1>1, SeesInOrder
<1>6. Ascends' /\ BelowCap'
  BY <1>1, <1>5, SeesInOrder DEF BelowCap
<1>7. ASSUME dir.open PROVE Remains' /\ MissesFew'
  <2>1. Remains /\ MissesFew
    BY <1>1, <1>7 DEF WalkGoesOn
  <2>2. Passed' = Passed /\ dir' = dir
    BY <1>2 DEF Passed
  <2>3. \A i \in 1 .. (n + 1) : walk'.found[i] <= Passed
    <3>1. \A i \in 1 .. n : walk.found[i] <= Passed
      BY <1>4, <2>1 DEF Remains
    <3>2. got.img <= Passed
      BY <1>3, <1>7
    <3>3. \A i \in 1 .. (n + 1) : i \in 1 .. n \/ i = n + 1
      BY <1>4
    <3>4. QED
      BY <1>5, <3>1, <3>2, <3>3
  <2>4. Remains'
    BY <1>5, <2>1, <2>2, <2>3 DEF Remains
  <2>5. Requests = 0 /\ Requests' = 1
    BY <1>1, <1>2 DEF Requests
  <2>6. Passed <= n + 1 + again
    BY <1>4, <2>1, <2>5 DEF MissesFew
  <2>7. Passed + 1 <= (n + 1) + 1 + again
    BY <1>4, <2>6
  <2>8. MissesFew'
    BY <1>2, <1>5, <2>2, <2>5, <2>7 DEF MissesFew
  <2>9. QED
    BY <2>4, <2>8
<1>8. QED
  BY <1>2, <1>6, <1>7 DEF WalkGoesOn

(* ... and passes an entry for each request served. *)
LEMMA ServeKeepsWalk ==
  ASSUME TypeOK, Calls, WalkGoesOn, EspServe
  PROVE  WalkGoesOn'
<1> DEFINE r == Head(inbox)
<1>1. /\ UNCHANGED <<pc, call, step, walk, again>> /\ [do |-> r.do, of |-> r.of] \in Asked
      /\ Len(inbox) \in Nat /\ Len(inbox') = Len(inbox) - 1
      /\ Serves(r) \/ UNCHANGED espVars
  BY ServeStep
<1>2. SUFFICES ASSUME call.kind = "list", step = "entry"
               PROVE  Ascends' /\ BelowCap' /\ (dir'.open => Remains' /\ MissesFew')
  BY <1>1 DEF WalkGoesOn
<1>3. r.do = "entry"
  BY <1>1, <1>2 DEF Calls, Steady, Asking
<1>4. dir' = dir \/ (dir.left # <<>> /\ dir' = [dir EXCEPT !.left = Tail(@)])
  BY <1>1, <1>3 DEF Serves, espVars
<1>5. Ascends' /\ BelowCap'
  BY <1>1, <1>2 DEF WalkGoesOn, Ascends, BelowCap
<1>6. ASSUME dir'.open PROVE Remains' /\ MissesFew'
  <2>1. Remains /\ MissesFew
    BY <1>2, <1>4, <1>6 DEF WalkGoesOn, TypeOK
  <2>2. Requests' = Requests - 1 /\ Requests \in Nat
    BY <1>1 DEF Requests
  <2>3. Passed \in Int /\ Len(walk.found) \in Nat /\ again \in Nat
    BY WalkCounts
  <2>4. CASE dir' = dir
    <3>1. Passed' = Passed
      BY <2>4 DEF Passed
    <3>2. Passed + (Requests - 1) <= Len(walk.found) + 1 + again
      BY <2>1, <2>2, <2>3 DEF MissesFew
    <3>3. QED
      BY <1>1, <2>1, <2>2, <2>4, <3>1, <3>2 DEF Remains, MissesFew
  <2>5. CASE dir.left # <<>> /\ dir' = [dir EXCEPT !.left = Tail(@)]
    <3>1. /\ dir'.left = Tail(dir.left) /\ dir.left \in Seq(Entries) /\ dir.left # <<>>
          /\ Len(dir.left) \in Nat /\ DOMAIN dir.left = 1 .. Len(dir.left) /\ LastEntry \in Nat
      BY <2>5, WalkCounts DEF TypeOK
    <3>2. /\ Len(dir'.left) = Len(dir.left) - 1 /\ DOMAIN dir'.left = 1 .. (Len(dir.left) - 1)
          /\ \A j \in DOMAIN dir'.left : dir'.left[j] = dir.left[j + 1] /\ j \in Nat /\ j + 1 \in DOMAIN dir.left
      BY <3>1
    <3>3. Passed' = Passed + 1
      <4>1. LastEntry - (Len(dir.left) - 1) = (LastEntry - Len(dir.left)) + 1
        BY <3>1
      <4>2. QED
        BY <3>2, <4>1 DEF Passed
    <3>4. \A j \in DOMAIN dir'.left : dir'.left[j] = (Passed + 1) + j
      BY <2>1, <2>3, <3>2 DEF Remains
    <3>5. \A i \in DOMAIN walk.found : walk.found[i] <= Passed + 1
      <4>1. ASSUME NEW i \in DOMAIN walk.found PROVE walk.found[i] <= Passed + 1
        <5>1. walk.found[i] \in Int /\ walk.found[i] <= Passed
          BY <2>1, WalkCounts DEF Remains
        <5>2. QED
          BY <2>3, <5>1
      <4>2. QED
        BY <4>1
    <3>6. Len(dir'.left) <= LastEntry
      BY <2>1, <3>1, <3>2 DEF Remains
    <3>7. Remains'
      BY <1>1, <3>3, <3>4, <3>5, <3>6 DEF Remains
    <3>8. (Passed + 1) + (Requests - 1) <= Len(walk.found) + 1 + again
      BY <2>1, <2>2, <2>3 DEF MissesFew
    <3>9. QED
      BY <1>1, <2>2, <3>3, <3>7, <3>8 DEF MissesFew
  <2>6. QED
    BY <1>4, <2>4, <2>5
<1>7. QED
  BY <1>5, <1>6

(* The budget of a walk grows with every repeated request. *)
LEMMA RepeatSum ==
  ASSUME NEW p \in Int, NEW q \in Int, NEW r \in Int, NEW n \in Int, NEW a \in Int,
         p + r <= n + 1 + a, q <= r
  PROVE  p + (q + 1) <= n + 1 + (a + 1)
OBVIOUS

(* An attempt adds a request, and counts it if it repeats one. *)
LEMMA AttemptKeepsWalk ==
  ASSUME TypeOK, WalkGoesOn, Transaction
  PROVE  WalkGoesOn'
<1>1. UNCHANGED <<call, step, walk, dir>>
  BY AttemptStep
<1>2. SUFFICES ASSUME call.kind = "list", step = "entry"
               PROVE  Ascends' /\ BelowCap' /\ (dir.open => Remains' /\ MissesFew')
  BY <1>1 DEF WalkGoesOn
<1>3. /\ Ascends' /\ BelowCap' /\ Passed' = Passed
      /\ dir.open => Remains /\ Remains' /\ MissesFew
  BY <1>1, <1>2 DEF WalkGoesOn, Ascends, BelowCap, Passed, Remains
<1>4. ASSUME dir.open PROVE MissesFew'
  <2>1. /\ Passed \in Int /\ Len(walk.found) \in Nat /\ again \in Nat /\ Len(inbox) \in Nat
        /\ Requests \in Nat
    BY WalkCounts DEF Requests
  <2>2. MissesFew
    BY <1>3, <1>4
  <2>3. CASE pc = "send" /\ pc' = "recv" /\ again' = again /\ Len(inbox') \in {Len(inbox), Len(inbox) + 1}
    <3>1. PICK q \in Nat : Requests' = q /\ q <= Requests
      BY <2>1, <2>3 DEF Requests
    <3>2. Passed + q <= Len(walk.found) + 1 + again
      BY <2>1, <2>2, <3>1 DEF MissesFew
    <3>3. QED
      BY <1>1, <1>3, <2>3, <3>1, <3>2 DEF MissesFew
  <2>4. CASE pc' = "send" /\ again' = again + 1 /\ Len(inbox') = Len(inbox)
    <3>1. Requests' = Len(inbox) + 1 /\ Len(inbox) <= Requests
      BY <2>1, <2>4 DEF Requests
    <3>2. Passed + (Len(inbox) + 1) <= Len(walk.found) + 1 + (again + 1)
      <4>1. Passed + Requests <= Len(walk.found) + 1 + again /\ Len(inbox) <= Requests
        BY <2>2, <3>1 DEF MissesFew
      <4>2. /\ Passed \in Int /\ Len(inbox) \in Int /\ Requests \in Int
            /\ Len(walk.found) \in Int /\ again \in Int
        BY <2>1
      <4>3. QED
        BY <4>1, <4>2, RepeatSum
    <3>3. QED
      BY <1>1, <1>3, <2>4, <3>1, <3>2 DEF MissesFew
  <2>5. CASE pc' \in {"answered", "failed"} /\ again' = again /\ Len(inbox') = Len(inbox)
    <3>1. Requests' = Len(inbox) /\ Len(inbox) <= Requests
      BY <2>1, <2>5 DEF Requests
    <3>2. Passed + Len(inbox) <= Len(walk.found) + 1 + again
      BY <2>1, <2>2, <3>1 DEF MissesFew
    <3>3. QED
      BY <1>1, <1>3, <2>5, <3>1, <3>2 DEF MissesFew
  <2>6. QED
    BY <1>2, <2>3, <2>4, <2>5, EntryAttempt
<1>5. QED
  BY <1>3, <1>4

(* No step takes a walk back or lets it skip more than was repeated. *)
LEMMA NextKeepsWalk ==
  ASSUME TypeOK, Tags, Calls, WalkGoesOn, AnswersTrue, [Next]_vars
  PROVE  WalkGoesOn'
<1> USE DEF coreVars, linkVars, espVars, histVars
<1>1. CASE EspListen
  BY <1>1 DEF EspListen, WalkGoesOn, Ascends, BelowCap, Remains, MissesFew, Requests, Passed
<1>2. CASE EspReboot
  BY <1>2 DEF EspReboot, Closed, WalkGoesOn, Ascends, BelowCap
<1>3. CASE Begin
  <2>1. PICK c \in Call : step' = First(c)
    BY <1>3 DEF Begin, Transact
  <2>2. First(c) # "entry"
    BY CallFields DEF First
  <2>3. QED
    BY <2>1, <2>2 DEF WalkGoesOn
<1>4. CASE Stats \/ Opens \/ Selects \/ MountsAll \/ CutsWalk \/ EndsWalk \/ Unslots
  <2>1. step' # "entry"
    BY <1>4 DEF Stats, Opens, Selects, MountsAll, CutsWalk, EndsWalk, Unslots, Goes, Transact
  <2>2. QED
    BY <2>1 DEF WalkGoesOn
<1>5. CASE Delivers \/ Stores \/ Ejects \/ Mounts \/ MountFails \/ Lists \/ Talks
  <2>1. step' = "ping"
    BY <1>5 DEF Delivers, Stores, Ejects, Mounts, MountFails, Lists, Talks, Returns
  <2>2. QED
    BY <2>1 DEF WalkGoesOn
<1>6. CASE UNCHANGED vars
  BY <1>6 DEF vars, WalkGoesOn, Ascends, BelowCap, Remains, MissesFew, Requests, Passed
<1>7. QED
  BY <1>1, <1>2, <1>3, <1>4, <1>5, <1>6, EnterKeepsWalk, WalkKeepsWalk, ServeKeepsWalk, AttemptKeepsWalk
     DEF Next, Esp, Caller

(* A walk that ends at the end marker has passed every entry, one that is cut has seen as
   many as the cap allows. *)
LEMMA NextKeepsListing ==
  ASSUME TypeOK, Tags, WalkGoesOn, AnswersTrue, ListIsFaithful, [Next]_vars
  PROVE  ListIsFaithful'
<1> USE DEF coreVars, linkVars, espVars, histVars
<1>1. CASE EndsWalk
  <2>1. /\ step = "entry" /\ Goes("close")
        /\ call.kind = "list" => walk' = [walk EXCEPT !.ok = pc = "answered"]
        /\ pc = "answered" /\ call.kind = "list" => got = End
    BY <1>1 DEF EndsWalk
  <2>2. UNCHANGED <<call, again>>
    BY <2>1, GoesStep
  <2>3. SUFFICES ASSUME call.kind = "list", walk'.ok
                 PROVE  /\ \A i, j \in DOMAIN walk'.found : i < j => walk'.found[i] < walk'.found[j]
                        /\ Len(walk'.found) <= WalkCap
                        /\ Len(walk'.found) + again >= Len(Listing)
    BY <2>2 DEF ListIsFaithful, Listing, Entries
  <2>4. walk'.found = walk.found /\ pc = "answered" /\ got = End
    BY <2>1, <2>3 DEF TypeOK
  <2>5. Ascends /\ BelowCap /\ LastEntry <= Len(walk.found) + again
    BY <2>1, <2>3, <2>4, AnsweredAlone DEF WalkGoesOn, Means
  <2>6. Len(Listing) = LastEntry /\ LastEntry \in Nat /\ again \in Nat /\ Len(walk.found) \in Nat
    BY Literals, WalkCounts
  <2>7. QED
    BY <2>4, <2>5, <2>6, LinkAssumption DEF Ascends, BelowCap
<1>2. CASE Esp
  <2>1. UNCHANGED <<call, step, walk, again>>
    BY <1>2 DEF Esp, EspServe, EspListen, EspReboot
  <2>2. QED
    BY <2>1 DEF ListIsFaithful, Listing, Entries
<1>3. CASE Transaction
  <2>1. UNCHANGED <<call, step, walk>> /\ (step = "close" => again' = again)
    BY <1>3, AttemptStep
  <2>2. QED
    BY <2>1 DEF ListIsFaithful, Listing, Entries
<1>4. CASE Begin
  <2>1. PICK c \in Call : step' = First(c)
    BY <1>4 DEF Begin, Transact
  <2>2. First(c) # "close"
    BY CallFields DEF First
  <2>3. QED
    BY <2>1, <2>2 DEF ListIsFaithful
<1>5. CASE Stats \/ Opens \/ Enters \/ Walks \/ Selects \/ MountsAll \/ Unslots
  <2>1. step' # "close"
    BY <1>5 DEF Stats, Opens, Enters, Walks, Selects, MountsAll, Unslots, Goes, Transact
  <2>2. QED
    BY <2>1 DEF ListIsFaithful
<1>6. CASE Delivers \/ Stores \/ Ejects \/ Mounts \/ MountFails \/ Lists \/ Talks
  <2>1. step' = "ping"
    BY <1>6 DEF Delivers, Stores, Ejects, Mounts, MountFails, Lists, Talks, Returns
  <2>2. QED
    BY <2>1 DEF ListIsFaithful
<1>7. CASE UNCHANGED vars
  BY <1>7 DEF vars, ListIsFaithful, Listing, Entries
<1>8. CASE CutsWalk
  <2>1. SeesEntry /\ Len(walk.found) + 1 = WalkCap
    BY <1>8 DEF CutsWalk
  <2>2. Ascends' /\ Len(walk'.found) = WalkCap
    BY <2>1, SeesInOrder
  <2>3. QED
    BY <2>2, LinkAssumption DEF ListIsFaithful, Ascends
<1>9. QED
  BY <1>1, <1>2, <1>3, <1>4, <1>5, <1>6, <1>7, <1>8 DEF Next, Caller

-----------------------------------------------------------------------------
(* The properties, for every number of targets, images, calls and faults. *)

(* The invariant holds at power-on, ... *)
LEMMA InitInvariant == Init => IInv
<1> SUFFICES ASSUME Init PROVE IInv
  OBVIOUS
<1>1. TypeOK
  BY InitTyped
<1>2. /\ pc = "idle" /\ step = "ping" /\ call = NoCall /\ walk = NoWalk /\ again = 0
      /\ inbox = <<>> /\ armed = "none" /\ Asked = {}
      /\ \A t \in Targets : want[t] = None
      /\ \A i \in Images : disk[i] = 0 /\ vals[i] = {0}
  BY NothingAsked DEF Init
<1>3. Tags
  BY <1>2 DEF Tags, InTime, Ordered, TagIsNew, NothingOutstanding
<1>4. Calls
  BY <1>2 DEF Calls, Rested, Stages, Steady, NoCall
<1>5. Slots
  BY <1>2 DEF Slots, OpenWhileSelected, SlotsAsWanted, SelectedForMount, WritesAccounted, NoCall
<1>6. WalkGoesOn /\ AnswersTrue /\ ListIsFaithful
  BY <1>2 DEF WalkGoesOn, AnswersTrue, ListIsFaithful
<1>7. QED
  BY <1>1, <1>3, <1>4, <1>5, <1>6 DEF IInv

(* ... and every step keeps it. *)
LEMMA InvariantHolds == Spec => []IInv
<1>1. IInv /\ [Next]_vars => IInv'
  <2> SUFFICES ASSUME IInv, [Next]_vars PROVE IInv'
    OBVIOUS
  <2>1. TypeOK /\ Tags /\ Calls /\ Slots /\ WalkGoesOn /\ AnswersTrue /\ ListIsFaithful
    BY DEF IInv
  <2>2. TypeOK'
    BY <2>1, NextTyped
  <2>3. Tags' /\ Calls' /\ Slots'
    BY <2>1, NextKeepsTags, NextKeepsCalls, NextKeepsSlots
  <2>4. WalkGoesOn' /\ AnswersTrue' /\ ListIsFaithful'
    BY <2>1, NextKeepsWalk, NextKeepsAnswers, NextKeepsListing
  <2>5. QED
    BY <2>2, <2>3, <2>4 DEF IInv
<1>2. QED
  BY InitInvariant, <1>1, PTL DEF Spec

(* A target that is mounted and neither ejected nor mounted anew since is served its own
   image or none, whatever requests of failed calls the module still executes: a slot is
   named in a select request only while its target is open (fuji_select_image). *)
THEOREM ServesSelectedAlways == Spec => []ServesSelected
<1>1. IInv => ServesSelected
  BY DEF IInv, Slots, SlotsAsWanted, ServesSelected
<1>2. QED
  BY <1>1, InvariantHolds, PTL

(* A sector that is read through a mounted target comes from the image mounted there and
   has the value written last, or one of a write that failed since (fuji_read,
   fuji_write). *)
THEOREM ReadsLatestAlways == Spec => []ReadsLatest
<1>1. IInv => ReadsLatest
  <2> SUFFICES ASSUME IInv, pc = "answered", step = "read", want[call.t] # None
               PROVE  got.img = want[call.t] /\ got.v \in vals[want[call.t]]
    BY DEF ReadsLatest
  <2>1. got.img = want[call.t] /\ got.v = disk[got.img]
    BY DEF IInv, AnswersTrue, Means
  <2>2. want[call.t] \in Images
    BY CallFields DEF IInv, TypeOK, OrNone
  <2>3. QED
    BY <2>1, <2>2 DEF IInv, Slots, WritesAccounted
<1>2. QED
  BY <1>1, InvariantHolds, PTL

(* A walk that ends well sees the entries in order and none twice; it misses no more than
   requests were repeated, unless it has been cut off at the cap, with as many seen as
   that allows (fuji_dir_list). *)
THEOREM ListIsFaithfulAlways == Spec => []ListIsFaithful
<1>1. IInv => ListIsFaithful
  BY DEF IInv
<1>2. QED
  BY <1>1, InvariantHolds, PTL
=============================================================================
