----------------------------- MODULE CommandPort -----------------------------
(***************************************************************************)
(* What the board promises the driver of a disk about the commands it      *)
(* sends: every command is executed at most once, block by block, between  *)
(* the target it selected and the address it programmed; it is answered by *)
(* one verdict, GOOD only if all of it has been done; and that verdict is  *)
(* what the driver hears.  A reset cuts a command off, and the board is    *)
(* ready again once it has settled.                                        *)
(***************************************************************************)
EXTENDS Naturals, Sequences

CONSTANTS
  Command,    \* what a driver can ask for: op, blocks, dma, target
  ParamLen,   \* parameter bytes of a command that takes them over DATA
  At(_, _)    \* the address of a block: the one programmed for command k, n blocks on

VARIABLES
  issued,   \* the commands of the driver, oldest first
  state,    \* where the last of them is
  done,     \* blocks, or parameters, of it that have been moved
  moving,   \* the transfer under way, as a sequence of 0 or 1
  synced,   \* whether its blocks are on the medium
  verdict   \* its status until the driver has taken it, as a sequence of 0 or 1

portVars == <<issued, state, done, moving, synced, verdict>>

Current == Len(issued)
Mine == issued[Current]
Sectors == Mine.op \in {"READ", "WRITE"}

Init ==
  /\ issued = <<>>
  /\ state = "idle"
  /\ done = 0
  /\ moving = <<>>
  /\ synced = FALSE
  /\ verdict = <<>>

Ask(c) ==
  /\ state = "idle"
  /\ state' = "asked"
  /\ issued' = Append(issued, c)
  /\ UNCHANGED <<done, moving, synced, verdict>>

Start ==
  /\ state = "asked"
  /\ state' = "running"
  /\ UNCHANGED <<issued, done, moving, synced, verdict>>

BeginTransfer ==
  /\ state = "running" /\ moving = <<>>
  /\ Mine.dma
  /\ Sectors => done < Mine.blocks
  /\ moving' = <<[target |-> Mine.target, address |-> At(Current, done)]>>
  /\ UNCHANGED <<issued, state, done, synced, verdict>>

(* A transfer that fails has moved nothing that counts. *)
EndTransfer ==
  /\ state = "running" /\ moving # <<>>
  /\ Sectors
  /\ moving' = <<>>
  /\ done' \in {done, done + 1}
  /\ UNCHANGED <<issued, state, synced, verdict>>

TakeParameter ==
  /\ state = "running"
  /\ Mine.op = "PARAMS" /\ ~Mine.dma
  /\ done + 1 < ParamLen
  /\ done' = done + 1
  /\ UNCHANGED <<issued, state, moving, synced, verdict>>

Sync ==
  /\ state = "running" /\ moving = <<>>
  /\ Mine.op = "WRITE" /\ done = Mine.blocks
  /\ synced' = TRUE
  /\ UNCHANGED <<issued, state, done, moving, verdict>>

(* All that was asked for is done, or is with this answer. *)
Fulfilled ==
  CASE Mine.op = "READ" -> done = Mine.blocks /\ moving = <<>>
    [] Mine.op = "WRITE" -> done = Mine.blocks /\ synced
    [] Mine.op = "PARAMS" /\ ~Mine.dma -> done + 1 = ParamLen
    [] Mine.op \in {"SENSE", "MODE", "PARAMS"} /\ Mine.dma -> moving # <<>>
    [] OTHER -> TRUE

Answer(good) ==
  /\ state = "running"
  /\ good => Fulfilled
  /\ state' = "answered"
  /\ verdict' = <<[id |-> Current, good |-> good]>>
  /\ done' = 0 /\ moving' = <<>> /\ synced' = FALSE
  /\ UNCHANGED issued

Hear ==
  /\ state = "answered"
  /\ state' = "heard"
  /\ UNCHANGED <<issued, done, moving, synced, verdict>>

Accept ==
  /\ state = "heard"
  /\ state' = "idle"
  /\ verdict' = <<>>
  /\ UNCHANGED <<issued, done, moving, synced>>

CutOff ==
  /\ state # "cut"
  /\ state' = "cut"
  /\ done' = 0 /\ moving' = <<>> /\ synced' = FALSE /\ verdict' = <<>>
  /\ UNCHANGED issued

Settled ==
  /\ state = "cut"
  /\ state' = "idle"
  /\ UNCHANGED <<issued, done, moving, synced, verdict>>

Next ==
  \/ Start \/ BeginTransfer \/ EndTransfer \/ TakeParameter \/ Sync
  \/ \E good \in BOOLEAN : Answer(good)
  \/ Hear \/ Accept \/ CutOff \/ Settled
  \/ \E c \in Command : Ask(c)

Spec == Init /\ [][Next]_portVars
=============================================================================
