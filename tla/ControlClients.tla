--------------------------- MODULE ControlClients ---------------------------
(***************************************************************************)
(* rhex_ground/rhex_control.c: the control service accepts connections of  *)
(* ground control programs on a TCP port, keeps their descriptors in a     *)
(* table of slots, reads MAVLink messages from them and acknowledges the   *)
(* orders to shut down or reboot (it carries none of them out).            *)
(*                                                                         *)
(* A message is an "order" (a COMMAND_LONG that is acknowledged) or        *)
(* "other".  A read takes up to sizeof(mavlink_message_t), room for some   *)
(* six orders: it takes all that waits here, and only the first message in *)
(* it is parsed.                                                           *)
(***************************************************************************)
EXTENDS Integers, Sequences, FiniteSets

CONSTANTS
  MaxConns,    (* bound: connections made in a run, numbered as they come  *)
  Slots,       (* the size of clients[]: 32                                *)
  MaxSent,     (* bound: messages sent in a run                            *)
  MaxDeaf      (* bound: the connections, of the first, that stop reading  *)

ControlAssumption == MaxDeaf \in Nat /\ MaxConns \in Nat /\ Slots \in Nat \ {0} /\ MaxSent \in Nat

Conns == 1 .. MaxConns
Free  == 0

VARIABLES
  peer,     (* the far end: "away", "up", "deaf" (reads no more), "left"   *)
            (* (closed), "reset" (closed with an error yet to be reported), *)
            (* "gone" (a write would raise SIGPIPE)                        *)
  queue,    (* connections waiting for accept()                            *)
  inbox,    (* messages that wait in the socket                            *)
  slot,     (* clients[] and cmask: the connection in a slot, or Free      *)
  ready,    (* the slots select() reported that are still to be served     *)
  pc,       (* "accept", "select", "serve", "write", or "killed"           *)
  writes,   (* the connection an acknowledgement is being written to       *)
  data,     (* what rc_data holds: "order", "other", or "none"             *)
  spilled,  (* a descriptor was stored beyond clients[]                    *)
  sent,     (* history: messages sent                                      *)
  orders,   (* history: orders sent                                        *)
  alone,    (* history: those sent when nothing of that peer waited        *)
  acks,     (* history: acknowledgements written                           *)
  late      (* history: connections that were to get one after they closed *)

peerVars == <<sent, orders, alone>>
ackVars  == <<writes, acks, late>>
vars     == <<peer, queue, inbox, slot, ready, pc, data, spilled, peerVars, ackVars>>

Open == {c \in Conns : peer[c] \in {"up", "deaf"}}

Used == {i \in 1 .. Slots : slot[i] # Free}

Init ==
  /\ peer = [c \in Conns |-> "away"] /\ queue = <<>>
  /\ inbox = [c \in Conns |-> <<>>]
  /\ slot = [i \in 1 .. Slots |-> Free] /\ ready = {}
  /\ pc = "accept" /\ data = "none" /\ spilled = FALSE
  /\ sent = 0 /\ orders = [c \in Conns |-> 0] /\ alone = orders
  /\ writes = Free /\ acks = orders /\ late = {}

-----------------------------------------------------------------------------
(* The far ends: connect, send, stop reading, close, or close with unread  *)
(* data, which resets the connection.  What they sent can still be read.   *)
Connect(c) ==
  /\ peer[c] = "away" /\ \A b \in 1 .. c - 1 : peer[b] # "away"
  /\ peer' = [peer EXCEPT ![c] = "up"]
  /\ queue' = Append(queue, c)
  /\ UNCHANGED <<inbox, slot, ready, pc, data, spilled, peerVars, ackVars>>

Send(c) ==
  /\ c \in Open /\ sent < MaxSent
  /\ \E m \in {"order", "other"} :
       /\ inbox' = [inbox EXCEPT ![c] = Append(@, m)]
       /\ orders' = [orders EXCEPT ![c] = IF m = "order" THEN @ + 1 ELSE @]
       /\ alone' = [alone EXCEPT ![c] = IF m = "order" /\ inbox[c] = <<>> THEN @ + 1 ELSE @]
  /\ sent' = sent + 1
  /\ UNCHANGED <<peer, queue, slot, ready, pc, data, spilled, ackVars>>

Deafen(c) ==
  /\ peer[c] = "up" /\ c <= MaxDeaf
  /\ peer' = [peer EXCEPT ![c] = "deaf"]
  /\ UNCHANGED <<queue, inbox, slot, ready, pc, data, spilled, peerVars, ackVars>>

Leave(c) ==
  /\ peer[c] = "up"
  /\ peer' = [peer EXCEPT ![c] = "left"]
  /\ UNCHANGED <<queue, inbox, slot, ready, pc, data, spilled, peerVars, ackVars>>

Reset(c) ==
  /\ c \in Open
  /\ peer' = [peer EXCEPT ![c] = "reset"]
  /\ UNCHANGED <<queue, inbox, slot, ready, pc, data, spilled, peerVars, ackVars>>

-----------------------------------------------------------------------------
(* __builtin_ctz(~cmask): the first free slot.                             *)
FreeSlot == CHOOSE i \in 1 .. Slots : slot[i] = Free /\ \A j \in 1 .. i - 1 : slot[j] # Free

(* Mutant of StoreSlot: the slot after as many as are in use.              *)
StoreSlotByCount(c) == slot' = [slot EXCEPT ![Cardinality(Used) + 1] = c]

StoreSlot(c) == slot' = [slot EXCEPT ![FreeSlot] = c]

(* accept() takes one connection, if any.  With all slots in use ctz(0) is *)
(* undefined; as compiled it yields 32, and clients[32] is beyond the      *)
(* array: the connection is lost and what lay there is overwritten.        *)
Accept ==
  /\ pc = "accept"
  /\ IF queue = <<>> THEN UNCHANGED <<queue, slot, spilled>>
     ELSE /\ queue' = Tail(queue)
          /\ IF Used = 1 .. Slots THEN spilled' = TRUE /\ UNCHANGED slot
             ELSE StoreSlot(Head(queue)) /\ UNCHANGED spilled
  /\ pc' = IF \E i \in 1 .. Slots : slot'[i] # Free THEN "select" ELSE "accept"
  /\ UNCHANGED <<peer, inbox, ready, data, peerVars, ackVars>>

(* Mutant of Watched: the last slot in use is not looked at.               *)
WatchedButLast == {i \in Used : \E j \in Used : j > i}
Watched == Used

Readable(c) == inbox[c] # <<>> \/ peer[c] \in {"left", "reset", "gone"}

(* select() reports the slots with data, an end or an error, or none after *)
(* 100 ms.                                                                 *)
Select ==
  /\ pc = "select"
  /\ ready' = {i \in Watched : Readable(slot[i])}
  /\ pc' = IF ready' = {} THEN "accept" ELSE "serve"
  /\ UNCHANGED <<peer, queue, inbox, slot, data, spilled, peerVars, ackVars>>

(* write() of an acknowledgement, on a socket that blocks.  One that reads *)
(* no more has room for it in its buffers, or none.  One that closed       *)
(* answers with a reset, a pending error is taken back, and after either   *)
(* the next write raises SIGPIPE, which nothing catches.                   *)
Ack(c, next) ==
  \/ /\ c \in Open
     /\ acks' = [acks EXCEPT ![c] = @ + 1]
     /\ pc' = next /\ UNCHANGED <<peer, late, writes>>
  \/ /\ peer[c] = "deaf"
     /\ pc' = "write" /\ writes' = c /\ UNCHANGED <<peer, acks, late>>
  \/ /\ peer[c] \in {"left", "reset"}
     /\ peer' = [peer EXCEPT ![c] = "gone"]
     /\ acks' = [acks EXCEPT ![c] = @ + 1] /\ late' = late \cup {c}
     /\ pc' = next /\ UNCHANGED writes
  \/ /\ peer[c] = "gone"
     /\ pc' = "killed" /\ UNCHANGED <<peer, ackVars>>

(* Mutant of Parse: the answer goes to the client in the first slot.       *)
ParseFirst(m, c, next) ==
  IF m = "order" THEN Ack(slot[CHOOSE i \in Used : \A j \in Used : i <= j], next)
                 ELSE pc' = next /\ UNCHANGED <<peer, ackVars>>

(* parse_msg.                                                              *)
Parse(m, c, next) ==
  IF m = "order" THEN Ack(c, next) ELSE pc' = next /\ UNCHANGED <<peer, ackVars>>

(* One slot that select() reported, in ascending order: recvfrom() and     *)
(* what follows.  Only a negative result closes the connection.  At the    *)
(* end of the stream it is 0, and parse_msg is given rc_data unwritten:    *)
(* what the message before left there, or something that means nothing.    *)
Serve ==
  /\ pc = "serve"
  /\ \E i \in ready :
       LET c    == slot[i]
           next == IF ready = {i} THEN "accept" ELSE "serve"
       IN  /\ \A j \in ready : i <= j
           /\ ready' = ready \ {i}
           /\ \/ /\ peer[c] = "reset" /\ inbox[c] = <<>>
                 /\ slot' = [slot EXCEPT ![i] = Free]
                 /\ peer' = [peer EXCEPT ![c] = "gone"]
                 /\ pc' = next
                 /\ UNCHANGED <<inbox, data, ackVars>>
              \/ /\ inbox[c] # <<>>
                 /\ data' = Head(inbox[c])
                 /\ inbox' = [inbox EXCEPT ![c] = <<>>]
                 /\ Parse(data', c, next)
                 /\ UNCHANGED slot
              \/ /\ peer[c] \in {"left", "gone"} /\ inbox[c] = <<>>
                 /\ data' \in {data, "none"}
                 /\ Parse(data', c, next)
                 /\ UNCHANGED <<inbox, slot>>
  /\ UNCHANGED <<queue, spilled, peerVars>>

(* The write that found no room: it ends only with the connection.         *)
WriteEnds ==
  /\ pc = "write" /\ peer[writes] = "reset"
  /\ peer' = [peer EXCEPT ![writes] = "gone"]
  /\ writes' = Free /\ late' = late \cup {writes}
  /\ pc' = IF ready = {} THEN "accept" ELSE "serve"
  /\ UNCHANGED <<queue, inbox, slot, ready, data, spilled, peerVars, acks>>

Service == Accept \/ Select \/ Serve \/ WriteEnds

(* The connections end with the process.                                   *)
Peer(c) == pc # "killed" /\ (Connect(c) \/ Send(c) \/ Deafen(c) \/ Leave(c) \/ Reset(c))

Next == Service \/ \E c \in Conns : Peer(c)

Spec == Init /\ [][Next]_vars

(* The loop goes on for as long as the process lives.                      *)
FairSpec == Spec /\ WF_vars(Service)

-----------------------------------------------------------------------------
TypeOK ==
  /\ peer \in [Conns -> {"away", "up", "deaf", "left", "reset", "gone"}]
  /\ \A i \in 1 .. Slots : slot[i] \in Conns \cup {Free}
  /\ ready \subseteq Used /\ writes \in Conns \cup {Free} /\ late \subseteq Conns
  /\ pc \in {"accept", "select", "serve", "write", "killed"} /\ data \in {"order", "other", "none"}

(* Slots are freed in the middle and taken again, but until a connection   *)
(* too many is made a peer that is there waits for accept() or has a slot, *)
(* and never two.                                                          *)
OneSlotEach ==
  ~spilled => \A c \in Conns :
    /\ c \in Open => (\E i \in 1 .. Slots : slot[i] = c) \/ (\E k \in 1 .. Len(queue) : queue[k] = c)
    /\ \A i, j \in 1 .. Slots : slot[i] = c /\ slot[j] = c => i = j

(* Nobody is acknowledged what another ordered, or twice what it ordered   *)
(* itself; but one that closed may be, once, when the end of its stream    *)
(* has the message before parsed again, whoever that came from.  And one   *)
(* that has nothing else waiting when it orders is acknowledged, if it has *)
(* not closed: the order waits, or its answer is being written.            *)
AnsweredOnce ==
  \A c \in Conns :
    /\ acks[c] <= orders[c] + (IF c \in late THEN 1 ELSE 0)
    /\ c \in Open =>
         alone[c] <= acks[c] + (IF inbox[c] # <<>> /\ Head(inbox[c]) = "order" THEN 1 ELSE 0)
                             + (IF writes = c THEN 1 ELSE 0)

(* Silent peers, and peers that close or are reset, do not keep the others *)
(* from being read: again and again nothing waits that was sent.  That     *)
(* ends with a connection too many; while an acknowledgement waits for     *)
(* room in the socket of a peer that reads no more; and when a peer was to *)
(* get an acknowledgement after it closed, of its own order or of one      *)
(* parsed again, and the next one to it kills the service.                 *)
Heard ==
  []<>(\/ \A c \in Conns : inbox[c] = <<>>
       \/ spilled
       \/ pc = "write" /\ peer[writes] = "deaf"
       \/ pc = "killed" /\ late # {})
=============================================================================
