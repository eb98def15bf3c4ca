----------------------------- MODULE VideoLink ------------------------------
(***************************************************************************)
(* The video link from camera to player: StreamTx broadcasts, the radio    *)
(* loses packets for each ground adapter separately, and StreamRx reads    *)
(* whichever adapter select() reports.  Adapters keep the order of the air *)
(* but not each other's pace, so the receiver sees duplicates, losses and  *)
(* packets out of order.                                                   *)
(***************************************************************************)
EXTENDS Integers, Sequences, FiniteSets

CONSTANTS
  DataPkts, FecPkts, Capacity, MinBytes, SkipReload, SeqMod, Calls,
  Injections, SlowAfter, Cards, MaxRefused, MaxBytes, RestartGap, None, Junk,
  Adapters,     (* the receiving wifi cards                                *)
  Lossy,        (* TRUE: packets may be lost                               *)
  MaxRestarts   (* bound on restarts of the air side                       *)

ASSUME LinkAssumption == Lossy \in BOOLEAN /\ MaxRestarts \in Nat /\ RestartGap \in Nat
ASSUME SenderAssumption ==
  /\ DataPkts \in Nat \ {0} /\ FecPkts \in Nat
  /\ Capacity \in Nat /\ MinBytes \in 1 .. Capacity /\ Calls \subseteq Nat \ {0}
  /\ SkipReload \in Nat /\ Injections \subseteq Nat /\ SlowAfter \in Nat
  /\ Cards \in Nat \ {0} /\ MaxRefused \in Nat
  /\ SeqMod \in Nat /\ SeqMod > DataPkts + FecPkts /\ MaxBytes \in Nat
ASSUME MarkAssumption == None \notin Nat \X Nat /\ Junk # None

VARIABLES
  seqNr, full, open, rest, skipfec, air, fed,         (* StreamTx          *)
  blockNum, maxBlock, slots, status, out,             (* StreamRx          *)
  heard,     (* heard[a]: how much of air adapter a is past                *)
  restarts,  (* history: restarts of the air side                          *)
  lost,      (* history: an adapter has missed a packet                    *)
  wrapped    (* history: sequence_number has wrapped                       *)

Tx == INSTANCE StreamTx
Rx == INSTANCE StreamRx

txVars == <<seqNr, full, open, rest, skipfec, air, fed>>
rxVars == <<blockNum, maxBlock, slots, status, out>>
vars   == <<txVars, rxVars, heard, restarts, lost, wrapped>>

(* Adapter a has not come to these packets yet, which at least one card of *)
(* the sender has sent.                                                    *)
Ahead(a) == {n \in heard[a] + 1 .. Len(air) : air[n].cards > 0}
First(S) == CHOOSE n \in S : \A m \in S : n <= m

Init ==
  /\ Tx!Init /\ Rx!Init
  /\ heard = [a \in Adapters |-> 0]
  /\ restarts = 0 /\ lost = FALSE /\ wrapped = FALSE

Send ==
  /\ Tx!Next
  /\ wrapped' = (wrapped \/ seqNr' < seqNr)
  /\ UNCHANGED <<rxVars, heard, restarts, lost>>

(* wfb_rx_stream: select() reports adapter a and one packet is read.  It   *)
(* reads from one adapter only: a busy one can keep it from another for as *)
(* long as it likes, and what waits there grows old.                       *)
Hear(a) ==
  /\ Ahead(a) # {}
  /\ heard' = [heard EXCEPT ![a] = First(Ahead(a))]
  /\ Rx!Process(air[First(Ahead(a))])
  /\ UNCHANGED <<txVars, restarts, lost, wrapped>>

(* Adapter a does not hear the packet, or has no room left for it.         *)
Miss(a) ==
  /\ Lossy
  /\ Ahead(a) # {}
  /\ heard' = [heard EXCEPT ![a] = First(Ahead(a))]
  /\ lost' = TRUE
  /\ UNCHANGED <<txVars, rxVars, restarts, wrapped>>

(* The air side reboots; by the time it sends again the air is empty.      *)
TxReboot ==
  /\ restarts < MaxRestarts
  /\ \A a \in Adapters : Ahead(a) = {}
  /\ restarts' = restarts + 1
  /\ Tx!Restart
  /\ UNCHANGED <<rxVars, heard, lost, wrapped>>

Next == \/ Send \/ TxReboot
        \/ \E a \in Adapters : Hear(a) \/ Miss(a)

Spec == Init /\ [][Next]_vars

(* The receiver reads from some adapter while there is something to read   *)
(* (wfb_rx_stream takes the first that select() reports, so no fairness    *)
(* between adapters), and a byte given to wfb_tx_stream is packed.         *)
Fairness == /\ WF_vars(\E a \in Adapters : Hear(a))
            /\ WF_vars(Tx!Pack /\ Send)
FairSpec == Spec /\ Fairness

-----------------------------------------------------------------------------
TypeOK ==
  /\ Tx!TypeOK
  /\ blockNum \in Int /\ maxBlock \in Int /\ blockNum = maxBlock
  /\ heard \in [Adapters -> 0 .. Len(air)]
  /\ restarts \in 0 .. MaxRestarts

(* From one run of the sender, until its numbers wrap, the player gets the *)
(* blocks in order, each once, with nothing in them that was not sent: see *)
(* LossyFifo.  That holds however packets are lost, repeated or swapped    *)
(* between the adapters, and however old those are that a neglected        *)
(* adapter has kept.                                                       *)
Fifo == INSTANCE LossyFifo WITH
          Pieces  <- DataPkts,
          Gap     <- RestartGap,
          blocks  <- [k \in 1 .. Tx!Blocks |-> Tx!Block(k - 1)],
          hand    <- blockNum,
          passed  <- out,
          numbers <- restarts = 0 /\ ~wrapped
Implements == Fifo!Spec

(* A restart of the sender can spoil only the one block the receiver was   *)
(* holding, where packets of the old and the new block of the same number  *)
(* mix: all other blocks are as sent, whether or not the receiver notices  *)
(* the restart.  From one adapter they also come in order; a second, when  *)
(* it is neglected for RestartGap blocks, is taken for a restart.          *)
RestartSpoilsOneBlock ==
  ~wrapped =>
    \E spoilt \in SUBSET (1 .. Len(out)) :
      /\ Cardinality(spoilt) <= restarts
      /\ \E from \in [(1 .. Len(out)) \ spoilt -> 0 .. Tx!Blocks - 1] :
           \A n \in DOMAIN from :
             /\ \A i \in 1 .. DataPkts : out[n][i] \in {None, Tx!Block(from[n])[i]}
             /\ (\A a, b \in Adapters : a = b) =>
                  \A m \in DOMAIN from : m < n => from[m] < from[n]

(* Any DataPkts packets of a block are enough: a block closed with so many *)
(* is passed on whole, and a poorer one gives up only the data packets     *)
(* that did not come.                                                      *)
AnyEnoughPacketsDo ==
  [][out' # out =>
       LET came  == Cardinality({n \in Rx!Places : slots[n] # None})
           holes == {i \in 1 .. DataPkts : out'[Len(out')][i] = None}
       IN  holes = IF came >= DataPkts THEN {} ELSE {i + 1 : i \in Rx!MissingData}]_vars

(* The operator's counters agree: every packet of every closed block is    *)
(* either received or lost, and no more blocks are damaged than closed.    *)
CountersAgree ==
  /\ status.received + status.lost = Rx!Packets * status.blocks
  /\ status.damaged <= status.blocks
  /\ status.damaged = 0 => status.lost <= FecPkts * status.blocks

(* With no loss the player catches up with the sender again and again: all *)
(* but the block in the buffer has reached it.                             *)
FollowsSender ==
  []<>(lost \/ restarts > 0 \/ wrapped \/ Len(out) + 1 >= Tx!Blocks)
=============================================================================
