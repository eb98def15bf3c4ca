------------------------------ MODULE StreamRx ------------------------------
(***************************************************************************)
(* libwfb/wfb_rx_rawsock.c: the ground side of the video link.  Every      *)
(* packet heard by any adapter goes through process_payload, which keeps   *)
(* the packets of ONE block (param_block_buffers is 1).  The block is      *)
(* closed -- missing data rebuilt from parity if there is enough of it,    *)
(* and the data passed on -- when a packet of a later block arrives.       *)
(*                                                                         *)
(* The erasure code is what libwfb/fec.c computes: a missing data packet   *)
(* is rebuilt from all the data packets present and as many parity packets *)
(* as data is missing; if these are not packets of one block standing in   *)
(* their own places the result is Junk.  The driver hands over no frames   *)
(* with a bad checksum (pd.crc_ok is always true).                         *)
(***************************************************************************)
EXTENDS Integers, Sequences, FiniteSets, StreamFormat

CONSTANTS
  RestartGap,  (* 128 * param_block_buffers                                *)
  None,        (* an empty place of the block, a piece not passed on       *)
  Junk         (* bytes that nobody sent                                   *)

VARIABLES
  blockNum,  (* block_num of the buffer, -1 if there is none               *)
  maxBlock,  (* max_block_num                                              *)
  slots,     (* the packets of the block, by place                         *)
  status,    (* the counters of rx_status                                  *)
  out        (* history: everything passed on to the player, by block      *)

vars == <<blockNum, maxBlock, slots, status, out>>

Places == 0 .. Packets - 1
Empty  == [n \in Places |-> None]

BlockOf(p) == p.seq \div Packets
PlaceOf(p) == p.seq % Packets

NoStatus == [blocks |-> 0, damaged |-> 0, received |-> 0, lost |-> 0]

Init ==
  /\ blockNum = -1 /\ maxBlock = -1
  /\ slots = Empty
  /\ status = NoStatus
  /\ out = <<>>

-----------------------------------------------------------------------------
DataAt(i)   == slots[DataPos(i)]
MissingData == {i \in 0 .. DataPkts - 1 : DataAt(i) = None}
GoodParity  == {k \in 0 .. FecPkts - 1 : slots[ParityPos(k)] # None}

(* Mutant of Failed: as much parity as missing data is not enough.         *)
FailedEarly == Cardinality(MissingData) >= Cardinality(GoodParity)

Failed      == Cardinality(MissingData) > Cardinality(GoodParity)

(* The parity packets put in for missing data: the first ones that came.   *)
UsedParity  == {k \in GoodParity :
                  Cardinality({j \in GoodParity : j < k}) < Cardinality(MissingData)}
UsedPlaces  == {DataPos(i) : i \in (0 .. DataPkts - 1) \ MissingData}
                 \cup {ParityPos(k) : k \in UsedParity}

DataIndex(pos) == CHOOSE i \in 0 .. DataPkts - 1 : DataPos(i) = pos

Content(n) == IF IsData(slots[n].pos) THEN slots[n].block[DataIndex(slots[n].pos) + 1]
                                      ELSE Junk

Rebuilt(i) == IF /\ Cardinality(GoodParity) >= Cardinality(MissingData)
                 /\ \E n \in UsedPlaces : \A m \in UsedPlaces :
                      slots[m].pos = m /\ slots[m].block = slots[n].block
              THEN slots[CHOOSE n \in UsedPlaces : TRUE].block[i + 1]
              ELSE Junk

(* What closing the block passes on: a piece for each data packet.         *)
Decoded ==
  [i \in 1 .. DataPkts |->
     IF i - 1 \notin MissingData THEN Content(DataPos(i - 1))
     ELSE IF Failed THEN None ELSE Rebuilt(i - 1)]

(* Mutant of Closed: only data counts as lost.                             *)
ClosedDataOnly ==
  LET missing == Cardinality(MissingData)
  IN  [blocks   |-> status.blocks + 1,
       damaged  |-> status.damaged + (IF Failed THEN 1 ELSE 0),
       received |-> status.received + (Packets - Cardinality({n \in Places : slots[n] = None})),
       lost     |-> status.lost + missing]

Closed ==
  LET missing == Cardinality({n \in Places : slots[n] = None})
  IN  [blocks   |-> status.blocks + 1,
       damaged  |-> status.damaged + (IF Failed THEN 1 ELSE 0),
       received |-> status.received + (Packets - missing),
       lost     |-> status.lost + missing]

(* A block number far below the highest seen: the sender was restarted.    *)
TxRestart(p) == BlockOf(p) + RestartGap < maxBlock

(* Mutants of Opens: any other block opens; a gap of one is waited for.    *)
OpensAnyOther(p) == BlockOf(p) # maxBlock
OpensLate(p)     == BlockOf(p) > maxBlock + 1 \/ TxRestart(p)

Opens(p)     == BlockOf(p) > maxBlock \/ TxRestart(p)

(* Mutant of Open: the packets of the old block stay in the buffer.        *)
OpenUncleared(p) ==
  /\ blockNum' = BlockOf(p)
  /\ maxBlock' = BlockOf(p)
  /\ slots' = [slots EXCEPT ![PlaceOf(p)] = p]
  /\ IF TxRestart(p) THEN status' = NoStatus /\ out' = out
     ELSE IF blockNum = -1 THEN UNCHANGED <<status, out>>
     ELSE status' = Closed /\ out' = Append(out, Decoded)

(* The block in the buffer makes room; after a sender restart it is thrown *)
(* away and the counters begin again.                                      *)
Open(p) ==
  /\ blockNum' = BlockOf(p)
  /\ maxBlock' = BlockOf(p)
  /\ slots' = [Empty EXCEPT ![PlaceOf(p)] = p]
  /\ IF TxRestart(p) THEN status' = NoStatus /\ out' = out
     ELSE IF blockNum = -1 THEN UNCHANGED <<status, out>>
     ELSE status' = Closed /\ out' = Append(out, Decoded)

(* Mutant of Keep: a late packet of another block is taken in.             *)
KeepAny(p) ==
  /\ slots' = IF slots[PlaceOf(p)] = None
              THEN [slots EXCEPT ![PlaceOf(p)] = p] ELSE slots
  /\ UNCHANGED <<blockNum, maxBlock, status, out>>

(* A packet of the block in the buffer takes its place if that is free;    *)
(* all other packets are ignored.                                          *)
Keep(p) ==
  /\ slots' = IF BlockOf(p) = blockNum /\ slots[PlaceOf(p)] = None
              THEN [slots EXCEPT ![PlaceOf(p)] = p] ELSE slots
  /\ UNCHANGED <<blockNum, maxBlock, status, out>>

(* process_payload.                                                        *)
Process(p) == IF Opens(p) THEN Open(p) ELSE Keep(p)
=============================================================================
