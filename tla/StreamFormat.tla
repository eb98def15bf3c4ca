---------------------------- MODULE StreamFormat ----------------------------
(***************************************************************************)
(* The layout of a block of the video stream, common to the sender         *)
(* (pb_transmit_block) and the receiver (process_payload): data and parity *)
(* packets alternate until one kind is used up, then the rest follow.      *)
(***************************************************************************)
EXTENDS Integers

CONSTANTS
  DataPkts,   (* param_data_packets_per_block: 8                           *)
  FecPkts     (* param_fec_packets_per_block: 4                            *)

ASSUME FormatAssumption == DataPkts \in Nat \ {0} /\ FecPkts \in Nat

Packets == DataPkts + FecPkts
Pairs   == IF DataPkts < FecPkts THEN DataPkts ELSE FecPkts
Rounds  == IF DataPkts < FecPkts THEN FecPkts ELSE DataPkts

(* Where data packet i and parity packet k stand in the block.             *)
DataPos(i)   == IF i < Pairs THEN 2 * i ELSE Pairs + i
ParityPos(k) == IF k < Pairs THEN 2 * k + 1 ELSE Pairs + k

IsData(pos)   == \E i \in 0 .. DataPkts - 1 : DataPos(i) = pos
ParityAt(pos) == CHOOSE k \in 0 .. FecPkts - 1 : ParityPos(k) = pos
=============================================================================
