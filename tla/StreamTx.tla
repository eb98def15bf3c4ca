------------------------------ MODULE StreamTx ------------------------------
(***************************************************************************)
(* libwfb/wfb_tx_rawsock.c: the air side of the video link.  wfb_tx_stream *)
(* packs the bytes of its calls into data packets; when DataPkts of them   *)
(* are full the block is protected with FecPkts parity packets and all are *)
(* broadcast, data and parity interleaved and numbered consecutively.      *)
(*                                                                         *)
(* A byte is abstracted to its ordinal in the stream and the payload of a  *)
(* packet to the span <<first, last>> of the bytes it carries.  A packet   *)
(* shows its number; "block" is what its block encodes, which is what a    *)
(* data or parity packet contributes to; "cards" is how many of the cards, *)
(* which are written to in turn, have sent it, "failed" that one refused.  *)
(***************************************************************************)
EXTENDS Integers, Sequences, FiniteSets, StreamFormat

CONSTANTS
  Capacity,     (* param_packet_length less the payload header             *)
  MinBytes,     (* param_min_packet_length less the payload header         *)
  SkipReload,   (* the value skipfec is set to after a slow block: 4       *)
  SeqMod,       (* 2^32: sequence_number is a uint32                       *)
  Calls,        (* lengths a caller of wfb_tx_stream may pass              *)
  Injections,   (* durations, in ns, that sending a block may take         *)
  SlowAfter,    (* packet_length * packets per block / 1.5, as a number    *)
  Cards,        (* wfb_tx.count: the sender's wifi cards                   *)
  MaxRefused,   (* bound on the packets of a block that a card refuses     *)
  MaxBytes      (* bound on the bytes passed in a behaviour                *)

ASSUME PackAssumption == /\ Capacity \in Nat /\ MinBytes \in 1 .. Capacity
                         /\ Calls \subseteq Nat \ {0}
ASSUME SkipAssumption == /\ SkipReload \in Nat /\ Injections \subseteq Nat
                         /\ SlowAfter \in Nat
ASSUME CardAssumption == Cards \in Nat \ {0} /\ MaxRefused \in Nat
ASSUME SeqAssumption  == SeqMod \in Nat /\ SeqMod > Packets /\ MaxBytes \in Nat

VARIABLES
  seqNr,    (* input_buffer.seq_nr: number of the block's first packet     *)
  full,     (* payloads of the finished packets of the block (curr_pb)     *)
  open,     (* bytes in the packet being filled                            *)
  rest,     (* bytes of the current call not yet packed                    *)
  skipfec,  (* skipfec, counted down to 0                                  *)
  air,      (* every packet numbered since the start                       *)
  fed       (* history: bytes passed to wfb_tx_stream, over all starts     *)

vars == <<seqNr, full, open, rest, skipfec, air, fed>>

Init ==
  /\ seqNr = 0 /\ full = <<>> /\ open = 0 /\ rest = 0 /\ skipfec = 0
  /\ air = <<>> /\ fed = 0

(* wfb_tx_stream is called.                                                *)
Call(n) ==
  /\ rest = 0
  /\ fed + n <= MaxBytes
  /\ fed' = fed + n
  /\ rest' = n
  /\ UNCHANGED <<seqNr, full, open, skipfec, air>>

(* Mutant of Skipped: no parity at all after a slow block.                 *)
SkippedAll(k) == k < skipfec

(* Parity packet k goes out unless the last blocks were slow to send: then *)
(* only every second one, while skipfec counts down.                       *)
Skipped(k) == k < skipfec /\ k % 2 = 1

Positions == 0 .. Packets - 1

(* write() may fail on card n + 1 after n cards have sent the packet.      *)
Refusals == UNION {[at -> 0 .. Cards - 1] :
                     at \in {P \in SUBSET Positions : Cardinality(P) <= MaxRefused}}

Withheld(pos) == ~IsData(pos) /\ Skipped(ParityAt(pos))

(* Mutant of Upto: a card that fails ends the block for the cards after.   *)
UptoRest(pos, refused) ==
  LET before == {p \in DOMAIN refused : p <= pos}
  IN  IF Withheld(pos) THEN 0
      ELSE IF before = {} THEN Cards
      ELSE refused[CHOOSE p \in before : \A q \in before : refused[p] <= refused[q]]

(* pb_transmit_packet gives up the packet, and nothing else, at the first  *)
(* card that fails: the cards after it do not get it.                      *)
Upto(pos, refused) ==
  IF Withheld(pos) THEN 0
  ELSE IF pos \in DOMAIN refused THEN refused[pos] ELSE Cards

Numbered(block, refused) ==
  [i \in 1 .. Packets |->
     [seq |-> (seqNr + i - 1) % SeqMod, pos |-> i - 1, block |-> block,
      cards |-> Upto(i - 1, refused),
      failed |-> ~Withheld(i - 1) /\ i - 1 \in DOMAIN refused]]

(* Mutant of TransmitBlock: the first packet of the block is not given up.  *)
TransmitKeepsOne(block) ==
  /\ \E refused \in Refusals : air' = air \o Numbered(block, refused)
  /\ seqNr' = (seqNr + Packets) % SeqMod
  /\ full' = <<block[1]>>
  /\ UNCHANGED skipfec

(* pb_transmit_block.                                                      *)
TransmitBlock(block) ==
  /\ \E refused \in Refusals : air' = air \o Numbered(block, refused)
  /\ seqNr' = (seqNr + Packets) % SeqMod
  /\ full' = <<>>
  /\ \E ns \in Injections :
       skipfec' = IF ns > SlowAfter THEN SkipReload
                  ELSE IF skipfec > Rounds THEN skipfec - Rounds ELSE 0

(* One turn of wfb_tx_stream's loop: copy what fits; a packet of at least  *)
(* MinBytes is finished, whether or not it is full.                        *)
Pack ==
  /\ rest > 0
  /\ LET copied == IF rest < Capacity - open THEN rest ELSE Capacity - open
         len    == open + copied
         done   == (fed - rest) + copied
         block  == Append(full, <<(done - len) + 1, done>>)
     IN  /\ rest' = rest - copied
         /\ IF len < MinBytes
            THEN open' = len /\ UNCHANGED <<seqNr, full, skipfec, air>>
            ELSE /\ open' = 0
                 /\ IF Len(block) = DataPkts
                    THEN TransmitBlock(block)
                    ELSE full' = block /\ UNCHANGED <<seqNr, skipfec, air>>
  /\ UNCHANGED fed

(* The air side is switched off and on again: numbers start from 0.        *)
Restart ==
  /\ seqNr' = 0 /\ full' = <<>> /\ open' = 0 /\ rest' = 0 /\ skipfec' = 0
  /\ UNCHANGED <<air, fed>>

Next == (\E n \in Calls : Call(n)) \/ Pack

Spec == Init /\ [][Next]_vars

-----------------------------------------------------------------------------
TypeOK ==
  /\ seqNr \in 0 .. SeqMod - 1
  /\ full \in Seq(Nat \X Nat) /\ Len(full) < DataPkts
  /\ open \in 0 .. MinBytes - 1
  /\ rest \in Nat /\ skipfec \in Nat /\ fed \in Nat

(* The blocks numbered since the start, from 0.                            *)
Blocks   == Len(air) \div Packets
Block(k) == air[k * Packets + 1].block

(* The bytes of spans follow each other, the first one after "before".     *)
Follow(spans, before) ==
  \A i \in 1 .. Len(spans) :
    spans[i][1] = (IF i = 1 THEN before ELSE spans[i - 1][2]) + 1

LastOf(k)    == IF k = -1 THEN 0 ELSE Block(k)[DataPkts][2]
LastPacked   == IF full = <<>> THEN LastOf(Blocks - 1) ELSE full[Len(full)][2]

(* However the callers cut the stream, the blocks carry it without a gap   *)
(* or an overlap, and what is not in a packet is in the open one or still  *)
(* to be packed.                                                           *)
NoByteLost ==
  /\ \A k \in 0 .. Blocks - 1 : Follow(Block(k), LastOf(k - 1))
  /\ Follow(full, LastOf(Blocks - 1))
  /\ fed = LastPacked + open + rest

(* Each card sends enough of every block to rebuild it from that card      *)
(* alone, though the link is slow and parity withheld, as long as no more  *)
(* packets than half the parity were refused by it or by a card before it. *)
DecodableFromEachCard ==
  \A k \in 0 .. Blocks - 1, c \in 1 .. Cards :
    LET pkts == {air[k * Packets + i] : i \in 1 .. Packets}
    IN  Cardinality({p \in pkts : p.failed /\ p.cards < c}) <= FecPkts \div 2 =>
          Cardinality({p \in pkts : p.cards >= c}) >= DataPkts
=============================================================================
