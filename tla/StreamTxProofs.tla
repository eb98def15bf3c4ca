--------------------------- MODULE StreamTxProofs ---------------------------
(***************************************************************************)
(* Theorems about the air side of the video link (libwfb/wfb_tx_rawsock.c) *)
(* for every block layout, packet size, division of the stream into calls, *)
(* number of cards and pattern of packets that a card refuses.             *)
(***************************************************************************)
EXTENDS StreamTx, NatLemmas, FiniteSetTheorems, FunctionTheorems, SequenceTheorems

Span   == Nat \X Nat
Packet == [seq : 0 .. SeqMod - 1, pos : Positions, block : [1 .. DataPkts -> Span],
           cards : 0 .. Cards, failed : BOOLEAN]

(* What is on the air are whole blocks, each packet in its place and known *)
(* by the block it belongs to.                                             *)
AirInv ==
  /\ air \in Seq(Packet)
  /\ Len(air) = Packets * Blocks
  /\ \A k \in 0 .. Blocks - 1, i \in 1 .. Packets :
       air[k * Packets + i].pos = i - 1 /\ air[k * Packets + i].block = Block(k)

(* A packet that a card did not send was refused or is a parity packet     *)
(* with an odd number.                                                     *)
OddParity(pos) == ~IsData(pos) /\ ParityAt(pos) % 2 = 1
SentInv == \A n \in 1 .. Len(air) :
             air[n].cards < Cards => air[n].failed \/ OddParity(air[n].pos)

(* There are no more bytes under way than were passed.                     *)
CountInv == open + rest <= fed

BaseInv == TypeOK /\ AirInv /\ SentInv /\ CountInv

-----------------------------------------------------------------------------
LEMMA BlockSize == /\ Packets \in Nat \ {0} /\ DataPkts \in Nat \ {0} /\ FecPkts \in Nat
                   /\ Packets = DataPkts + FecPkts /\ Pairs \in Nat
  BY FormatAssumption DEF Packets, Pairs

(* The layout of a block: data and parity packets have places of their     *)
(* own, and there is no other.                                             *)
LEMMA Layout ==
  /\ \A i \in 0 .. DataPkts - 1 : DataPos(i) \in Positions
  /\ \A k \in 0 .. FecPkts - 1 : ParityPos(k) \in Positions
  /\ \A i, j \in 0 .. DataPkts - 1 : DataPos(i) = DataPos(j) => i = j
  /\ \A k, l \in 0 .. FecPkts - 1 : ParityPos(k) = ParityPos(l) => k = l
  /\ \A i \in 0 .. DataPkts - 1, k \in 0 .. FecPkts - 1 : DataPos(i) # ParityPos(k)
  /\ \A pos \in Positions : IsData(pos) \/ \E k \in 0 .. FecPkts - 1 : ParityPos(k) = pos
<1> USE FormatAssumption DEF Packets, Positions, Pairs, DataPos, ParityPos
<1>1. ASSUME NEW pos \in Positions
      PROVE  IsData(pos) \/ \E k \in 0 .. FecPkts - 1 : ParityPos(k) = pos
  <2>0. pos \in Nat /\ pos < DataPkts + FecPkts
    OBVIOUS
  <2>1. PICK h \in Nat, b \in {0, 1} : pos = 2 * h + b
    <3>1. pos \div 2 \in Nat /\ pos % 2 \in {0, 1} /\ pos = 2 * (pos \div 2) + (pos % 2)
      BY <2>0
    <3> QED
      BY <3>1
  <2>2. CASE h < Pairs /\ b = 0
    BY <2>1, <2>2 DEF IsData
  <2>3. CASE h < Pairs /\ b = 1
    BY <2>1, <2>3
  <2>4. CASE h >= Pairs /\ DataPkts < FecPkts
    <3>1. pos - Pairs \in 0 .. FecPkts - 1 /\ ParityPos(pos - Pairs) = pos
      BY <2>0, <2>1, <2>4
    <3> QED
      BY <3>1
  <2>5. CASE h >= Pairs /\ ~(DataPkts < FecPkts)
    <3>1. pos - Pairs \in 0 .. DataPkts - 1 /\ DataPos(pos - Pairs) = pos
      BY <2>0, <2>1, <2>5
    <3> QED
      BY <3>1 DEF IsData
  <2> QED
    BY <2>1, <2>2, <2>3, <2>4, <2>5, BlockSize
<1> QED
  BY <1>1

(* The number of the block and the place of the n-th packet on the air.    *)
LEMMA PlaceOnAir ==
  ASSUME AirInv, NEW n \in 1 .. Len(air)
  PROVE  /\ Blocks \in Nat
         /\ (n - 1) \div Packets \in 0 .. Blocks - 1 /\ (n - 1) % Packets \in Positions
         /\ n = ((n - 1) \div Packets) * Packets + (((n - 1) % Packets) + 1)
<1> USE BlockSize
<1>1. Len(air) \in Nat
  BY DEF AirInv
<1>2. Blocks \in Nat
  BY <1>1, DivMod DEF Blocks
<1> DEFINE b == Blocks
<1>3. Len(air) = Packets * b /\ b \in Nat
  BY <1>2 DEF AirInv
<1>4. n - 1 \in 0 .. Packets * b - 1
  BY <1>3
<1> HIDE DEF b
<1>5. /\ (n - 1) \div Packets \in 0 .. b - 1 /\ (n - 1) % Packets \in 0 .. Packets - 1
      /\ n - 1 = Packets * ((n - 1) \div Packets) + ((n - 1) % Packets)
  BY <1>3, <1>4, BlockAndPlace
<1> DEFINE q == (n - 1) \div Packets
           r == (n - 1) % Packets
<1>6. q \in 0 .. b - 1 /\ r \in 0 .. Packets - 1 /\ n - 1 = Packets * q + r
  BY <1>5
<1> HIDE DEF q, r
<1>7. n = q * Packets + (r + 1)
  BY <1>3, <1>6
<1> QED
  BY <1>2, <1>6, <1>7 DEF b, q, r, Positions

LEMMA OnAir ==
  ASSUME AirInv, NEW k \in 0 .. Blocks - 1, NEW i \in 1 .. Packets
  PROVE  k * Packets + i \in 1 .. Len(air)
<1> DEFINE b == Blocks
<1>0. Len(air) \in Nat
  BY DEF AirInv
<1>1. b \in Nat /\ Len(air) = Packets * b
  BY <1>0, BlockSize, DivMod DEF AirInv, Blocks
<1> HIDE DEF b
<1>2. k \in 0 .. b - 1 /\ i - 1 \in 0 .. Packets - 1
  BY BlockSize DEF b
<1>3. Packets * k + (i - 1) \in 0 .. Packets * b - 1
  BY <1>1, <1>2, BlockSize, PlaceInBlocks
<1> QED
  BY <1>1, <1>2, <1>3, BlockSize

(* A block is sent: what was on the air stays as it is, and the packets of *)
(* the block follow.                                                       *)
LEMMA Transmitted ==
  ASSUME BaseInv, NEW block \in [1 .. DataPkts -> Span], NEW refused \in Refusals,
         air' = air \o Numbered(block, refused)
  PROVE  /\ Blocks' = Blocks + 1 /\ Len(air') = Len(air) + Packets
         /\ Numbered(block, refused) \in [1 .. Packets -> Packet]
         /\ \A n \in 1 .. Len(air) : air'[n] = air[n]
         /\ \A k \in 0 .. Blocks - 1, i \in 1 .. Packets :
              air'[k * Packets + i] = air[k * Packets + i]
         /\ \A i \in 1 .. Packets :
              air'[Blocks * Packets + i] = Numbered(block, refused)[i]
         /\ AirInv' /\ SentInv'
<1> DEFINE new == Numbered(block, refused)
<1>0. Len(air) = Packets * Blocks /\ air \in Seq(Packet) /\ Len(air) \in Nat /\ Blocks \in Nat
      /\ Packets * Blocks = Blocks * Packets
  <2>1. air \in Seq(Packet) /\ Len(air) \in Nat /\ Len(air) = Packets * Blocks
    BY DEF BaseInv, AirInv
  <2>2. Blocks \in Nat
    BY <2>1, BlockSize, DivMod DEF Blocks
  <2> QED
    BY <2>1, <2>2, BlockSize
<1>1. new \in [1 .. Packets -> Packet]
  <2> SUFFICES ASSUME NEW i \in 1 .. Packets  PROVE new[i] \in Packet
    BY Zenon DEF Numbered
  <2>1. (seqNr + i - 1) % SeqMod \in 0 .. SeqMod - 1
    <3>1. seqNr + i - 1 \in Nat /\ SeqMod \in Nat \ {0}
      BY SeqAssumption, BlockSize DEF BaseInv, TypeOK
    <3> QED
      BY <3>1, DivMod
  <2>2. i - 1 \in Positions
    BY BlockSize DEF Positions
  <2>3. Upto(i - 1, refused) \in 0 .. Cards
    <3>1. PICK at \in SUBSET Positions : refused \in [at -> 0 .. Cards - 1]
      BY DEF Refusals
    <3> QED
      BY <3>1, CardAssumption DEF Upto
  <2>4. (~Withheld(i - 1) /\ i - 1 \in DOMAIN refused) \in BOOLEAN
    OBVIOUS
  <2>5. new[i] = [seq |-> (seqNr + i - 1) % SeqMod, pos |-> i - 1, block |-> block,
                  cards |-> Upto(i - 1, refused),
                  failed |-> ~Withheld(i - 1) /\ i - 1 \in DOMAIN refused]
    BY DEF Numbered
  <2> HIDE DEF new
  <2> QED
    BY <2>1, <2>2, <2>3, <2>4, <2>5 DEF Packet
<1>2. new \in Seq(Packet) /\ Len(new) = Packets
  <2> HIDE DEF new
  <2> QED
    BY <1>1, BlockSize, LenProperties
<1>3. /\ air' \in Seq(Packet) /\ Len(air') = Len(air) + Packets
      /\ \A n \in 1 .. Len(air) + Packets :
           air'[n] = IF n <= Len(air) THEN air[n] ELSE new[n - Len(air)]
  <2> HIDE DEF new
  <2>1. air' = air \o new
    BY DEF new
  <2>2. /\ air \o new \in Seq(Packet) /\ Len(air \o new) = Len(air) + Len(new)
        /\ \A n \in 1 .. Len(air) + Len(new) :
             (air \o new)[n] = IF n <= Len(air) THEN air[n] ELSE new[n - Len(air)]
    BY <1>0, <1>2, ConcatProperties, Zenon
  <2> QED
    BY <2>1, <2>2, <1>2, Zenon
<1>4. Blocks' = Blocks + 1
  <2> DEFINE b == Blocks
  <2>1. Len(air') = Packets * b + Packets /\ b \in Nat
    BY <1>0, <1>3
  <2> HIDE DEF b
  <2>2. Len(air') = Packets * (b + 1) + 0
    BY <2>1, BlockSize
  <2>3. 0 \in 0 .. Packets - 1 /\ b + 1 \in Nat
    BY <2>1, BlockSize
  <2>4. (Packets * (b + 1) + 0) \div Packets = b + 1
    BY <2>3, BlockSize, QuotientUnique
  <2>5. Len(air') \div Packets = b + 1
    BY <2>2, <2>4
  <2> QED
    BY <2>5 DEF b, Blocks
<1>5. \A n \in 1 .. Len(air) : air'[n] = air[n]
  BY <1>0, <1>3, BlockSize
<1>6. \A k \in 0 .. Blocks - 1, i \in 1 .. Packets :
        air'[k * Packets + i] = air[k * Packets + i]
  BY <1>5, OnAir DEF BaseInv
<1>7. \A i \in 1 .. Packets : air'[Blocks * Packets + i] = new[i]
  <2> HIDE DEF new
  <2> TAKE i \in 1 .. Packets
  <2> DEFINE m == Blocks * Packets
  <2>1. m = Len(air) /\ m \in Nat
    BY <1>0
  <2> HIDE DEF m
  <2>2. m + i \in 1 .. Len(air) + Packets /\ ~(m + i <= Len(air)) /\ (m + i) - Len(air) = i
    BY <2>1, BlockSize
  <2>3. air'[m + i] = new[i]
    BY <2>2, <1>3
  <2> QED
    BY <2>3 DEF m
<1>8. \A i \in 1 .. Packets : new[i].pos = i - 1 /\ new[i].block = block
  BY DEF Numbered
<1>9. AirInv'
  <2>1. Len(air') = Packets * Blocks'
    <3> DEFINE b == Blocks
    <3>1. Len(air') = Packets * b + Packets /\ b \in Nat /\ Blocks' = b + 1
      BY <1>0, <1>3, <1>4
    <3> HIDE DEF b
    <3> QED
      BY <3>1, BlockSize
  <2>2. ASSUME NEW k \in 0 .. Blocks' - 1, NEW i \in 1 .. Packets
        PROVE  air'[k * Packets + i].pos = i - 1
               /\ air'[k * Packets + i].block = air'[k * Packets + 1].block
    <3>1. 1 \in 1 .. Packets
      BY BlockSize
    <3>2. CASE k \in 0 .. Blocks - 1
      <4>1. air'[k * Packets + i] = air[k * Packets + i]
            /\ air'[k * Packets + 1] = air[k * Packets + 1]
        BY <3>1, <3>2, <1>6
      <4> QED
        BY <4>1, <3>2 DEF BaseInv, AirInv, Block
    <3>3. CASE k = Blocks
      <4>1. air'[k * Packets + i] = new[i] /\ air'[k * Packets + 1] = new[1]
        BY <3>1, <3>3, <1>7
      <4> QED
        BY <4>1, <3>1, <1>8
    <3>4. k \in 0 .. Blocks - 1 \/ k = Blocks
      <4> DEFINE b == Blocks
      <4>1. b \in Nat /\ k \in 0 .. (b + 1) - 1
        BY <1>0, <1>4
      <4> HIDE DEF b
      <4>2. k \in 0 .. b - 1 \/ k = b
        BY <4>1
      <4> QED
        BY <4>2 DEF b
    <3> QED
      BY <3>2, <3>3, <3>4, Zenon
  <2> QED
    BY <1>3, <2>1, <2>2 DEF AirInv, Block
<1>10. SentInv'
  <2> SUFFICES ASSUME NEW n \in 1 .. Len(air'), air'[n].cards < Cards
               PROVE  air'[n].failed \/ OddParity(air'[n].pos)
    BY DEF SentInv, OddParity
  <2>1. CASE n <= Len(air)
    BY <2>1, <1>0, <1>5 DEF BaseInv, SentInv
  <2>2. CASE n > Len(air)
    <3> DEFINE i == n - Len(air)
    <3>0. n \in 1 .. Len(air) + Packets /\ ~(n <= Len(air)) /\ i \in 1 .. Packets
      BY <2>2, <1>0, <1>3, BlockSize
    <3>1. i \in 1 .. Packets /\ air'[n] = new[i]
      BY <3>0, <1>3, Zenon
    <3> HIDE DEF i
    <3>2. new[i] = [seq |-> (seqNr + i - 1) % SeqMod, pos |-> i - 1, block |-> block,
                    cards |-> Upto(i - 1, refused),
                    failed |-> ~Withheld(i - 1) /\ i - 1 \in DOMAIN refused]
      BY <3>1 DEF Numbered
    <3> HIDE DEF new
    <3>3. Upto(i - 1, refused) < Cards
      BY <3>1, <3>2
    <3>4. Withheld(i - 1) \/ i - 1 \in DOMAIN refused
      BY <3>3, CardAssumption DEF Upto
    <3>5. Withheld(i - 1) => OddParity(i - 1)
      BY DEF Withheld, Skipped, OddParity
    <3>6. CASE Withheld(i - 1)
      BY <3>1, <3>2, <3>5, <3>6
    <3>7. CASE ~Withheld(i - 1)
      <4> DEFINE f == ~Withheld(i - 1) /\ i - 1 \in DOMAIN refused
      <4>1. f = TRUE
        BY <3>4, <3>7, Zenon
      <4>2. new[i] = [seq |-> (seqNr + i - 1) % SeqMod, pos |-> i - 1, block |-> block,
                      cards |-> Upto(i - 1, refused), failed |-> TRUE]
        BY <3>2, <4>1, Zenon
      <4> QED
        BY <4>2, <3>1
    <3> QED
      BY <3>6, <3>7, Zenon
  <2> QED
    BY <2>1, <2>2, <1>0, <1>3
<1> QED
  BY <1>1, <1>3, <1>4, <1>5, <1>6, <1>7, <1>9, <1>10

-----------------------------------------------------------------------------
(* The three outcomes of a turn of wfb_tx_stream's loop: the packet stays  *)
(* open, it is finished, or it is the last one of its block.               *)
Copied(n) == rest' = rest - n /\ fed' = fed
Piece(n)  == <<(((fed - rest) + n) - (open + n)) + 1, (fed - rest) + n>>

StaysOpen(n) == open' = open + n /\ open + n < MinBytes
                /\ UNCHANGED <<seqNr, full, skipfec, air>>
Finished(n)  == open' = 0 /\ full' = Append(full, Piece(n)) /\ Len(full) + 1 < DataPkts
                /\ UNCHANGED <<seqNr, skipfec, air>>
FillsBlock(n) == open' = 0 /\ Len(full) + 1 = DataPkts
                 /\ Append(full, Piece(n)) \in [1 .. DataPkts -> Span]
                 /\ TransmitBlock(Append(full, Piece(n)))

LEMMA Packed ==
  ASSUME BaseInv, Pack
  PROVE  \E n \in 1 .. rest : /\ Copied(n) /\ Piece(n) \in Span
                              /\ StaysOpen(n) \/ Finished(n) \/ FillsBlock(n)
<1> DEFINE n == IF rest < Capacity - open THEN rest ELSE Capacity - open
<1>1. /\ full \in Seq(Span) /\ Len(full) \in Nat /\ Len(full) < DataPkts
      /\ open \in Nat /\ open < MinBytes /\ rest \in Nat /\ fed \in Nat
      /\ open + rest <= fed /\ rest > 0
  BY PackAssumption DEF BaseInv, TypeOK, CountInv, Pack, Span
<1>2. n \in 1 .. rest
  BY <1>1, PackAssumption
<1>3. Copied(n) /\ IF open + n < MinBytes
                   THEN open' = open + n /\ UNCHANGED <<seqNr, full, skipfec, air>>
                   ELSE /\ open' = 0
                        /\ IF Len(Append(full, Piece(n))) = DataPkts
                           THEN TransmitBlock(Append(full, Piece(n)))
                           ELSE full' = Append(full, Piece(n)) /\ UNCHANGED <<seqNr, skipfec, air>>
  BY DEF Pack, Copied, Piece
<1> HIDE DEF n
<1>4. Piece(n) \in Span
  BY <1>1, <1>2 DEF Piece, Span
<1> DEFINE block == Append(full, Piece(n))
<1>5. block \in Seq(Span) /\ Len(block) = Len(full) + 1
  BY <1>1, <1>4, AppendProperties
<1>6. Len(block) = DataPkts => block \in [1 .. DataPkts -> Span]
  <2> HIDE DEF block
  <2> QED
    BY <1>5, LenProperties
<1>7. StaysOpen(n) \/ Finished(n) \/ FillsBlock(n)
  <2>1. CASE open + n < MinBytes
    BY <2>1, <1>3 DEF StaysOpen
  <2>2. CASE ~(open + n < MinBytes) /\ Len(block) = DataPkts
    BY <2>2, <1>3, <1>5, <1>6 DEF FillsBlock
  <2>3. CASE ~(open + n < MinBytes) /\ Len(block) # DataPkts
    <3>1. Len(full) + 1 < DataPkts
      <4> HIDE DEF block
      <4> QED
        BY <2>3, <1>1, <1>5, BlockSize
    <3> QED
      BY <2>3, <3>1, <1>3 DEF Finished
  <2> QED
    BY <2>1, <2>2, <2>3
<1> QED
  BY <1>2, <1>3, <1>4, <1>7

LEMMA Sent ==
  ASSUME BaseInv, NEW block \in [1 .. DataPkts -> Span], TransmitBlock(block)
  PROVE  /\ AirInv' /\ SentInv' /\ full' = <<>>
         /\ seqNr' \in 0 .. SeqMod - 1 /\ skipfec' \in Nat
<1>1. PICK refused \in Refusals : air' = air \o Numbered(block, refused)
  BY DEF TransmitBlock
<1>2. AirInv' /\ SentInv'
  BY <1>1, Transmitted
<1>3. seqNr' \in 0 .. SeqMod - 1
  <2>1. seqNr + Packets \in Nat /\ SeqMod \in Nat \ {0} /\ seqNr' = (seqNr + Packets) % SeqMod
    BY SeqAssumption, BlockSize DEF BaseInv, TypeOK, TransmitBlock
  <2> QED
    BY <2>1, DivMod
<1>4. skipfec' \in Nat
  BY SkipAssumption, FormatAssumption DEF BaseInv, TypeOK, TransmitBlock, Rounds
<1> QED
  BY <1>2, <1>3, <1>4 DEF TransmitBlock

LEMMA BaseInit == Init => BaseInv
<1> SUFFICES ASSUME Init  PROVE BaseInv
  OBVIOUS
<1>1. air \in Seq(Packet) /\ Len(air) = 0 /\ full \in Seq(Span) /\ Len(full) = 0
  BY EmptySeq DEF Init
<1>2. Blocks = 0
  <2>1. Blocks \in Nat /\ 0 = Packets * Blocks + (Len(air) % Packets) /\ Len(air) % Packets \in Nat
    BY <1>1, BlockSize, DivMod DEF Blocks
  <2> DEFINE b == Blocks
             r == Len(air) % Packets
  <2>2. b \in Nat /\ r \in Nat /\ 0 = Packets * b + r
    BY <2>1
  <2> HIDE DEF b, r
  <2>3. b > 0 => Packets * b >= Packets
    BY <2>2, BlockSize
  <2> QED
    BY <2>2, <2>3, BlockSize DEF b
<1>3. TypeOK
  BY <1>1, BlockSize, PackAssumption, SeqAssumption DEF Init, TypeOK, Span
<1>4. AirInv
  BY <1>1, <1>2, BlockSize DEF AirInv
<1> QED
  BY <1>1, <1>3, <1>4 DEF BaseInv, SentInv, CountInv, Init

LEMMA BaseNext == BaseInv /\ [Next]_vars => BaseInv'
<1> SUFFICES ASSUME BaseInv, [Next]_vars  PROVE BaseInv'
  OBVIOUS
<1>0. TypeOK /\ AirInv /\ SentInv /\ CountInv
  BY DEF BaseInv
<1>1. ASSUME NEW n \in Calls, Call(n)  PROVE BaseInv'
  <2>1. n \in Nat /\ UNCHANGED <<seqNr, full, open, skipfec, air>>
    BY <1>1, PackAssumption DEF Call
  <2>2. AirInv' /\ SentInv'
    BY <1>0, <2>1 DEF AirInv, SentInv, Blocks, Block
  <2>3. TypeOK' /\ CountInv'
    BY <1>0, <1>1, <2>1 DEF TypeOK, CountInv, Call
  <2> QED
    BY <2>2, <2>3 DEF BaseInv
<1>2. CASE Pack
  <2>1. PICK n \in 1 .. rest : /\ Copied(n) /\ Piece(n) \in Span
                               /\ StaysOpen(n) \/ Finished(n) \/ FillsBlock(n)
    BY <1>2, Packed
  <2>2. rest' \in Nat /\ fed' = fed
    BY <1>0, <2>1 DEF Copied, TypeOK
  <2>3. CASE StaysOpen(n)
    <3>1. AirInv' /\ SentInv'
      BY <1>0, <2>3 DEF StaysOpen, AirInv, SentInv, Blocks, Block
    <3>2. TypeOK' /\ CountInv'
      BY <1>0, <2>1, <2>2, <2>3, PackAssumption DEF StaysOpen, TypeOK, CountInv, Copied
    <3> QED
      BY <3>1, <3>2 DEF BaseInv
  <2>4. CASE Finished(n)
    <3>1. AirInv' /\ SentInv'
      BY <1>0, <2>4 DEF Finished, AirInv, SentInv, Blocks, Block
    <3>2. full' \in Seq(Nat \X Nat) /\ Len(full') < DataPkts
      BY <1>0, <2>1, <2>4, AppendProperties DEF Finished, TypeOK, Span
    <3>3. TypeOK' /\ CountInv'
      BY <1>0, <2>1, <2>2, <2>4, <3>2, PackAssumption DEF Finished, TypeOK, CountInv, Copied
    <3> QED
      BY <3>1, <3>3 DEF BaseInv
  <2>5. CASE FillsBlock(n)
    <3>1. /\ AirInv' /\ SentInv' /\ full' = <<>>
          /\ seqNr' \in 0 .. SeqMod - 1 /\ skipfec' \in Nat
      BY <2>5, Sent DEF FillsBlock
    <3>2. full' \in Seq(Nat \X Nat) /\ Len(full') < DataPkts
      BY <3>1, EmptySeq, BlockSize
    <3>3. TypeOK' /\ CountInv'
      BY <1>0, <2>1, <2>2, <2>5, <3>1, <3>2, PackAssumption
      DEF FillsBlock, TypeOK, CountInv, Copied
    <3> QED
      BY <3>1, <3>3 DEF BaseInv
  <2> QED
    BY <2>1, <2>3, <2>4, <2>5
<1>3. CASE UNCHANGED vars
  BY <1>0, <1>3 DEF vars, BaseInv, TypeOK, AirInv, SentInv, CountInv, Blocks, Block
<1> QED
  BY <1>1, <1>2, <1>3 DEF Next

(* The next packet sent after the air side was switched off and on again   *)
(* starts a block.                                                         *)
LEMMA BaseRestart == BaseInv /\ Restart => BaseInv'
<1> SUFFICES ASSUME BaseInv, Restart  PROVE BaseInv'
  OBVIOUS
<1>1. full' \in Seq(Nat \X Nat) /\ Len(full') < DataPkts
  BY EmptySeq, BlockSize DEF Restart
<1>2. TypeOK' /\ CountInv'
  BY <1>1, PackAssumption, SeqAssumption DEF BaseInv, Restart, TypeOK, CountInv
<1>3. AirInv' /\ SentInv'
  BY DEF BaseInv, Restart, AirInv, SentInv, Blocks, Block
<1> QED
  BY <1>2, <1>3 DEF BaseInv

(* Whatever is on the air was numbered block by block.                     *)
THEOREM BaseCorrect == Spec => []BaseInv
<1> QED
  BY BaseInit, BaseNext, PTL DEF Spec

-----------------------------------------------------------------------------
LEMMA BytesNext == BaseInv /\ NoByteLost /\ [Next]_vars => NoByteLost'
<1> SUFFICES ASSUME BaseInv, NoByteLost, [Next]_vars  PROVE NoByteLost'
  OBVIOUS
<1>0. /\ full \in Seq(Span) /\ Len(full) \in Nat /\ Len(full) < DataPkts
      /\ open \in Nat /\ rest \in Nat /\ fed \in Nat /\ Blocks \in Nat
  <2>1. Blocks \in Nat
    BY BlockSize, DivMod DEF BaseInv, AirInv, Blocks
  <2> QED
    BY <2>1, PackAssumption DEF BaseInv, TypeOK, Span
<1>1. \A k \in 0 .. Blocks - 1 : Block(k) \in [1 .. DataPkts -> Span]
  <2> TAKE k \in 0 .. Blocks - 1
  <2>1. k * Packets + 1 \in 1 .. Len(air)
    BY OnAir, BlockSize DEF BaseInv
  <2> QED
    <3> DEFINE m == k * Packets + 1
    <3>1. m \in 1 .. Len(air) /\ air \in Seq(Packet)
      BY <2>1 DEF BaseInv, AirInv
    <3> HIDE DEF m
    <3>2. air[m] \in Packet
      BY <3>1, ElementOfSeq
    <3>3. air[m].block \in [1 .. DataPkts -> Span]
      BY <3>2 DEF Packet
    <3> QED
      BY <3>3 DEF m, Block
<1>2. LastOf(Blocks - 1) \in Nat
  <2>1. CASE Blocks = 0
    BY <2>1 DEF LastOf
  <2>2. CASE Blocks # 0
    <3> DEFINE b == Blocks
    <3>1. b - 1 \in 0 .. b - 1 /\ b - 1 # -1
      <4> b \in Nat /\ b # 0
        BY <1>0, <2>2
      <4> HIDE DEF b
      <4> QED
        OBVIOUS
    <3>2. Block(b - 1) \in [1 .. DataPkts -> Span] /\ DataPkts \in 1 .. DataPkts
      BY <1>1, <3>1, BlockSize
    <3> QED
      BY <3>1, <3>2 DEF LastOf, Span
  <2> QED
    BY <2>1, <2>2
<1>3. LastPacked \in Nat
  <2>1. full # <<>> => Len(full) \in 1 .. Len(full)
    BY <1>0, EmptySeq
  <2> QED
    BY <1>0, <1>2, <2>1 DEF LastPacked, Span
<1>4. /\ \A k \in 0 .. Blocks - 1 : Follow(Block(k), LastOf(k - 1))
      /\ Follow(full, LastOf(Blocks - 1)) /\ fed = LastPacked + open + rest
  BY DEF NoByteLost
<1>5. ASSUME UNCHANGED <<air, full>>,
             \A m \in Nat : fed = m + open + rest => fed' = m + open' + rest'
      PROVE  NoByteLost'
  <2>1. Blocks' = Blocks /\ LastPacked' = LastPacked /\ LastOf(Blocks - 1)' = LastOf(Blocks - 1)
    BY <1>5 DEF Blocks, LastPacked, LastOf, Block
  <2>2. \A k \in 0 .. Blocks' - 1 : Follow(Block(k), LastOf(k - 1))'
    BY <1>5, <1>4, <2>1 DEF Block, Follow, LastOf
  <2>3. Follow(full, LastOf(Blocks - 1))'
    BY <1>5, <1>4, <2>1 DEF Follow
  <2>4. fed' = LastPacked' + open' + rest'
    <3> DEFINE l == LastPacked
    <3>1. l \in Nat /\ fed = l + open + rest
      BY <1>3, <1>4
    <3>0. LastPacked' = l
      BY <2>1
    <3> HIDE DEF l
    <3>2. fed' = l + open' + rest'
      BY <1>5, <3>1
    <3> QED
      BY <3>0, <3>2
  <2> QED
    BY <2>2, <2>3, <2>4 DEF NoByteLost
<1>6. ASSUME NEW n \in Calls, Call(n)  PROVE NoByteLost'
  BY <1>0, <1>5, <1>6, PackAssumption DEF Call
<1>7. CASE Pack
  <2>1. PICK n \in 1 .. rest : /\ Copied(n) /\ Piece(n) \in Span
                               /\ StaysOpen(n) \/ Finished(n) \/ FillsBlock(n)
    BY <1>7, Packed
  <2> DEFINE piece == Piece(n)
             block == Append(full, piece)
  <2>2. piece[1] = LastPacked + 1 /\ piece[2] = fed - rest + n
    BY <1>0, <1>3, <1>4, <2>1 DEF Piece
  <2>3. /\ Len(block) = Len(full) + 1
        /\ \A i \in 1 .. Len(full) : block[i] = full[i]
        /\ block[Len(full) + 1] = piece /\ block # <<>>
    BY <1>0, <2>1, AppendProperties
  <2>4. Follow(block, LastOf(Blocks - 1))
    <3> DEFINE l == Len(full)
    <3>1. l \in Nat /\ Len(block) = l + 1
      BY <1>0, <2>3
    <3> SUFFICES ASSUME NEW i \in 1 .. l + 1
                 PROVE  block[i][1] = (IF i = 1 THEN LastOf(Blocks - 1) ELSE block[i - 1][2]) + 1
      BY <3>1 DEF Follow
    <3>2. CASE i \in 1 .. l
      <4>1. i # 1 => i - 1 \in 1 .. l
        BY <3>1
      <4> QED
        BY <3>2, <4>1, <2>3, <1>4 DEF Follow
    <3>3. CASE i = l + 1 /\ l = 0
      <4>1. full = <<>>
        BY <3>3, <1>0, EmptySeq
      <4> QED
        BY <4>1, <3>3, <2>2, <2>3 DEF LastPacked
    <3>4. CASE i = l + 1 /\ l # 0
      <4>1. full # <<>> /\ i - 1 = l /\ l \in 1 .. l /\ i # 1
        BY <3>4, <3>1, EmptySeq
      <4> QED
        BY <4>1, <3>4, <2>2, <2>3 DEF LastPacked
    <3> QED
      BY <3>1, <3>2, <3>3, <3>4
  <2> HIDE DEF piece, block
  <2>5. CASE StaysOpen(n)
    <3>1. \A m \in Nat : fed = m + open + rest => fed' = m + open' + rest'
      BY <1>0, <2>1, <2>5 DEF StaysOpen, Copied
    <3> QED
      BY <1>5, <3>1, <2>5 DEF StaysOpen
  <2>6. CASE Finished(n)
    <3>1. full' = block /\ air' = air /\ open' = 0 /\ rest' = rest - n /\ fed' = fed
      BY <2>1, <2>6 DEF Finished, Copied, block, piece
    <3>2. Blocks' = Blocks /\ LastOf(Blocks - 1)' = LastOf(Blocks - 1)
      BY <3>1 DEF Blocks, LastOf, Block
    <3>3. LastPacked' = fed - rest + n
      BY <2>2, <2>3, <3>1 DEF LastPacked
    <3>4. \A k \in 0 .. Blocks' - 1 : Follow(Block(k), LastOf(k - 1))'
      BY <3>1, <3>2, <1>4 DEF Block, Follow, LastOf
    <3>5. Follow(full, LastOf(Blocks - 1))'
      BY <3>1, <3>2, <2>4 DEF Follow
    <3>6. fed' = LastPacked' + open' + rest'
      BY <1>0, <3>1, <3>3
    <3> QED
      BY <3>4, <3>5, <3>6 DEF NoByteLost
  <2>7. CASE FillsBlock(n)
    <3>1. /\ block \in [1 .. DataPkts -> Span] /\ TransmitBlock(block) /\ Len(full) + 1 = DataPkts
          /\ open' = 0 /\ rest' = rest - n /\ fed' = fed /\ full' = <<>>
      BY <2>1, <2>7 DEF FillsBlock, Copied, block, piece, TransmitBlock
    <3>2. PICK refused \in Refusals : air' = air \o Numbered(block, refused)
      BY <3>1 DEF TransmitBlock
    <3>3. /\ Blocks' = Blocks + 1
          /\ \A k \in 0 .. Blocks - 1, i \in 1 .. Packets :
               air'[k * Packets + i] = air[k * Packets + i]
          /\ \A i \in 1 .. Packets : air'[Blocks * Packets + i] = Numbered(block, refused)[i]
      BY <3>1, <3>2, Transmitted
    <3>4. 1 \in 1 .. Packets
      BY BlockSize
    <3>5. \A k \in 0 .. Blocks - 1 : air'[k * Packets + 1].block = Block(k)
      BY <3>3, <3>4 DEF Block
    <3>6. air'[Blocks * Packets + 1].block = block
      <4>1. Numbered(block, refused)[1].block = block
        BY <3>4 DEF Numbered
      <4> QED
        BY <3>3, <3>4, <4>1
    <3> DEFINE b == Blocks
    <3>7. \A k \in -1 .. b - 1 : LastOf(k)' = LastOf(k)
      <4> TAKE k \in -1 .. b - 1
      <4>1. k # -1 => k \in 0 .. b - 1
        BY <1>0
      <4> QED
        BY <4>1, <3>5 DEF LastOf, Block
    <3>8. \A k \in 0 .. b : Follow(Block(k), LastOf(k - 1))'
      <4> TAKE k \in 0 .. b
      <4>1. LastOf(k - 1)' = LastOf(k - 1)
        <5>1. k - 1 \in -1 .. b - 1
          BY <1>0
        <5> QED
          BY <5>1, <3>7
      <4>2. CASE k \in 0 .. b - 1
        <5>1. Block(k)' = Block(k)
          BY <4>2, <3>5 DEF Block
        <5>2. Follow(Block(k), LastOf(k - 1))
          BY <4>2, <1>4
        <5> QED
          BY <5>1, <5>2, <4>1 DEF Follow
      <4>3. CASE k = b
        <5>1. Block(k)' = block
          BY <4>3, <3>6 DEF Block
        <5>2. Follow(block, LastOf(k - 1)')
          BY <4>1, <4>3, <2>4
        <5> QED
          BY <5>1, <5>2 DEF Follow
      <4> QED
        BY <4>2, <4>3, <1>0
    <3>9. block[DataPkts][2] = fed - rest + n
      BY <1>0, <2>2, <2>3, <3>1
    <3>10. Blocks' - 1 = b /\ b # -1 /\ \A k \in 0 .. Blocks' - 1 : k \in 0 .. b
      BY <1>0, <3>3
    <3>11. LastPacked' = fed - rest + n
      <4>1. LastPacked' = air'[(Blocks' - 1) * Packets + 1].block[DataPkts][2]
        BY <3>1, <3>10 DEF LastPacked, LastOf, Block
      <4> QED
        BY <4>1, <3>6, <3>9, <3>10
    <3>12. Follow(full, LastOf(Blocks - 1))'
      <4>1. \A i : i \notin 1 .. Len(full')
        BY <3>1
      <4> QED
        BY <4>1 DEF Follow
    <3>13. fed' = LastPacked' + open' + rest'
      BY <1>0, <3>1, <3>11
    <3>14. \A k \in 0 .. Blocks' - 1 : Follow(Block(k), LastOf(k - 1))'
      BY <3>8, <3>10
    <3> QED
      BY <3>12, <3>13, <3>14 DEF NoByteLost
  <2> QED
    BY <2>1, <2>5, <2>6, <2>7
<1>8. CASE UNCHANGED vars
  BY <1>0, <1>5, <1>8 DEF vars
<1> QED
  BY <1>6, <1>7, <1>8 DEF Next

(* However the stream is cut into calls, blocks and packets, every byte    *)
(* passed is in exactly one place: a packet of a block, a finished packet, *)
(* the open one, or the call being packed.                                 *)
THEOREM EveryByteKept == Spec => []NoByteLost
<1>1. Init => NoByteLost
  <2> SUFFICES ASSUME Init  PROVE NoByteLost
    OBVIOUS
  <2>1. Blocks = 0
    <3>1. BaseInv /\ Len(air) = 0
      BY BaseInit DEF Init
    <3> DEFINE b == Blocks
    <3>2. b \in Nat /\ 0 = Packets * b
      BY <3>1, BlockSize, DivMod DEF BaseInv, AirInv, Blocks
    <3> HIDE DEF b
    <3>3. b > 0 => Packets * b >= Packets
      BY <3>2, BlockSize
    <3> QED
      BY <3>2, <3>3, BlockSize DEF b
  <2>2. LastOf(Blocks - 1) = 0 /\ LastPacked = 0
    BY <2>1 DEF LastPacked, LastOf, Init
  <2> QED
    BY <2>1, <2>2 DEF NoByteLost, Follow, Init
<1> QED
  BY <1>1, BaseInit, BaseNext, BytesNext, PTL DEF Spec

-----------------------------------------------------------------------------
(* At most half of the parity packets have an odd number.                  *)
LEMMA OddOnes ==
  /\ IsFiniteSet({pos \in Positions : OddParity(pos)})
  /\ Cardinality({pos \in Positions : OddParity(pos)}) <= FecPkts \div 2
<1> DEFINE S == {pos \in Positions : OddParity(pos)}
           h == FecPkts \div 2
           f == [pos \in S |-> (ParityAt(pos) + 1) \div 2]
<1>1. h \in Nat /\ IsFiniteSet(1 .. h) /\ Cardinality(1 .. h) = h
  <2>1. h \in Nat
    BY FormatAssumption
  <2> HIDE DEF h
  <2> QED
    BY <2>1, FS_Interval
<1>2. ASSUME NEW pos \in S
      PROVE  /\ ParityAt(pos) \in 0 .. FecPkts - 1 /\ ParityPos(ParityAt(pos)) = pos
             /\ ParityAt(pos) % 2 = 1
  <2>1. pos \in Positions /\ ~IsData(pos) /\ ParityAt(pos) % 2 = 1
    BY DEF OddParity
  <2>2. \E k \in 0 .. FecPkts - 1 : ParityPos(k) = pos
    BY <2>1, Layout
  <2> QED
    BY <2>1, <2>2 DEF ParityAt
<1>3. \A pos \in S : f[pos] \in 1 .. h /\ ParityAt(pos) = 2 * f[pos] - 1
  <2> TAKE pos \in S
  <2> DEFINE k == ParityAt(pos)
  <2>1. k \in Nat /\ k <= FecPkts - 1 /\ k % 2 = 1 /\ f[pos] = (k + 1) \div 2
    BY <1>2, FormatAssumption
  <2> HIDE DEF k, f
  <2>2. (k + 1) \div 2 \in 1 .. FecPkts \div 2 /\ k = 2 * ((k + 1) \div 2) - 1
    BY <2>1, FormatAssumption
  <2> QED
    BY <2>1, <2>2 DEF k
<1>4. f \in [S -> 1 .. h]
  BY <1>3
<1>5. \A p, q \in S : f[p] = f[q] => p = q
  <2> TAKE p, q \in S
  <2>1. f[p] = f[q] => ParityAt(p) = ParityAt(q)
    BY <1>3
  <2> QED
    BY <2>1, <1>2
<1> HIDE DEF f, h
<1>6. f \in Injection(S, 1 .. h)
  BY <1>4, <1>5, Fun_IsInj
<1>7. IsFiniteSet(S) /\ Cardinality(S) <= Cardinality(1 .. h)
  <2> HIDE DEF S
  <2> QED
    BY <1>1, <1>6, FS_Injection
<1> QED
  BY <1>1, <1>7 DEF h

LEMMA Decodable == AirInv /\ SentInv => DecodableFromEachCard
<1> SUFFICES ASSUME AirInv, SentInv, NEW k \in 0 .. Blocks - 1, NEW c \in 1 .. Cards,
                    Cardinality({p \in {air[k * Packets + i] : i \in 1 .. Packets} :
                                   p.failed /\ p.cards < c}) <= FecPkts \div 2
             PROVE  Cardinality({p \in {air[k * Packets + i] : i \in 1 .. Packets} :
                                   p.cards >= c}) >= DataPkts
  BY DEF DecodableFromEachCard
<1> DEFINE pkts    == {air[k * Packets + i] : i \in 1 .. Packets}
           refused == {p \in pkts : p.failed /\ p.cards < c}
           odd     == {p \in pkts : OddParity(p.pos)}
           good    == {p \in pkts : p.cards >= c}
           f       == [p \in pkts |-> p.pos]
           g       == [i \in 1 .. Packets |-> air[k * Packets + i]]
           O       == {pos \in Positions : OddParity(pos)}
<1>1. \A i \in 1 .. Packets : /\ g[i] \in Packet /\ g[i].pos = i - 1
                              /\ g[i].cards < Cards => g[i].failed \/ OddParity(g[i].pos)
  <2> TAKE i \in 1 .. Packets
  <2> DEFINE n == k * Packets + i
  <2>1. n \in 1 .. Len(air) /\ air[n].pos = i - 1 /\ g[i] = air[n]
    BY OnAir DEF AirInv
  <2> HIDE DEF n, g
  <2>2. air[n] \in Packet
    BY <2>1, ElementOfSeq DEF AirInv
  <2> QED
    BY <2>1, <2>2 DEF SentInv
<1>2. \A p \in pkts : /\ p \in Packet /\ g[p.pos + 1] = p /\ p.pos \in Positions
                      /\ p.cards < Cards => p.failed \/ OddParity(p.pos)
  <2> TAKE p \in pkts
  <2>1. PICK i \in 1 .. Packets : p = g[i]
    OBVIOUS
  <2> HIDE DEF g, pkts
  <2>2. p \in Packet /\ p.pos = i - 1 /\ (p.cards < Cards => p.failed \/ OddParity(p.pos))
    BY <1>1, <2>1
  <2>3. p.pos + 1 = i /\ p.pos \in Positions
    BY <2>2, BlockSize DEF Positions
  <2> QED
    BY <2>1, <2>2, <2>3
<1>3. IsFiniteSet(pkts) /\ Cardinality(pkts) = Packets
  <2>1. g \in Bijection(1 .. Packets, pkts)
    <3>1. g \in [1 .. Packets -> pkts] /\ \A p \in pkts : \E i \in 1 .. Packets : g[i] = p
      OBVIOUS
    <3> HIDE DEF g, pkts
    <3>2. \A i, j \in 1 .. Packets : g[i] = g[j] => i = j
      BY <1>1, BlockSize
    <3> QED
      BY <3>1, <3>2, Fun_IsBij
  <2> HIDE DEF g, pkts
  <2>2. IsFiniteSet(1 .. Packets) /\ Cardinality(1 .. Packets) = Packets
    BY FS_Interval, BlockSize
  <2>3. ExistsBijection(1 .. Packets, pkts)
    BY <2>1, Fun_ExistsBij
  <2> QED
    BY <2>2, <2>3, FS_Bijection
<1>4. IsFiniteSet(odd) /\ Cardinality(odd) <= FecPkts \div 2
  <2> DEFINE h == [p \in odd |-> p.pos]
  <2>1. h \in [odd -> O] /\ \A p, q \in odd : h[p] = h[q] => p = q
    <3> HIDE DEF g
    <3> QED
      BY <1>2
  <2>2. IsFiniteSet(O) /\ Cardinality(O) <= FecPkts \div 2
    BY OddOnes
  <2> HIDE DEF h, odd, O
  <2>3. h \in Injection(odd, O)
    BY <2>1, Fun_IsInj
  <2>4. IsFiniteSet(odd) /\ Cardinality(odd) <= Cardinality(O)
    BY <2>2, <2>3, FS_Injection
  <2>5. Cardinality(odd) \in Nat /\ Cardinality(O) \in Nat /\ FecPkts \div 2 \in Nat
    BY <2>2, <2>4, FS_CardinalityType, FormatAssumption
  <2> QED
    BY <2>2, <2>4, <2>5
<1>5. pkts \ good \subseteq refused \cup odd
  <2> SUFFICES ASSUME NEW p \in pkts, ~(p.cards >= c)  PROVE p \in refused \/ p \in odd
    OBVIOUS
  <2>1. p \in Packet /\ (p.cards < Cards => p.failed \/ OddParity(p.pos))
    BY <1>2
  <2>2. p.cards \in Nat /\ p.cards < c /\ p.cards < Cards
    BY <2>1, CardAssumption DEF Packet
  <2> QED
    BY <2>1, <2>2
<1> HIDE DEF pkts, refused, odd, good, O, g
<1>6. refused \subseteq pkts /\ good \subseteq pkts /\ odd \subseteq pkts
  BY DEF refused, good, odd
<1>7. /\ IsFiniteSet(refused) /\ IsFiniteSet(good) /\ IsFiniteSet(refused \cup odd)
      /\ Cardinality(refused \cup odd) <= Cardinality(refused) + Cardinality(odd)
  <2>1. IsFiniteSet(refused) /\ IsFiniteSet(good)
    BY <1>3, <1>6, FS_Subset
  <2>2. /\ IsFiniteSet(refused \cup odd)
        /\ Cardinality(refused \cup odd)
             = Cardinality(refused) + Cardinality(odd) - Cardinality(refused \cap odd)
    BY <2>1, <1>4, FS_Union
  <2>3. Cardinality(refused \cap odd) \in Nat
    BY <2>1, FS_Intersection, FS_CardinalityType
  <2> QED
    BY <2>1, <2>2, <2>3, <1>4, FS_CardinalityType
<1>8. IsFiniteSet(pkts \ good) /\ Cardinality(pkts \ good) = Packets - Cardinality(good)
  <2>1. pkts \cap good = good
    BY <1>6
  <2> QED
    BY <2>1, <1>3, FS_Difference
<1>9. Cardinality(pkts \ good) <= Cardinality(refused \cup odd)
  BY <1>5, <1>7, FS_Subset
<1>10. Cardinality(refused) <= FecPkts \div 2
  BY DEF refused, pkts
<1>11. Packets - Cardinality(good) <= 2 * (FecPkts \div 2)
  <2>1. /\ Cardinality(refused) \in Nat /\ Cardinality(odd) \in Nat /\ Cardinality(good) \in Nat
        /\ Cardinality(refused \cup odd) \in Nat
    BY <1>4, <1>7, FS_CardinalityType
  <2>2. FecPkts \div 2 \in Nat
    BY FormatAssumption
  <2> QED
    BY <1>4, <1>7, <1>8, <1>9, <1>10, <2>1, <2>2, BlockSize
<1>12. 2 * (FecPkts \div 2) <= FecPkts
  BY FormatAssumption
<1>13. Cardinality(good) \in Nat /\ FecPkts \div 2 \in Nat
  BY <1>7, FS_CardinalityType, FormatAssumption
<1>14. Cardinality(good) >= DataPkts
  BY <1>11, <1>12, <1>13, BlockSize
<1> QED
  BY <1>14 DEF good, pkts

(* For any block layout and any number of cards: what a card alone has     *)
(* sent of a block is enough to rebuild it, as long as it and the cards    *)
(* before it refused no more than half the parity.                         *)
THEOREM EachCardSuffices == Spec => []DecodableFromEachCard
<1>1. BaseInv => DecodableFromEachCard
  BY Decodable DEF BaseInv
<1> QED
  BY <1>1, BaseCorrect, PTL

-----------------------------------------------------------------------------
(* What a step of the sender does to the air, for those who listen to it.  *)
Appended ==
  /\ Blocks' = Blocks + 1 /\ Len(air') = Len(air) + Packets
  /\ \A n \in 1 .. Len(air) : air'[n] = air[n]
  /\ \A k \in 0 .. Blocks - 1 : Block(k)' = Block(k)
  /\ \A i \in 1 .. Packets : air'[Len(air) + i].seq = (seqNr + i - 1) % SeqMod
  /\ seqNr' = (seqNr + Packets) % SeqMod

LEMMA SendStep == BaseInv /\ Next => Appended \/ UNCHANGED <<air, seqNr>>
<1> SUFFICES ASSUME BaseInv, Next  PROVE Appended \/ UNCHANGED <<air, seqNr>>
  OBVIOUS
<1>1. ASSUME NEW n \in Calls, Call(n)  PROVE UNCHANGED <<air, seqNr>>
  BY <1>1 DEF Call
<1>2. CASE Pack
  <2>1. PICK n \in 1 .. rest : StaysOpen(n) \/ Finished(n) \/ FillsBlock(n)
    BY <1>2, Packed
  <2>2. CASE StaysOpen(n) \/ Finished(n)
    BY <2>2 DEF StaysOpen, Finished
  <2>3. CASE FillsBlock(n)
    <3> DEFINE block == Append(full, Piece(n))
    <3>1. block \in [1 .. DataPkts -> Span] /\ TransmitBlock(block)
      BY <2>3 DEF FillsBlock
    <3> HIDE DEF block
    <3>2. PICK refused \in Refusals : air' = air \o Numbered(block, refused)
      BY <3>1 DEF TransmitBlock
    <3>3. /\ Blocks' = Blocks + 1 /\ Len(air') = Len(air) + Packets
          /\ \A m \in 1 .. Len(air) : air'[m] = air[m]
          /\ \A k \in 0 .. Blocks - 1, i \in 1 .. Packets :
               air'[k * Packets + i] = air[k * Packets + i]
          /\ \A i \in 1 .. Packets :
               air'[Blocks * Packets + i] = Numbered(block, refused)[i]
      BY <3>1, <3>2, Transmitted
    <3>4. 1 \in 1 .. Packets /\ Blocks * Packets = Len(air)
      <4>1. Blocks \in Nat /\ Len(air) = Packets * Blocks
        BY BlockSize, DivMod DEF BaseInv, AirInv, Blocks
      <4> DEFINE b == Blocks
      <4> HIDE DEF b
      <4>2. b \in Nat => Packets * b = b * Packets
        BY BlockSize
      <4> QED
        BY <4>1, <4>2, BlockSize DEF b
    <3>5. \A k \in 0 .. Blocks - 1 : Block(k)' = Block(k)
      BY <3>3, <3>4 DEF Block
    <3>6. \A i \in 1 .. Packets : Numbered(block, refused)[i].seq = (seqNr + i - 1) % SeqMod
      BY DEF Numbered
    <3>7. \A i \in 1 .. Packets : air'[Len(air) + i].seq = (seqNr + i - 1) % SeqMod
      BY <3>3, <3>4, <3>6
    <3> QED
      BY <3>1, <3>3, <3>5, <3>7 DEF Appended, TransmitBlock
  <2> QED
    BY <2>1, <2>2, <2>3
<1> QED
  BY <1>1, <1>2 DEF Next
=============================================================================
