-------------------------- MODULE VideoLinkProofs ---------------------------
(***************************************************************************)
(* Theorems about the video link (libwfb), for every block layout, number  *)
(* of adapters, loss and interleaving: what the sender broadcasts and the  *)
(* receiver makes of it.                                                   *)
(***************************************************************************)
EXTENDS VideoLink, NatLemmas, FiniteSetTheorems, FunctionTheorems, SequenceTheorems

TxP == INSTANCE StreamTxProofs

Packets == TxP!Packets
Packet  == TxP!Packet
Span    == Nat \X Nat

-----------------------------------------------------------------------------
(* The sender, the receiver and the theorems about the sender speak of the *)
(* same blocks.                                                            *)
LEMMA SameLayout ==
  /\ Tx!Packets = Packets /\ Rx!Packets = Packets
  /\ Packets = DataPkts + FecPkts /\ Packets \in Nat \ {0}
  /\ Rx!Places = 0 .. Packets - 1 /\ TxP!Positions = 0 .. Packets - 1
  /\ \A i : Rx!DataPos(i) = TxP!DataPos(i) /\ Rx!ParityPos(i) = TxP!ParityPos(i)
  /\ \A pos : Rx!IsData(pos) <=> TxP!IsData(pos)
<1> USE DEF Packets, Tx!Packets, Rx!Packets, TxP!Packets, TxP!Positions, Rx!Places
<1>1. \A i : Rx!DataPos(i) = TxP!DataPos(i) /\ Rx!ParityPos(i) = TxP!ParityPos(i)
  BY DEF Rx!DataPos, TxP!DataPos, Rx!ParityPos, TxP!ParityPos, Rx!Pairs, TxP!Pairs
<1>2. \A pos : Rx!IsData(pos) <=> TxP!IsData(pos)
  BY <1>1 DEF Rx!IsData, TxP!IsData
<1>3. DataPkts + FecPkts \in Nat \ {0}
  BY SenderAssumption
<1> QED
  BY <1>1, <1>2, <1>3

LEMMA SameSender ==
  /\ Tx!Init => TxP!Init
  /\ Tx!Next => TxP!Next
  /\ Tx!Restart => TxP!Restart
<1>1. \A pos : Tx!Withheld(pos) <=> TxP!Withheld(pos)
  BY DEF Tx!Withheld, TxP!Withheld, Tx!Skipped, TxP!Skipped, Tx!IsData, TxP!IsData,
         Tx!ParityAt, TxP!ParityAt, Tx!DataPos, TxP!DataPos, Tx!ParityPos, TxP!ParityPos,
         Tx!Pairs, TxP!Pairs
<1>2. \A pos, refused : Tx!Upto(pos, refused) = TxP!Upto(pos, refused)
  BY <1>1 DEF Tx!Upto, TxP!Upto
<1>3. Tx!Packets = TxP!Packets
  BY SameLayout DEF Packets
<1>4. \A block, refused : Tx!Numbered(block, refused) = TxP!Numbered(block, refused)
  BY <1>1, <1>2, <1>3 DEF Tx!Numbered, TxP!Numbered
<1>5. Tx!Refusals = TxP!Refusals
  BY <1>3 DEF Tx!Refusals, TxP!Refusals, Tx!Positions, TxP!Positions,
                  Tx!Cardinality, TxP!Cardinality
<1>6. Tx!Rounds = TxP!Rounds
  BY DEF Tx!Rounds, TxP!Rounds
<1>7. \A block : Tx!TransmitBlock(block) <=> TxP!TransmitBlock(block)
  BY <1>3, <1>4, <1>5, <1>6 DEF Tx!TransmitBlock, TxP!TransmitBlock
<1>8. Tx!Pack => TxP!Pack
  BY <1>7 DEF Tx!Pack, TxP!Pack
<1>9. \A n : Tx!Call(n) => TxP!Call(n)
  BY DEF Tx!Call, TxP!Call
<1> QED
  BY <1>8, <1>9 DEF Tx!Init, TxP!Init, Tx!Next, TxP!Next, Tx!Restart, TxP!Restart

LEMMA SameCount == \A S : Rx!Cardinality(S) = Cardinality(S)
  BY DEF Rx!Cardinality, Cardinality

LEMMA ImageSize ==
  ASSUME NEW S, IsFiniteSet(S), NEW T, NEW f \in [S -> T],
         \A x, y \in S : f[x] = f[y] => x = y
  PROVE  IsFiniteSet({f[x] : x \in S}) /\ Cardinality({f[x] : x \in S}) = Cardinality(S)
<1> DEFINE R == {f[x] : x \in S}
<1>1. f \in [S -> R] /\ \A t \in R : \E x \in S : f[x] = t
  OBVIOUS
<1> HIDE DEF R
<1>2. f \in Bijection(S, R)
  BY <1>1, Fun_IsBij
<1>3. ExistsBijection(S, R)
  BY <1>2, Fun_ExistsBij
<1> QED
  BY <1>3, FS_Bijection DEF R

-----------------------------------------------------------------------------
LEMMA Places ==
  /\ \A i \in 0 .. DataPkts - 1 : Rx!DataPos(i) \in Rx!Places
  /\ \A k \in 0 .. FecPkts - 1 : Rx!ParityPos(k) \in Rx!Places
  /\ \A i, j \in 0 .. DataPkts - 1 : Rx!DataPos(i) = Rx!DataPos(j) => i = j
  /\ \A k, l \in 0 .. FecPkts - 1 : Rx!ParityPos(k) = Rx!ParityPos(l) => k = l
  /\ \A i \in 0 .. DataPkts - 1, k \in 0 .. FecPkts - 1 : Rx!DataPos(i) # Rx!ParityPos(k)
  /\ \A n \in Rx!Places : (\E i \in 0 .. DataPkts - 1 : Rx!DataPos(i) = n)
                         \/ (\E k \in 0 .. FecPkts - 1 : Rx!ParityPos(k) = n)
<1>1. /\ \A i \in 0 .. DataPkts - 1 : TxP!DataPos(i) \in TxP!Positions
      /\ \A k \in 0 .. FecPkts - 1 : TxP!ParityPos(k) \in TxP!Positions
      /\ \A i, j \in 0 .. DataPkts - 1 : TxP!DataPos(i) = TxP!DataPos(j) => i = j
      /\ \A k, l \in 0 .. FecPkts - 1 : TxP!ParityPos(k) = TxP!ParityPos(l) => k = l
      /\ \A i \in 0 .. DataPkts - 1, k \in 0 .. FecPkts - 1 : TxP!DataPos(i) # TxP!ParityPos(k)
      /\ \A pos \in TxP!Positions :
           TxP!IsData(pos) \/ \E k \in 0 .. FecPkts - 1 : TxP!ParityPos(k) = pos
  BY TxP!Layout, SenderAssumption, Zenon DEF TxP!Packets
<1>2. \A i : Rx!DataPos(i) = TxP!DataPos(i) /\ Rx!ParityPos(i) = TxP!ParityPos(i)
  BY SameLayout
<1>3. Rx!Places = TxP!Positions
  BY SameLayout
<1>4. \A n \in Rx!Places : (\E i \in 0 .. DataPkts - 1 : Rx!DataPos(i) = n)
                         \/ (\E k \in 0 .. FecPkts - 1 : Rx!ParityPos(k) = n)
  BY <1>1, <1>2, <1>3, Zenon DEF TxP!IsData
<1>5. \A i, j \in 0 .. DataPkts - 1 : Rx!DataPos(i) = Rx!DataPos(j) => i = j
  BY <1>1, <1>2, Zenon
<1>6. \A k, l \in 0 .. FecPkts - 1 : Rx!ParityPos(k) = Rx!ParityPos(l) => k = l
  BY <1>1, <1>2, Zenon
<1>7. \A i \in 0 .. DataPkts - 1, k \in 0 .. FecPkts - 1 : Rx!DataPos(i) # Rx!ParityPos(k)
  BY <1>1, <1>2, Zenon
<1>8. /\ \A i \in 0 .. DataPkts - 1 : Rx!DataPos(i) \in Rx!Places
      /\ \A k \in 0 .. FecPkts - 1 : Rx!ParityPos(k) \in Rx!Places
  BY <1>1, <1>2, <1>3, Zenon
<1> QED
  BY <1>4, <1>5, <1>6, <1>7, <1>8

(* What the receiver counts when it closes a block: data and parity        *)
(* packets, missing and come, make up the block.                           *)
MissingPlaces == {n \in Rx!Places : slots[n] = None}
CamePlaces    == {n \in Rx!Places : slots[n] # None}

LEMMA Counting ==
  /\ Cardinality(MissingPlaces) \in Nat /\ Cardinality(CamePlaces) \in Nat
  /\ Cardinality(MissingPlaces) + Cardinality(CamePlaces) = Packets
  /\ Cardinality(Rx!MissingData) \in 0 .. DataPkts
  /\ Cardinality(Rx!GoodParity) \in 0 .. FecPkts
  /\ Cardinality(CamePlaces)
       = (DataPkts - Cardinality(Rx!MissingData)) + Cardinality(Rx!GoodParity)
<1> DEFINE N == 0 .. DataPkts - 1
           K == 0 .. FecPkts - 1
           M == Rx!MissingData
           G == Rx!GoodParity
           f == [i \in N \ M |-> Rx!DataPos(i)]
           g == [k \in G |-> Rx!ParityPos(k)]
           D == {f[i] : i \in N \ M}
           Q == {g[k] : k \in G}
<1>1. /\ \A i \in N : Rx!DataPos(i) \in Rx!Places
      /\ \A k \in K : Rx!ParityPos(k) \in Rx!Places
      /\ \A i, j \in N : Rx!DataPos(i) = Rx!DataPos(j) => i = j
      /\ \A k, l \in K : Rx!ParityPos(k) = Rx!ParityPos(l) => k = l
      /\ \A i \in N, k \in K : Rx!DataPos(i) # Rx!ParityPos(k)
      /\ \A n \in Rx!Places : (\E i \in N : Rx!DataPos(i) = n) \/ \E k \in K : Rx!ParityPos(k) = n
  BY Places
<1>2. M \subseteq N /\ G \subseteq K
  BY DEF Rx!MissingData, Rx!GoodParity
<1>3. /\ IsFiniteSet(N) /\ Cardinality(N) = DataPkts /\ IsFiniteSet(K) /\ Cardinality(K) = FecPkts
      /\ IsFiniteSet(Rx!Places) /\ Cardinality(Rx!Places) = Packets
  <2>1. 0 \in Int /\ DataPkts - 1 \in Int /\ FecPkts - 1 \in Int /\ Packets - 1 \in Int
        /\ DataPkts \in Nat /\ FecPkts \in Nat /\ Packets \in Nat
    BY SenderAssumption, SameLayout
  <2>2. Rx!Places = 0 .. Packets - 1
    BY SameLayout
  <2>3. IsFiniteSet(N) /\ Cardinality(N) = DataPkts
    BY <2>1, FS_Interval
  <2>4. IsFiniteSet(K) /\ Cardinality(K) = FecPkts
    BY <2>1, FS_Interval
  <2>5. IsFiniteSet(0 .. Packets - 1) /\ Cardinality(0 .. Packets - 1) = Packets
    BY <2>1, FS_Interval
  <2> QED
    BY <2>2, <2>3, <2>4, <2>5
<1>4. /\ IsFiniteSet(M) /\ IsFiniteSet(G) /\ IsFiniteSet(N \ M)
      /\ Cardinality(M) \in 0 .. DataPkts /\ Cardinality(G) \in 0 .. FecPkts
      /\ Cardinality(N \ M) = DataPkts - Cardinality(M)
  <2> HIDE DEF N, M, K, G
  <2>1. /\ IsFiniteSet(M) /\ Cardinality(M) <= Cardinality(N)
        /\ IsFiniteSet(G) /\ Cardinality(G) <= Cardinality(K)
    BY <1>2, <1>3, FS_Subset
  <2>2. Cardinality(M) \in Nat /\ Cardinality(G) \in Nat
    BY <2>1, FS_CardinalityType
  <2>3. IsFiniteSet(N \ M) /\ Cardinality(N \ M) = Cardinality(N) - Cardinality(N \cap M)
    BY <1>3, FS_Difference
  <2>4. N \cap M = M
    BY <1>2
  <2>5. DataPkts \in Nat /\ FecPkts \in Nat
    BY SenderAssumption
  <2>6. Cardinality(M) \in 0 .. DataPkts /\ Cardinality(G) \in 0 .. FecPkts
    BY <2>1, <2>2, <2>5, <1>3
  <2>7. IsFiniteSet(N \ M) /\ Cardinality(N \ M) = DataPkts - Cardinality(M)
    BY <2>3, <2>4, <1>3
  <2> QED
    BY <2>1, <2>6, <2>7
<1>5. IsFiniteSet(D) /\ Cardinality(D) = Cardinality(N \ M)
  <2>1. f \in [N \ M -> Rx!Places] /\ \A x, y \in N \ M : f[x] = f[y] => x = y
    BY <1>1
  <2>2. IsFiniteSet(N \ M)
    BY <1>4
  <2> HIDE DEF f, N, M
  <2>3. IsFiniteSet({f[i] : i \in N \ M}) /\ Cardinality({f[i] : i \in N \ M}) = Cardinality(N \ M)
    BY <2>1, <2>2, ImageSize
  <2> QED
    BY <2>3
<1>6. IsFiniteSet(Q) /\ Cardinality(Q) = Cardinality(G)
  <2>1. g \in [G -> Rx!Places] /\ \A x, y \in G : g[x] = g[y] => x = y
    BY <1>1, <1>2
  <2>2. IsFiniteSet(G)
    BY <1>4
  <2> HIDE DEF g, G
  <2>3. IsFiniteSet({g[k] : k \in G}) /\ Cardinality({g[k] : k \in G}) = Cardinality(G)
    BY <2>1, <2>2, ImageSize
  <2> QED
    BY <2>3
<1>7. D \cap Q = {}
  BY <1>1, <1>2
<1>8. CamePlaces = D \cup Q
  <2>1. ASSUME NEW n \in CamePlaces  PROVE n \in D \cup Q
    <3>1. n \in Rx!Places /\ slots[n] # None
      BY DEF CamePlaces
    <3>2. CASE \E i \in N : Rx!DataPos(i) = n
      BY <3>1, <3>2 DEF Rx!MissingData, Rx!DataAt
    <3>3. CASE \E k \in K : Rx!ParityPos(k) = n
      BY <3>1, <3>3 DEF Rx!GoodParity
    <3> QED
      BY <3>1, <3>2, <3>3, <1>1
  <2>2. ASSUME NEW n \in D  PROVE n \in CamePlaces
    <3>1. PICK i \in N \ M : n = Rx!DataPos(i)
      OBVIOUS
    <3> QED
      BY <3>1, <1>1 DEF CamePlaces, Rx!MissingData, Rx!DataAt
  <2>3. ASSUME NEW n \in Q  PROVE n \in CamePlaces
    <3>1. PICK k \in G : n = Rx!ParityPos(k)
      OBVIOUS
    <3> QED
      BY <3>1, <1>1, <1>2 DEF CamePlaces, Rx!GoodParity
  <2> QED
    BY <2>1, <2>2, <2>3
<1>9. Cardinality(CamePlaces) = (DataPkts - Cardinality(M)) + Cardinality(G)
  <2> HIDE DEF D, Q, M, G, N
  <2>1. Cardinality(D \cup Q) = Cardinality(D) + Cardinality(Q) - Cardinality(D \cap Q)
    BY <1>5, <1>6, FS_Union
  <2>2. Cardinality(D \cap Q) = 0
    BY <1>7, FS_EmptySet
  <2> QED
    BY <2>1, <2>2, <1>4, <1>5, <1>6, <1>8, SenderAssumption
<1>10. /\ Cardinality(MissingPlaces) \in Nat /\ Cardinality(CamePlaces) \in Nat
       /\ Cardinality(MissingPlaces) + Cardinality(CamePlaces) = Packets
  <2>1. MissingPlaces = Rx!Places \ CamePlaces /\ Rx!Places \cap CamePlaces = CamePlaces
        /\ CamePlaces \subseteq Rx!Places
    BY DEF MissingPlaces, CamePlaces
  <2>2. IsFiniteSet(MissingPlaces) /\ IsFiniteSet(CamePlaces)
        /\ Cardinality(MissingPlaces) = Packets - Cardinality(CamePlaces)
    <3>1. IsFiniteSet(Rx!Places \ CamePlaces) /\ Cardinality(Rx!Places \ CamePlaces)
            = Cardinality(Rx!Places) - Cardinality(Rx!Places \cap CamePlaces)
      BY <1>3, FS_Difference
    <3>2. IsFiniteSet(CamePlaces)
      BY <2>1, <1>3, FS_Subset
    <3> QED
      BY <3>1, <3>2, <2>1, <1>3
  <2>3. Cardinality(MissingPlaces) \in Nat /\ Cardinality(CamePlaces) \in Nat
    BY <2>2, FS_CardinalityType
  <2>4. Packets \in Nat
    BY SameLayout
  <2> QED
    BY <2>2, <2>3, <2>4
<1> QED
  BY <1>4, <1>9, <1>10

-----------------------------------------------------------------------------
StatusOK == status \in [blocks : Nat, damaged : Nat, received : Nat, lost : Nat]

(* The receiver's steps: a block is opened, the old one being closed if    *)
(* the sender was not restarted, or the packet is kept or ignored.         *)
LEMMA Receive ==
  ASSUME NEW p, Rx!Process(p)
  PROVE  \/ out' = Append(out, Rx!Decoded) /\ status' = Rx!Closed
         \/ out' = out /\ status' = Rx!NoStatus
         \/ out' = out /\ status' = status
  BY DEF Rx!Process, Rx!Open, Rx!Keep

LEMMA CountersClosed ==
  ASSUME StatusOK, CountersAgree, status' = Rx!Closed
  PROVE  StatusOK' /\ CountersAgree'
<1> DEFINE m == Cardinality(MissingPlaces)
           M == Cardinality(Rx!MissingData)
           G == Cardinality(Rx!GoodParity)
<1>1. /\ m \in Nat /\ m <= Packets /\ M \in Nat /\ G \in 0 .. FecPkts
      /\ Packets - m = (DataPkts - M) + G /\ Packets = DataPkts + FecPkts
      /\ DataPkts \in Nat /\ FecPkts \in Nat
  <2>1. DataPkts \in Nat /\ FecPkts \in Nat
    BY SenderAssumption
  <2>2. Packets = DataPkts + FecPkts
    BY SameLayout
  <2> QED
    BY <2>1, <2>2, Counting
<1>2. Rx!Closed = [blocks   |-> status.blocks + 1,
                   damaged  |-> status.damaged + (IF M > G THEN 1 ELSE 0),
                   received |-> status.received + (Packets - m),
                   lost     |-> status.lost + m]
  <2>1. Rx!Packets = Packets
    BY SameLayout
  <2> QED
    BY <2>1, SameCount, Zenon DEF Rx!Closed, Rx!Failed, MissingPlaces
<1> HIDE DEF m, M, G
<1> DEFINE b == status.blocks
           d == status.damaged
           r == status.received
           l == status.lost
<1>3. /\ b \in Nat /\ d \in Nat /\ r \in Nat /\ l \in Nat
      /\ r + l = Packets * b /\ d <= b /\ (d = 0 => l <= FecPkts * b)
  <2>1. Rx!Packets = Packets
    BY SameLayout
  <2> QED
    BY <2>1 DEF StatusOK, CountersAgree
<1>4. /\ status'.blocks = b + 1 /\ status'.damaged = d + (IF M > G THEN 1 ELSE 0)
      /\ status'.received = r + (Packets - m) /\ status'.lost = l + m
  BY <1>2
<1>5. StatusOK'
  <2>1. /\ b + 1 \in Nat /\ d + (IF M > G THEN 1 ELSE 0) \in Nat
        /\ r + (Packets - m) \in Nat /\ l + m \in Nat
    <3> HIDE DEF b, d, r, l
    <3> QED
      BY <1>1, <1>3
  <2> QED
    BY <2>1, <1>2 DEF StatusOK
<1> HIDE DEF b, d, r, l
<1>6. Packets * (b + 1) = Packets * b + Packets /\ FecPkts * (b + 1) = FecPkts * b + FecPkts
  BY <1>1, <1>3
<1>7. Packets * b \in Nat /\ FecPkts * b \in Nat
  BY <1>1, <1>3
<1>8. status'.received + status'.lost = Packets * status'.blocks
  BY <1>1, <1>3, <1>4, <1>6, <1>7
<1>9. status'.damaged <= status'.blocks
  BY <1>1, <1>3, <1>4
<1>10. status'.damaged = 0 => status'.lost <= FecPkts * status'.blocks
  <2> SUFFICES ASSUME status'.damaged = 0  PROVE status'.lost <= FecPkts * status'.blocks
    OBVIOUS
  <2>1. d = 0 /\ M <= G
    BY <1>1, <1>3, <1>4
  <2>2. m <= FecPkts
    BY <2>1, <1>1
  <2> QED
    BY <2>1, <2>2, <1>1, <1>3, <1>4, <1>6, <1>7
<1>11. Rx!Packets = Packets
  BY SameLayout
<1> QED
  BY <1>5, <1>8, <1>9, <1>10, <1>11 DEF CountersAgree

LEMMA CountersNone ==
  ASSUME status' = Rx!NoStatus
  PROVE  StatusOK' /\ CountersAgree'
<1>1. Rx!Packets \in Nat /\ FecPkts \in Nat
  BY SameLayout, SenderAssumption
<1> QED
  BY <1>1 DEF StatusOK, CountersAgree, Rx!NoStatus

(* For every block layout the counters shown to the operator add up,       *)
(* whatever is lost, repeated or reordered.                                *)
THEOREM Counters == Spec => []CountersAgree
<1>1. Init => StatusOK /\ CountersAgree
  <2>1. Rx!Packets \in Nat /\ FecPkts \in Nat
    BY SameLayout, SenderAssumption
  <2> QED
    BY <2>1 DEF Init, Rx!Init, Rx!NoStatus, StatusOK, CountersAgree
<1>2. StatusOK /\ CountersAgree /\ [Next]_vars => StatusOK' /\ CountersAgree'
  <2> SUFFICES ASSUME StatusOK, CountersAgree, [Next]_vars  PROVE StatusOK' /\ CountersAgree'
    OBVIOUS
  <2>1. CASE UNCHANGED status
    BY <2>1 DEF StatusOK, CountersAgree
  <2>2. ASSUME NEW a \in Adapters, Hear(a)  PROVE StatusOK' /\ CountersAgree'
    <3>1. CASE status' = Rx!Closed
      BY <3>1, CountersClosed
    <3>2. CASE status' = Rx!NoStatus
      BY <3>2, CountersNone
    <3> QED
      BY <2>1, <2>2, <3>1, <3>2, Receive DEF Hear
  <2>3. Send \/ TxReboot \/ (\E a \in Adapters : Miss(a)) \/ UNCHANGED vars => UNCHANGED status
    BY DEF Send, TxReboot, Miss, vars, rxVars
  <2> QED
    BY <2>1, <2>2, <2>3 DEF Next
<1> QED
  BY <1>1, <1>2, PTL DEF Spec

-----------------------------------------------------------------------------
Pieces == Span \cup {None, Junk}

(* What holds of both ends, across losses and restarts.                    *)
ReceiverOK ==
  /\ slots \in [Rx!Places -> {None} \cup Packet]
  /\ blockNum \in Nat \cup {-1} /\ maxBlock = blockNum
  /\ out \in Seq([1 .. DataPkts -> Pieces])
  /\ heard \in [Adapters -> Nat]
  /\ restarts \in Nat

LinkInv == TxP!BaseInv /\ ReceiverOK

LEMMA AirOK == TxP!BaseInv => air \in Seq(Packet) /\ Len(air) \in Nat
  BY DEF TxP!BaseInv, TxP!AirInv, Packet

(* The place of a packet in its block.                                     *)
LEMMA PlaceOK ==
  ASSUME NEW p \in Packet
  PROVE  Rx!BlockOf(p) \in Nat /\ Rx!PlaceOf(p) \in Rx!Places
<1>1. p.seq \in Nat
  BY SenderAssumption DEF Packet, TxP!Packet
<1>2. Rx!Packets \in Nat \ {0} /\ Rx!Places = 0 .. Rx!Packets - 1
  BY SameLayout
<1> QED
  BY <1>1, <1>2, DivMod DEF Rx!BlockOf, Rx!PlaceOf

-----------------------------------------------------------------------------
(* The pieces a closed block is made of: bytes of the stream come from a   *)
(* packet, and are never mistaken for a piece that is missing.             *)
LEMMA PieceThere ==
  ASSUME ReceiverOK, NEW n \in Rx!Places, slots[n] # None, NEW i \in 1 .. DataPkts
  PROVE  slots[n].block[i] \in Span
<1>1. slots[n] \in Packet
  BY DEF ReceiverOK
<1> QED
  BY <1>1 DEF Packet, TxP!Packet, TxP!Span, Span

LEMMA ContentType ==
  ASSUME ReceiverOK, NEW n \in Rx!Places, slots[n] # None
  PROVE  Rx!Content(n) \in Span \cup {Junk}
<1>1. CASE Rx!IsData(slots[n].pos)
  <2> DEFINE i == Rx!DataIndex(slots[n].pos)
  <2>1. i \in 0 .. DataPkts - 1
    BY <1>1 DEF Rx!IsData, Rx!DataIndex
  <2> HIDE DEF i
  <2>2. i + 1 \in 1 .. DataPkts
    BY <2>1, SenderAssumption
  <2>3. slots[n].block[i + 1] \in Span
    BY <2>2, PieceThere
  <2> QED
    BY <1>1, <2>3 DEF Rx!Content, i
<1>2. CASE ~Rx!IsData(slots[n].pos)
  BY <1>2 DEF Rx!Content
<1> QED
  BY <1>1, <1>2

LEMMA UsedThere == \A n \in Rx!UsedPlaces : n \in Rx!Places /\ slots[n] # None
<1> TAKE n \in Rx!UsedPlaces
<1>1. CASE \E i \in 0 .. DataPkts - 1 : i \notin Rx!MissingData /\ n = Rx!DataPos(i)
  BY <1>1, Places DEF Rx!MissingData, Rx!DataAt
<1>2. CASE \E k \in 0 .. FecPkts - 1 : k \in Rx!GoodParity /\ n = Rx!ParityPos(k)
  BY <1>2, Places DEF Rx!GoodParity
<1> QED
  BY <1>1, <1>2, Zenon DEF Rx!UsedPlaces, Rx!UsedParity, Rx!GoodParity

LEMMA RebuiltType ==
  ASSUME ReceiverOK, NEW i \in 0 .. DataPkts - 1
  PROVE  Rx!Rebuilt(i) \in Span \cup {Junk}
<1> DEFINE fits == /\ Rx!Cardinality(Rx!GoodParity) >= Rx!Cardinality(Rx!MissingData)
                   /\ \E n \in Rx!UsedPlaces : \A m \in Rx!UsedPlaces :
                        slots[m].pos = m /\ slots[m].block = slots[n].block
           u == CHOOSE n \in Rx!UsedPlaces : TRUE
<1>1. CASE fits
  <2>1. u \in Rx!UsedPlaces
    BY <1>1
  <2>2. u \in Rx!Places /\ slots[u] # None
    BY <2>1, UsedThere
  <2>3. i + 1 \in 1 .. DataPkts
    BY SenderAssumption
  <2>4. Rx!Rebuilt(i) = slots[u].block[i + 1]
    BY <1>1 DEF Rx!Rebuilt
  <2> HIDE DEF u
  <2> QED
    BY <2>2, <2>3, <2>4, PieceThere
<1>2. CASE ~fits
  BY <1>2 DEF Rx!Rebuilt
<1> QED
  BY <1>1, <1>2

LEMMA DecodedType ==
  ASSUME ReceiverOK
  PROVE  /\ Rx!Decoded \in [1 .. DataPkts -> Pieces]
         /\ \A i \in 1 .. DataPkts :
              Rx!Decoded[i] = None <=> Rx!Failed /\ i - 1 \in Rx!MissingData
<1>1. ASSUME NEW i \in 1 .. DataPkts
      PROVE  /\ Rx!Decoded[i] \in Pieces
             /\ Rx!Decoded[i] = None <=> Rx!Failed /\ i - 1 \in Rx!MissingData
  <2>0. None \notin Span \cup {Junk}
    BY MarkAssumption DEF Span
  <2>1. i - 1 \in 0 .. DataPkts - 1
    BY SenderAssumption
  <2>2. CASE i - 1 \notin Rx!MissingData
    <3>1. Rx!DataPos(i - 1) \in Rx!Places /\ slots[Rx!DataPos(i - 1)] # None
      BY <2>1, <2>2, Places DEF Rx!MissingData, Rx!DataAt
    <3>2. Rx!Content(Rx!DataPos(i - 1)) \in Span \cup {Junk}
      BY <3>1, ContentType
    <3> QED
      BY <2>0, <2>2, <3>2 DEF Rx!Decoded, Pieces
  <2>3. CASE i - 1 \in Rx!MissingData
    <3>1. Rx!Rebuilt(i - 1) \in Span \cup {Junk}
      BY <2>1, RebuiltType
    <3> QED
      BY <2>0, <2>3, <3>1 DEF Rx!Decoded, Pieces
  <2> QED
    BY <2>2, <2>3
<1>2. Rx!Decoded = [i \in 1 .. DataPkts |-> Rx!Decoded[i]]
  BY DEF Rx!Decoded
<1> QED
  BY <1>1, <1>2

(* A block closed with at least DataPkts packets, whichever they are, has  *)
(* no hole; one closed with fewer has a hole for each data packet missing. *)
LEMMA Holes ==
  ASSUME ReceiverOK
  PROVE  {i \in 1 .. DataPkts : Rx!Decoded[i] = None}
           = IF Cardinality(CamePlaces) >= DataPkts THEN {} ELSE {i + 1 : i \in Rx!MissingData}
<1>0. DataPkts \in Nat /\ FecPkts \in Nat
  BY SenderAssumption
<1>1. Cardinality(CamePlaces) >= DataPkts <=> ~Rx!Failed
  <2>1. Cardinality(Rx!MissingData) \in Nat /\ Cardinality(Rx!GoodParity) \in Nat
        /\ Cardinality(CamePlaces)
             = (DataPkts - Cardinality(Rx!MissingData)) + Cardinality(Rx!GoodParity)
    BY Counting, <1>0
  <2>2. Rx!Failed <=> Cardinality(Rx!MissingData) > Cardinality(Rx!GoodParity)
    BY SameCount DEF Rx!Failed
  <2> QED
    BY <1>0, <2>1, <2>2
<1>2. \A i \in 1 .. DataPkts :
        Rx!Decoded[i] = None <=> Rx!Failed /\ i - 1 \in Rx!MissingData
  BY DecodedType
<1>3. {i \in 1 .. DataPkts : i - 1 \in Rx!MissingData} = {i + 1 : i \in Rx!MissingData}
  <2>1. Rx!MissingData \subseteq 0 .. DataPkts - 1
    BY DEF Rx!MissingData
  <2>2. ASSUME NEW j \in Rx!MissingData  PROVE j + 1 \in 1 .. DataPkts /\ (j + 1) - 1 = j
    BY <2>1, <1>0
  <2>3. ASSUME NEW i \in 1 .. DataPkts  PROVE (i - 1) + 1 = i
    BY <1>0
  <2> QED
    BY <2>2, <2>3
<1> QED
  BY <1>1, <1>2, <1>3

-----------------------------------------------------------------------------
(* An adapter hears a packet that is on the air, one it is not past yet.   *)
LEMMA AheadOnAir ==
  ASSUME LinkInv, NEW a \in Adapters, Ahead(a) # {}
  PROVE  /\ First(Ahead(a)) \in Ahead(a)
         /\ Ahead(a) \subseteq 1 .. Len(air)
         /\ \A m \in Ahead(a) : First(Ahead(a)) <= m
<1>1. heard[a] \in Nat /\ Len(air) \in Nat
  BY AirOK DEF LinkInv, ReceiverOK
<1>2. Ahead(a) \subseteq 1 .. Len(air)
  BY <1>1 DEF Ahead
<1>3. \E n \in Ahead(a) : \A m \in Ahead(a) : n <= m
  <2>1. Ahead(a) \in SUBSET Nat
    BY <1>1, <1>2
  <2> QED
    BY <2>1, Least
<1> QED
  BY <1>2, <1>3 DEF First

LEMMA HearStep ==
  ASSUME LinkInv, NEW a \in Adapters, Hear(a)
  PROVE  \E n \in Ahead(a) : /\ n \in 1 .. Len(air) /\ air[n] \in Packet
                             /\ Rx!Process(air[n])
                             /\ heard' = [heard EXCEPT ![a] = n]
<1>1. First(Ahead(a)) \in Ahead(a) /\ Ahead(a) \subseteq 1 .. Len(air)
  BY AheadOnAir DEF Hear
<1>2. air[First(Ahead(a))] \in Packet
  BY <1>1, AirOK, ElementOfSeq DEF LinkInv
<1> QED
  BY <1>1, <1>2 DEF Hear

LEMMA LinkInit == Init => LinkInv
<1> SUFFICES ASSUME Init  PROVE LinkInv
  OBVIOUS
<1>1. TxP!BaseInv
  BY SameSender, TxP!BaseInit, SenderAssumption DEF Init, TxP!Packets
<1>2. ReceiverOK
  BY EmptySeq DEF Init, Rx!Init, Rx!Empty, ReceiverOK
<1> QED
  BY <1>1, <1>2 DEF LinkInv

LEMMA LinkNext == LinkInv /\ [Next]_vars => LinkInv'
<1> SUFFICES ASSUME LinkInv, [Next]_vars  PROVE LinkInv'
  OBVIOUS
<1>0. TxP!BaseInv /\ ReceiverOK
  BY DEF LinkInv
<1>1. ASSUME UNCHANGED txVars  PROVE TxP!BaseInv'
  <2>1. UNCHANGED TxP!vars
    BY <1>1 DEF txVars, TxP!vars
  <2> QED
    BY <1>0, <2>1, TxP!BaseNext, SenderAssumption DEF TxP!Packets
<1>2. ASSUME UNCHANGED <<rxVars, heard, restarts>>  PROVE ReceiverOK'
  BY <1>0, <1>2 DEF ReceiverOK, rxVars
<1>3. CASE Send
  <2>1. TxP!BaseInv'
    BY <1>0, <1>3, SameSender, TxP!BaseNext, SenderAssumption DEF Send, TxP!Packets
  <2> QED
    BY <2>1, <1>2, <1>3 DEF Send, LinkInv
<1>4. CASE TxReboot
  <2>1. TxP!BaseInv'
    BY <1>0, <1>4, SameSender, TxP!BaseRestart, SenderAssumption DEF TxReboot, TxP!Packets
  <2>2. ReceiverOK'
    BY <1>0, <1>4 DEF TxReboot, ReceiverOK, rxVars
  <2> QED
    BY <2>1, <2>2 DEF LinkInv
<1>5. ASSUME NEW a \in Adapters, Hear(a)  PROVE LinkInv'
  <2>1. PICK n \in Ahead(a) : /\ n \in 1 .. Len(air) /\ air[n] \in Packet
                              /\ Rx!Process(air[n]) /\ heard' = [heard EXCEPT ![a] = n]
    BY <1>5, HearStep
  <2>2. heard' \in [Adapters -> Nat] /\ restarts' = restarts /\ UNCHANGED txVars
    BY <1>0, <1>5, <2>1 DEF ReceiverOK, Hear
  <2> DEFINE p == air[n]
  <2>3. Rx!BlockOf(p) \in Nat /\ Rx!PlaceOf(p) \in Rx!Places /\ p \in Packet
    BY <2>1, PlaceOK
  <2> HIDE DEF p
  <2>4. ASSUME Rx!Open(p)  PROVE ReceiverOK'
    <3>1. slots' \in [Rx!Places -> {None} \cup Packet]
      BY <2>3, <2>4 DEF Rx!Open, Rx!Empty
    <3>2. blockNum' \in Nat \cup {-1} /\ maxBlock' = blockNum'
      BY <2>3, <2>4 DEF Rx!Open
    <3>3. out' = out \/ out' = Append(out, Rx!Decoded)
      BY <2>4 DEF Rx!Open
    <3>4. out' \in Seq([1 .. DataPkts -> Pieces])
      <4> DEFINE S == [1 .. DataPkts -> Pieces]
      <4>1. out \in Seq(S) /\ Rx!Decoded \in S
        BY <1>0, DecodedType DEF ReceiverOK
      <4> HIDE DEF S
      <4>2. Append(out, Rx!Decoded) \in Seq(S)
        BY <4>1, AppendProperties
      <4> QED
        BY <3>3, <4>1, <4>2 DEF S
    <3> QED
      BY <1>0, <2>2, <3>1, <3>2, <3>4 DEF ReceiverOK
  <2>5. ASSUME Rx!Keep(p)  PROVE ReceiverOK'
    <3>1. slots' \in [Rx!Places -> {None} \cup Packet]
      BY <1>0, <2>3, <2>5 DEF Rx!Keep, ReceiverOK
    <3> QED
      BY <1>0, <2>2, <2>5, <3>1 DEF Rx!Keep, ReceiverOK
  <2>6. ReceiverOK'
    BY <2>1, <2>4, <2>5, Zenon DEF p, Rx!Process
  <2> QED
    BY <2>2, <2>6, <1>1 DEF LinkInv
<1>6. ASSUME NEW a \in Adapters, Miss(a)  PROVE LinkInv'
  <2>1. First(Ahead(a)) \in Nat
    BY <1>6, AheadOnAir DEF Miss
  <2>2. ReceiverOK'
    BY <1>0, <1>6, <2>1 DEF ReceiverOK, Miss, rxVars
  <2> QED
    BY <2>2, <1>1, <1>6 DEF Miss, LinkInv
<1>7. CASE UNCHANGED vars
  BY <1>1, <1>2, <1>7 DEF vars, LinkInv
<1> QED
  BY <1>3, <1>4, <1>5, <1>6, <1>7 DEF Next

(* The air, the receive queues, the slots of process_payload and its       *)
(* counters are always consistent, through any restart and wrap.           *)
THEOREM LinkCorrect == Spec => []LinkInv
<1> QED
  BY LinkInit, LinkNext, PTL DEF Spec

(* For every block layout: a block closed with at least DataPkts packets,  *)
(* whichever they are, is passed on without a hole, and one closed with    *)
(* fewer has holes exactly where data packets did not come.                *)
THEOREM EnoughPackets == Spec => AnyEnoughPacketsDo
<1> DEFINE holes == {i \in 1 .. DataPkts : out'[Len(out')][i] = None}
           promised == IF Cardinality(CamePlaces) >= DataPkts THEN {}
                       ELSE {i + 1 : i \in Rx!MissingData}
<1>1. LinkInv /\ [Next]_vars => (out' # out => holes = promised)
  <2> SUFFICES ASSUME LinkInv, [Next]_vars, out' # out  PROVE holes = promised
    OBVIOUS
  <2>0. ReceiverOK
    BY DEF LinkInv
  <2>1. PICK a \in Adapters : Hear(a)
    BY DEF Next, Send, TxReboot, Miss, vars, rxVars
  <2>2. out' = Append(out, Rx!Decoded)
    BY <2>1, Receive DEF Hear
  <2>3. out'[Len(out')] = Rx!Decoded
    BY <2>0, <2>2, DecodedType, AppendProperties DEF ReceiverOK
  <2>4. {i \in 1 .. DataPkts : Rx!Decoded[i] = None} = promised
    BY <2>0, Holes
  <2> QED
    BY <2>3, <2>4
<1> QED
  BY <1>1, LinkCorrect, PTL DEF Spec, AnyEnoughPacketsDo, CamePlaces

-----------------------------------------------------------------------------
(* Since its last start the sender has numbered the packets from 0, and    *)
(* nobody will hear a packet from before: c blocks were sent until then.   *)
Epoch(c) ==
  /\ c \in 0 .. TxP!Blocks
  /\ seqNr = Len(air) - Packets * c
  /\ \A n \in 1 .. Len(air) : n > Packets * c => air[n].seq = (n - 1) - Packets * c
  /\ \A a \in Adapters : \A n \in Ahead(a) : n > Packets * c

EpochInv == ~wrapped => \E c \in Nat : (restarts = 0 => c = 0) /\ Epoch(c)

LEMMA BlockCount ==
  ASSUME TxP!BaseInv
  PROVE  /\ TxP!Blocks \in Nat /\ Len(air) = Packets * TxP!Blocks
         /\ Len(air) \in Nat /\ Packets \in Nat \ {0}
<1>1. Packets \in Nat \ {0}
  BY SameLayout
<1>2. Len(air) \in Nat /\ Len(air) = Packets * TxP!Blocks
  BY AirOK DEF TxP!BaseInv, TxP!AirInv, Packets
<1>3. TxP!Blocks \in Nat
  BY <1>1, <1>2, DivMod DEF TxP!Blocks, Packets
<1> QED
  BY <1>1, <1>2, <1>3

(* The receiver finds the block and the place of a packet by its number.   *)
LEMMA Addressed ==
  ASSUME TxP!BaseInv, NEW c \in Nat, NEW n \in 1 .. Len(air), n > Packets * c,
         air[n].seq = (n - 1) - Packets * c
  PROVE  /\ c + Rx!BlockOf(air[n]) \in 0 .. TxP!Blocks - 1
         /\ c + Rx!BlockOf(air[n]) = (n - 1) \div Packets
         /\ Rx!BlockOf(air[n]) \in Nat
         /\ air[n].pos = Rx!PlaceOf(air[n])
         /\ air[n].block = TxP!Block(c + Rx!BlockOf(air[n]))
<1> DEFINE q == (n - 1) \div Packets
           r == (n - 1) % Packets
<1>1. /\ TxP!Blocks \in Nat /\ q \in 0 .. TxP!Blocks - 1 /\ r \in 0 .. Packets - 1
      /\ n = q * Packets + (r + 1)
  BY TxP!PlaceOnAir, SameLayout, SenderAssumption DEF TxP!BaseInv, Packets, TxP!Packets
<1>2. \A k \in 0 .. TxP!Blocks - 1, i \in 1 .. Packets :
        air[k * Packets + i].pos = i - 1 /\ air[k * Packets + i].block = TxP!Block(k)
  BY DEF TxP!BaseInv, TxP!AirInv, Packets
<1>3. Packets \in Nat \ {0} /\ Rx!Packets = Packets
  BY SameLayout
<1> HIDE DEF q, r
<1>4. r + 1 \in 1 .. Packets /\ (r + 1) - 1 = r
  BY <1>1, <1>3
<1>5. air[n].pos = r /\ air[n].block = TxP!Block(q)
  BY <1>1, <1>2, <1>4
<1>6. q >= c
  <2> SUFFICES ASSUME q < c  PROVE FALSE
    BY <1>1
  <2>1. q \in Nat /\ Packets * c >= Packets * q + Packets
    BY <1>1, <1>3, MulGap
  <2> QED
    BY <2>1, <1>1, <1>3
<1> DEFINE d == q - c
<1>7. d \in Nat /\ q = c + d
  BY <1>1, <1>6
<1> HIDE DEF d
<1>8. air[n].seq = Packets * d + r
  <2>1. Packets * q = Packets * c + Packets * d /\ q * Packets = Packets * q
    BY <1>3, <1>7
  <2> QED
    BY <2>1, <1>1, <1>3, <1>7
<1>9. Rx!BlockOf(air[n]) = d /\ Rx!PlaceOf(air[n]) = r
  BY <1>1, <1>3, <1>7, <1>8, QuotientUnique, RemainderUnique DEF Rx!BlockOf, Rx!PlaceOf
<1> QED
  BY <1>1, <1>5, <1>7, <1>9 DEF q

LEMMA AheadAfter ==
  ASSUME LinkInv, NEW a \in Adapters, Ahead(a) # {}, UNCHANGED air,
         heard' = [heard EXCEPT ![a] = First(Ahead(a))]
  PROVE  \A b \in Adapters : Ahead(b)' \subseteq Ahead(b)
<1> TAKE b \in Adapters
<1>1. heard \in [Adapters -> Nat] /\ First(Ahead(a)) \in Ahead(a) /\ Len(air) \in Nat
  BY AheadOnAir, AirOK DEF LinkInv, ReceiverOK
<1>2. heard[b] \in Nat /\ heard'[b] \in Nat /\ heard[b] <= heard'[b]
  BY <1>1 DEF Ahead
<1>3. ASSUME NEW n \in Ahead(b)'  PROVE n \in Ahead(b)
  <2>1. n \in heard'[b] + 1 .. Len(air) /\ air[n].cards > 0
    BY DEF Ahead
  <2>2. n \in heard[b] + 1 .. Len(air)
    BY <1>1, <1>2, <2>1
  <2> QED
    BY <2>1, <2>2 DEF Ahead
<1> QED
  BY <1>3

(* The number of a block that does not bring the number round to 0.        *)
LEMMA NoWrap ==
  ASSUME TxP!BaseInv, seqNr' = (seqNr + Packets) % SeqMod, ~(seqNr' < seqNr)
  PROVE  /\ seqNr' = seqNr + Packets
         /\ \A i \in 1 .. Packets : (seqNr + i - 1) % SeqMod = seqNr + i - 1
<1>1. seqNr \in 0 .. SeqMod - 1 /\ SeqMod \in Nat \ {0} /\ SeqMod > Packets /\ Packets \in Nat \ {0}
  BY SameLayout, SenderAssumption DEF TxP!BaseInv, TxP!TypeOK
<1>2. seqNr + Packets < SeqMod
  <2> SUFFICES ASSUME seqNr + Packets >= SeqMod  PROVE FALSE
    BY <1>1
  <2> DEFINE r == (seqNr + Packets) - SeqMod
  <2>1. r \in 0 .. SeqMod - 1 /\ seqNr + Packets = SeqMod * 1 + r /\ r < seqNr
    BY <1>1
  <2>2. (SeqMod * 1 + r) % SeqMod = r
    BY <2>1, <1>1, RemainderUnique
  <2> QED
    BY <2>1, <2>2
<1>3. ASSUME NEW m \in 0 .. SeqMod - 1  PROVE m % SeqMod = m
  <2>1. (SeqMod * 0 + m) % SeqMod = m
    BY <1>1, RemainderUnique
  <2> QED
    BY <2>1, <1>1
<1>4. \A i \in 1 .. Packets : seqNr + i - 1 \in 0 .. SeqMod - 1
  BY <1>1, <1>2
<1> QED
  BY <1>1, <1>2, <1>3, <1>4

LEMMA EpochSend ==
  ASSUME LinkInv, Send, ~wrapped', NEW c \in Nat, Epoch(c)
  PROVE  Epoch(c)'
<1>0. TxP!BaseInv /\ ~wrapped /\ ~(seqNr' < seqNr) /\ TxP!Next
  BY SameSender DEF LinkInv, Send
<1>1. CASE UNCHANGED <<air, seqNr>>
  <2>1. \A a \in Adapters : Ahead(a)' = Ahead(a)
    BY <1>1 DEF Send, Ahead
  <2> QED
    BY <1>1, <2>1 DEF Epoch, TxP!Blocks
<1>2. CASE TxP!Appended
  <2>0. /\ c \in 0 .. TxP!Blocks /\ seqNr = Len(air) - Packets * c
        /\ \A n \in 1 .. Len(air) : n > Packets * c => air[n].seq = (n - 1) - Packets * c
        /\ \A a \in Adapters : \A n \in Ahead(a) : n > Packets * c
    BY DEF Epoch
  <2>1. /\ TxP!Blocks' = TxP!Blocks + 1 /\ Len(air') = Len(air) + Packets
        /\ \A n \in 1 .. Len(air) : air'[n] = air[n]
        /\ \A i \in 1 .. Packets : air'[Len(air) + i].seq = (seqNr + i - 1) % SeqMod
        /\ seqNr' = (seqNr + Packets) % SeqMod
    BY <1>2 DEF TxP!Appended, Packets
  <2>2. /\ seqNr' = seqNr + Packets
        /\ \A i \in 1 .. Packets : (seqNr + i - 1) % SeqMod = seqNr + i - 1
    BY <1>0, <2>1, NoWrap
  <2> DEFINE l == Len(air)
             o == Packets * c
             b == TxP!Blocks
  <2>3. l \in Nat /\ o \in Nat /\ b \in Nat /\ Packets \in Nat \ {0} /\ l = Packets * b
    BY <1>0, BlockCount
  <2>4. o <= l /\ seqNr = l - o
    <3>1. c = b \/ c < b
      BY <2>0, <2>3
    <3>2. c < b => Packets * b >= Packets * c + Packets
      BY <2>3, MulGap
    <3> QED
      BY <2>0, <2>3, <3>1, <3>2
  <2> HIDE DEF l, o, b
  <2>5. c \in 0 .. TxP!Blocks' /\ seqNr' = Len(air') - Packets * c
    <3>1. Len(air') = l + Packets /\ TxP!Blocks' = b + 1 /\ c \in 0 .. b
      BY <2>0, <2>1 DEF l, b
    <3>2. seqNr' = (l - o) + Packets
      BY <2>2, <2>4
    <3> QED
      BY <2>3, <3>1, <3>2 DEF o
  <2>6. ASSUME NEW n \in 1 .. Len(air'), n > Packets * c
        PROVE  air'[n].seq = (n - 1) - Packets * c
    <3>1. n \in 1 .. l + Packets /\ n > o
      BY <2>1, <2>6 DEF l, o
    <3>2. CASE n <= l
      <4>1. n \in 1 .. l
        BY <2>3, <3>1, <3>2
      <4> QED
        BY <4>1, <2>0, <2>1, <2>6 DEF l
    <3>3. CASE n > l
      <4> DEFINE i == n - l
      <4>1. i \in 1 .. Packets /\ n = l + i
        BY <2>3, <3>1, <3>3
      <4> HIDE DEF i
      <4>2. air'[l + i].seq = seqNr + i - 1
        BY <4>1, <2>1, <2>2 DEF l
      <4>3. seqNr + i - 1 = ((l + i) - 1) - o
        BY <4>1, <2>3, <2>4
      <4> QED
        BY <4>1, <4>2, <4>3 DEF o
    <3> QED
      BY <3>1, <3>2, <3>3, <2>3
  <2>7. ASSUME NEW a \in Adapters, NEW n \in Ahead(a)'  PROVE n > Packets * c
    <3>1. n \in heard[a] + 1 .. l + Packets /\ air'[n].cards > 0 /\ heard[a] \in Nat
      BY <2>1 DEF Ahead, Send, l, LinkInv, ReceiverOK
    <3>2. CASE n <= l
      <4>1. n \in heard[a] + 1 .. l /\ n \in 1 .. l
        BY <2>3, <3>1, <3>2
      <4>2. n \in Ahead(a)
        BY <3>1, <4>1, <2>1 DEF Ahead, l
      <4> QED
        BY <4>2, <2>0
    <3>3. CASE n > l
      BY <2>3, <2>4, <3>1, <3>3 DEF o
    <3> QED
      BY <3>1, <3>2, <3>3, <2>3
  <2> QED
    BY <2>5, <2>6, <2>7 DEF Epoch
<1> QED
  BY <1>0, <1>1, <1>2, TxP!SendStep, SenderAssumption DEF TxP!Packets

LEMMA EpochHeard ==
  ASSUME LinkInv, NEW a \in Adapters, Hear(a) \/ Miss(a), NEW c \in Nat, Epoch(c)
  PROVE  Epoch(c)'
<1>1. UNCHANGED <<air, seqNr>>
  BY DEF Hear, Miss, txVars
<1>2. \A b \in Adapters : Ahead(b)' \subseteq Ahead(b)
  BY <1>1, AheadAfter DEF Hear, Miss
<1> QED
  BY <1>1, <1>2 DEF Epoch, TxP!Blocks

LEMMA EpochReboot ==
  ASSUME LinkInv, TxReboot, NEW c, c = TxP!Blocks
  PROVE  c \in Nat /\ Epoch(c)'
<1>1. /\ TxP!Blocks \in Nat /\ Len(air) = Packets * TxP!Blocks
      /\ Len(air) \in Nat /\ Packets \in Nat \ {0}
  BY BlockCount DEF LinkInv
<1>2. seqNr' = 0 /\ UNCHANGED <<air, heard>> /\ \A a \in Adapters : Ahead(a) = {}
  BY DEF TxReboot, Tx!Restart
<1>3. c \in 0 .. TxP!Blocks' /\ seqNr' = Len(air') - Packets * c
  <2>1. TxP!Blocks' = c
    BY <1>2 DEF TxP!Blocks
  <2> QED
    BY <1>1, <1>2, <2>1
<1>4. \A n \in 1 .. Len(air') : ~(n > Packets * c)
  BY <1>1, <1>2
<1>5. \A a \in Adapters : Ahead(a)' = {}
  BY <1>2 DEF Ahead
<1> QED
  BY <1>1, <1>3, <1>4, <1>5 DEF Epoch

LEMMA EpochInit == Init => EpochInv
<1> SUFFICES ASSUME Init  PROVE Epoch(0)
  BY DEF EpochInv
<1>1. Len(air) = 0 /\ seqNr = 0 /\ TxP!Blocks \in Nat /\ Packets \in Nat
  BY LinkInit, BlockCount DEF LinkInv, Init, Tx!Init
<1>2. \A a \in Adapters : Ahead(a) = {}
  BY <1>1 DEF Ahead, Init
<1> QED
  BY <1>1, <1>2 DEF Epoch

LEMMA EpochNext == LinkInv /\ EpochInv /\ [Next]_vars => EpochInv'
<1> SUFFICES ASSUME LinkInv, EpochInv, [Next]_vars, ~wrapped'
             PROVE  \E c \in Nat : (restarts' = 0 => c = 0) /\ Epoch(c)'
  BY DEF EpochInv
<1>1. ~wrapped /\ restarts \in Nat
  <2>1. restarts \in Nat
    BY DEF LinkInv, ReceiverOK
  <2>2. Send => ~wrapped
    BY Zenon DEF Send
  <2>3. TxReboot \/ (\E a \in Adapters : Hear(a) \/ Miss(a)) \/ UNCHANGED vars => wrapped' = wrapped
    BY DEF TxReboot, Hear, Miss, vars
  <2> QED
    BY <2>1, <2>2, <2>3 DEF Next
<1>2. PICK c \in Nat : (restarts = 0 => c = 0) /\ Epoch(c)
  BY <1>1 DEF EpochInv
<1>3. CASE Send
  BY <1>2, <1>3, EpochSend DEF Send
<1>4. CASE TxReboot
  <2> DEFINE d == TxP!Blocks
  <2>1. PICK e : e = d
    OBVIOUS
  <2>2. e \in Nat /\ Epoch(e)' /\ restarts' # 0
    BY <1>1, <1>4, <2>1, EpochReboot DEF TxReboot
  <2> QED
    BY <2>2
<1>5. ASSUME NEW a \in Adapters, Hear(a) \/ Miss(a)
      PROVE  \E d \in Nat : (restarts' = 0 => d = 0) /\ Epoch(d)'
  <2>1. Epoch(c)' /\ restarts' = restarts
    BY <1>2, <1>5, EpochHeard DEF Hear, Miss
  <2> QED
    BY <1>2, <2>1
<1>6. CASE UNCHANGED vars
  <2>1. Epoch(c)' /\ restarts' = restarts
    BY <1>2, <1>6 DEF Epoch, vars, txVars, Ahead, TxP!Blocks
  <2> QED
    BY <1>2, <2>1
<1> QED
  BY <1>3, <1>4, <1>5, <1>6 DEF Next

-----------------------------------------------------------------------------
(* The buffer holds packets of one block, each in its place.               *)
Pure(block) == \A pl \in Rx!Places :
                 slots[pl] # None => slots[pl].pos = pl /\ slots[pl].block = block

(* The packets put in to rebuild missing data: there is one at least.      *)
LEMMA SomeUsed == ~Rx!Failed => Rx!UsedPlaces # {}
<1> SUFFICES ASSUME ~Rx!Failed  PROVE Rx!UsedPlaces # {}
  OBVIOUS
<1> DEFINE N == 0 .. DataPkts - 1
           G == Rx!GoodParity
           M == Rx!MissingData
<1>1. M \subseteq N /\ G \subseteq 0 .. FecPkts - 1 /\ DataPkts \in Nat \ {0} /\ FecPkts \in Nat
  BY SenderAssumption DEF Rx!MissingData, Rx!GoodParity
<1>2. CASE M # N
  <2>1. PICK i \in N : i \notin M
    BY <1>1, <1>2
  <2>2. Rx!DataPos(i) \in Rx!UsedPlaces
    BY <2>1 DEF Rx!UsedPlaces
  <2> QED
    BY <2>2
<1>3. CASE M = N
  <2>1. Cardinality(M) = DataPkts /\ Cardinality(M) > 0
    <3>1. Cardinality(0 .. DataPkts - 1) = DataPkts
      BY <1>1, FS_Interval
    <3> QED
      BY <3>1, <1>1, <1>3
  <2>2. Cardinality(G) # 0
    <3>1. ~(Cardinality(M) > Cardinality(G)) /\ Cardinality(G) \in 0 .. FecPkts
      BY SameCount, Counting DEF Rx!Failed
    <3> QED
      BY <3>1, <2>1, <1>1
  <2>3. G # {}
    BY <2>2, FS_EmptySet
  <2>4. PICK k \in G : \A j \in G : k <= j
    <3>1. G \in SUBSET Nat
      BY <1>1
    <3> HIDE DEF G
    <3> QED
      BY <2>3, <3>1, Least
  <2>5. {j \in G : j < k} = {}
    <3>1. ASSUME NEW j \in G, j < k  PROVE FALSE
      <4>1. j \in Nat /\ k \in Nat
        BY <1>1
      <4> QED
        BY <4>1, <3>1, <2>4
    <3> QED
      BY <3>1
  <2>6. Rx!Cardinality({j \in G : j < k}) = 0
    BY <2>5, SameCount, FS_EmptySet
  <2>7. k \in Rx!UsedParity
    BY <2>1, <2>4, <2>6, SameCount DEF Rx!UsedParity
  <2>8. Rx!ParityPos(k) \in Rx!UsedPlaces
    BY <2>7 DEF Rx!UsedPlaces
  <2> QED
    BY <2>8
<1> QED
  BY <1>2, <1>3

(* The index of a data packet is found from its place.                     *)
LEMMA IndexOfPlace ==
  ASSUME NEW i \in 0 .. DataPkts - 1
  PROVE  Rx!IsData(Rx!DataPos(i)) /\ Rx!DataIndex(Rx!DataPos(i)) = i
<1>1. \A j \in 0 .. DataPkts - 1 : Rx!DataPos(j) = Rx!DataPos(i) => j = i
  BY Places
<1>2. Rx!IsData(Rx!DataPos(i))
  BY DEF Rx!IsData
<1> QED
  BY <1>1, <1>2 DEF Rx!DataIndex

(* A block closed with none but its own packets is passed on as it was     *)
(* sent, or with holes.                                                    *)
LEMMA DecodedPure ==
  ASSUME NEW block, Pure(block), NEW i \in 1 .. DataPkts
  PROVE  Rx!Decoded[i] \in {None, block[i]}
<1> DEFINE j == i - 1
<1>0. j \in 0 .. DataPkts - 1 /\ j + 1 = i
  BY SenderAssumption
<1>1. CASE j \notin Rx!MissingData
  <2> DEFINE n == Rx!DataPos(j)
  <2>1. n \in Rx!Places /\ slots[n] # None
    BY <1>0, <1>1, Places DEF Rx!MissingData, Rx!DataAt
  <2>2. slots[n].pos = n /\ slots[n].block = block
    BY <2>1 DEF Pure
  <2>3. Rx!IsData(n) /\ Rx!DataIndex(n) = j
    BY <1>0, IndexOfPlace
  <2> HIDE DEF n, j
  <2>4. Rx!Content(n) = block[i]
    BY <2>2, <2>3, <1>0 DEF Rx!Content
  <2> QED
    BY <2>4, <1>1 DEF Rx!Decoded, n, j
<1>2. CASE j \in Rx!MissingData /\ Rx!Failed
  BY <1>2 DEF Rx!Decoded
<1>3. CASE j \in Rx!MissingData /\ ~Rx!Failed
  <2>1. Rx!Cardinality(Rx!GoodParity) >= Rx!Cardinality(Rx!MissingData)
    <3>1. /\ Cardinality(Rx!GoodParity) \in Nat /\ Cardinality(Rx!MissingData) \in Nat
      BY Counting, SenderAssumption
    <3> QED
      BY <1>3, <3>1, SameCount DEF Rx!Failed
  <2>2. Rx!UsedPlaces # {}
    BY <1>3, SomeUsed
  <2>3. \A m \in Rx!UsedPlaces : slots[m].pos = m /\ slots[m].block = block
    BY UsedThere DEF Pure
  <2> DEFINE u == CHOOSE n \in Rx!UsedPlaces : TRUE
  <2>4. u \in Rx!UsedPlaces
    BY <2>2
  <2>5. Rx!Rebuilt(j) = slots[u].block[j + 1]
    BY <2>1, <2>2, <2>3 DEF Rx!Rebuilt
  <2> HIDE DEF u, j
  <2>6. Rx!Rebuilt(j) = block[i]
    BY <2>3, <2>4, <2>5, <1>0
  <2> QED
    BY <2>6, <1>3 DEF Rx!Decoded, j
<1> QED
  BY <1>1, <1>2, <1>3

(* A packet that opens the buffer, or comes to the block in it, belongs    *)
(* there: the buffer holds packets of one block.                           *)
LEMMA OpenPure ==
  ASSUME LinkInv, NEW c \in Nat, Epoch(c), NEW a \in Adapters, NEW n \in Ahead(a),
         n \in 1 .. Len(air), Rx!Open(air[n]), UNCHANGED air
  PROVE  /\ blockNum' = Rx!BlockOf(air[n]) /\ blockNum' \in Nat
         /\ c + blockNum' \in 0 .. TxP!Blocks - 1
         /\ c + blockNum' = (n - 1) \div Packets
         /\ Pure(TxP!Block(c + blockNum))'
<1> DEFINE p == air[n]
<1>1. n > Packets * c /\ p.seq = (n - 1) - Packets * c
  BY DEF Epoch
<1>2. /\ c + Rx!BlockOf(p) \in 0 .. TxP!Blocks - 1 /\ Rx!BlockOf(p) \in Nat
      /\ c + Rx!BlockOf(p) = (n - 1) \div Packets
      /\ p.pos = Rx!PlaceOf(p) /\ p.block = TxP!Block(c + Rx!BlockOf(p))
  BY <1>1, Addressed DEF LinkInv
<1>3. blockNum' = Rx!BlockOf(p) /\ slots' = [Rx!Empty EXCEPT ![Rx!PlaceOf(p)] = p]
  BY DEF Rx!Open
<1>4. TxP!Block(c + blockNum)' = p.block
  BY <1>2, <1>3 DEF TxP!Block
<1>5. \A pl \in Rx!Places : slots'[pl] # None => slots'[pl] = p /\ pl = Rx!PlaceOf(p)
  BY <1>3 DEF Rx!Empty
<1> HIDE DEF p
<1>6. Pure(TxP!Block(c + blockNum))'
  BY <1>2, <1>4, <1>5 DEF Pure
<1> QED
  BY <1>2, <1>3, <1>6 DEF p

LEMMA KeepPure ==
  ASSUME LinkInv, NEW c \in Nat, Epoch(c), NEW a \in Adapters, NEW n \in Ahead(a),
         n \in 1 .. Len(air), Rx!Keep(air[n]), UNCHANGED air, Pure(TxP!Block(c + blockNum))
  PROVE  Pure(TxP!Block(c + blockNum))'
<1> DEFINE p == air[n]
           blk == TxP!Block(c + blockNum)
<1>1. n > Packets * c /\ p.seq = (n - 1) - Packets * c
  BY DEF Epoch
<1>2. p.pos = Rx!PlaceOf(p) /\ p.block = TxP!Block(c + Rx!BlockOf(p))
  BY <1>1, Addressed DEF LinkInv
<1>3. /\ blockNum' = blockNum
      /\ slots' = IF Rx!BlockOf(p) = blockNum /\ slots[Rx!PlaceOf(p)] = None
                  THEN [slots EXCEPT ![Rx!PlaceOf(p)] = p] ELSE slots
  BY DEF Rx!Keep
<1>4. TxP!Block(c + blockNum)' = blk
  BY <1>3 DEF TxP!Block
<1>5. Rx!BlockOf(p) = blockNum => p.block = blk
  BY <1>2
<1>6. slots \in [Rx!Places -> {None} \cup Packet]
  BY DEF LinkInv, ReceiverOK
<1>7. \A pl \in Rx!Places : slots[pl] # None => slots[pl].pos = pl /\ slots[pl].block = blk
  BY DEF Pure
<1> HIDE DEF p, blk
<1>8. ASSUME NEW pl \in Rx!Places, slots'[pl] # None
      PROVE  slots'[pl].pos = pl /\ slots'[pl].block = blk
  <2>1. CASE slots'[pl] = slots[pl]
    BY <1>7, <1>8, <2>1
  <2>2. CASE slots'[pl] # slots[pl]
    <3>1. pl = Rx!PlaceOf(p) /\ slots'[pl] = p /\ Rx!BlockOf(p) = blockNum
      BY <1>3, <1>6, <2>2
    <3> QED
      BY <3>1, <1>2, <1>5
  <2> QED
    BY <2>1, <2>2
<1> QED
  BY <1>4, <1>8 DEF Pure

-----------------------------------------------------------------------------
(* In the first run of the sender the receiver collects a block that was   *)
(* sent and holds nothing else.                                            *)
FirstRun == restarts = 0 /\ ~wrapped

HandInv == FirstRun => /\ blockNum < TxP!Blocks
                       /\ blockNum # -1 => Pure(TxP!Block(blockNum))

LEMMA FirstEpoch == LinkInv /\ EpochInv /\ FirstRun => Epoch(0)
  BY DEF EpochInv, FirstRun

LEMMA FirstBefore == LinkInv /\ [Next]_vars /\ FirstRun' => FirstRun /\ ~TxReboot
<1> SUFFICES ASSUME LinkInv, [Next]_vars, restarts' = 0, ~wrapped'
             PROVE  restarts = 0 /\ ~wrapped /\ ~TxReboot
  BY DEF FirstRun
<1>0. restarts \in Nat
  BY DEF LinkInv, ReceiverOK
<1>1. Send => ~wrapped
  BY Zenon DEF Send
<1>2. TxReboot \/ (\E a \in Adapters : Hear(a) \/ Miss(a)) \/ UNCHANGED vars => wrapped' = wrapped
  BY DEF TxReboot, Hear, Miss, vars
<1>3. ~TxReboot
  BY <1>0 DEF TxReboot
<1>4. restarts = 0
  BY <1>3 DEF Next, Send, Hear, Miss, vars
<1> QED
  BY <1>1, <1>2, <1>3, <1>4 DEF Next

LEMMA HandNext == LinkInv /\ EpochInv /\ HandInv /\ [Next]_vars => HandInv'
<1> SUFFICES ASSUME LinkInv, EpochInv, HandInv, [Next]_vars, FirstRun'
             PROVE  blockNum' < TxP!Blocks' /\ (blockNum' # -1 => Pure(TxP!Block(blockNum))')
  BY DEF HandInv
<1>1. FirstRun /\ ~TxReboot /\ Epoch(0)
  BY FirstBefore, FirstEpoch
<1>2. /\ blockNum < TxP!Blocks /\ (blockNum # -1 => Pure(TxP!Block(blockNum)))
      /\ blockNum \in Nat \cup {-1} /\ TxP!Blocks \in Nat
  BY <1>1, BlockCount DEF HandInv, LinkInv, ReceiverOK
<1>3. ASSUME UNCHANGED <<air, blockNum, slots>>
      PROVE  blockNum' < TxP!Blocks' /\ (blockNum' # -1 => Pure(TxP!Block(blockNum))')
  BY <1>2, <1>3 DEF Pure, TxP!Block, TxP!Blocks
<1>4. CASE Send
  <2>1. TxP!Appended \/ UNCHANGED <<air, seqNr>>
    BY <1>4, SameSender, TxP!SendStep, SenderAssumption DEF TxP!Packets, Send, LinkInv
  <2>2. UNCHANGED <<blockNum, slots>>
    BY <1>4 DEF Send, rxVars
  <2>3. CASE TxP!Appended
    <3>1. TxP!Blocks' = TxP!Blocks + 1
          /\ \A k \in 0 .. TxP!Blocks - 1 : TxP!Block(k)' = TxP!Block(k)
      BY <2>3 DEF TxP!Appended
    <3>2. blockNum # -1 => blockNum \in 0 .. TxP!Blocks - 1
      BY <1>2
    <3>3. blockNum' # -1 => TxP!Block(blockNum)' = TxP!Block(blockNum)
      BY <2>2, <3>1, <3>2 DEF TxP!Block
    <3> QED
      BY <1>2, <2>2, <3>1, <3>3 DEF Pure
  <2> QED
    BY <1>3, <2>1, <2>2, <2>3
<1>5. ASSUME NEW a \in Adapters, Hear(a)
      PROVE  blockNum' < TxP!Blocks' /\ (blockNum' # -1 => Pure(TxP!Block(blockNum))')
  <2>1. PICK n \in Ahead(a) : n \in 1 .. Len(air) /\ Rx!Process(air[n])
    BY <1>5, HearStep
  <2>2. UNCHANGED air
    BY <1>5 DEF Hear, txVars
  <2>0. \A k \in Nat \cup {-1} : 0 + k = k
    OBVIOUS
  <2>3. CASE Rx!Open(air[n])
    <3>1. blockNum' \in Nat /\ 0 + blockNum' \in 0 .. TxP!Blocks - 1
          /\ Pure(TxP!Block(0 + blockNum))'
      BY <1>1, <2>1, <2>2, <2>3, OpenPure
    <3>2. TxP!Blocks' = TxP!Blocks /\ TxP!Block(0 + blockNum)' = TxP!Block(blockNum)'
      BY <2>0, <2>2, <3>1 DEF TxP!Blocks, TxP!Block
    <3>3. blockNum' < TxP!Blocks'
      <4>1. 0 + blockNum' = blockNum'
        BY <3>1, <2>0
      <4>2. blockNum' \in 0 .. TxP!Blocks - 1
        BY <3>1, <4>1, Zenon
      <4>3. blockNum' < TxP!Blocks
        BY <1>2, <4>2
      <4> QED
        BY <3>2, <4>3, Zenon
    <3>4. Pure(TxP!Block(blockNum))'
      BY <3>1, <3>2 DEF Pure
    <3> QED
      BY <3>3, <3>4
  <2>4. CASE Rx!Keep(air[n]) /\ blockNum # -1
    <3>1. TxP!Block(0 + blockNum) = TxP!Block(blockNum) /\ blockNum' = blockNum
      BY <1>2, <2>0, <2>4 DEF Rx!Keep
    <3>2. Pure(TxP!Block(0 + blockNum))
      BY <1>2, <2>4, <3>1
    <3>3. Pure(TxP!Block(0 + blockNum))'
      BY <1>1, <2>1, <2>2, <2>4, <3>2, KeepPure
    <3>4. TxP!Blocks' = TxP!Blocks /\ TxP!Block(0 + blockNum)' = TxP!Block(blockNum)'
      BY <1>2, <2>0, <2>2, <3>1 DEF TxP!Blocks, TxP!Block
    <3> QED
      BY <1>2, <3>1, <3>3, <3>4 DEF Pure
  <2>5. CASE Rx!Keep(air[n]) /\ blockNum = -1
    BY <1>2, <2>2, <2>5 DEF Rx!Keep, TxP!Blocks
  <2> QED
    BY <2>1, <2>3, <2>4, <2>5 DEF Rx!Process
<1>6. (\E a \in Adapters : Miss(a)) \/ UNCHANGED vars => UNCHANGED <<air, blockNum, slots>>
  BY DEF Miss, vars, txVars, rxVars
<1> QED
  BY <1>1, <1>3, <1>4, <1>5, <1>6 DEF Next

-----------------------------------------------------------------------------
(* The link implements LossyFifo: the blocks sent, seen as a sequence.     *)
SentBlocks == [k \in 1 .. Tx!Blocks |-> Tx!Block(k - 1)]

LEMMA SameBlocks == Tx!Blocks = TxP!Blocks /\ \A k : Tx!Block(k) = TxP!Block(k)
<1>1. Tx!Packets = TxP!Packets
  BY SameLayout DEF Packets
<1> QED
  BY <1>1 DEF Tx!Blocks, TxP!Blocks, Tx!Block, TxP!Block

SentOK == /\ SentBlocks \in Seq([1 .. DataPkts -> Span]) /\ Len(SentBlocks) = TxP!Blocks
          /\ \A k \in 1 .. TxP!Blocks : SentBlocks[k] = TxP!Block(k - 1)

LEMMA SentSeq == TxP!BaseInv => SentOK
<1> SUFFICES ASSUME TxP!BaseInv  PROVE SentOK
  OBVIOUS
<1>1. /\ TxP!Blocks \in Nat /\ air \in Seq(Packet) /\ Packets \in Nat \ {0}
      /\ Packets = TxP!Packets
  BY BlockCount, AirOK DEF Packets
<1>2. \A k \in 1 .. TxP!Blocks : TxP!Block(k - 1) \in [1 .. DataPkts -> Span]
  <2> TAKE k \in 1 .. TxP!Blocks
  <2>1. k - 1 \in 0 .. TxP!Blocks - 1 /\ 1 \in 1 .. TxP!Packets
    BY <1>1
  <2> DEFINE n == (k - 1) * TxP!Packets + 1
  <2>2. n \in 1 .. Len(air)
    BY <2>1, TxP!OnAir, SenderAssumption DEF TxP!BaseInv, TxP!Packets
  <2> HIDE DEF n
  <2>3. air[n] \in Packet
    BY <1>1, <2>2, ElementOfSeq
  <2>4. air[n].block \in [1 .. DataPkts -> Span]
    BY <2>3 DEF Packet, TxP!Packet, TxP!Span, Span
  <2> QED
    BY <2>4 DEF n, TxP!Block
<1>3. SentBlocks = [k \in 1 .. TxP!Blocks |-> TxP!Block(k - 1)]
  BY SameBlocks DEF SentBlocks
<1> DEFINE b == TxP!Blocks
           S == [1 .. DataPkts -> Span]
<1> HIDE DEF b, S
<1>4. SentBlocks \in [1 .. b -> S] /\ b \in Nat
  BY <1>1, <1>2, <1>3 DEF b, S
<1>5. SentBlocks \in Seq(S) /\ Len(SentBlocks) = b
  BY <1>4, LenProperties
<1> QED
  BY <1>3, <1>5 DEF b, S, SentOK


LEMMA SentSeqNext == TxP!BaseInv' => SentOK'
  BY SentSeq, PTL

LEMMA Broadcasts ==
  ASSUME LinkInv, LinkInv', TxP!Appended, UNCHANGED rxVars, FirstRun, FirstRun'
  PROVE  Fifo!Broadcast
<1> DEFINE S == [1 .. DataPkts -> Span]
           b == TxP!Blocks
<1>1. /\ b \in Nat /\ SentBlocks \in Seq(S) /\ Len(SentBlocks) = b
      /\ \A k \in 1 .. b : SentBlocks[k] = TxP!Block(k - 1)
  BY SentSeq, BlockCount DEF LinkInv, SentOK
<1>2. TxP!Blocks' = b + 1 /\ \A k \in 0 .. b - 1 : TxP!Block(k)' = TxP!Block(k)
  BY DEF TxP!Appended
<1>3. /\ SentBlocks' \in Seq(S) /\ Len(SentBlocks') = b + 1
      /\ \A k \in 1 .. b + 1 : SentBlocks'[k] = TxP!Block(k - 1)'
  BY <1>2, SentSeqNext DEF LinkInv, SentOK
<1>4. \A k \in 1 .. b : SentBlocks'[k] = SentBlocks[k]
  <2> TAKE k \in 1 .. b
  <2>1. k \in 1 .. b + 1 /\ k - 1 \in 0 .. b - 1
    BY <1>1
  <2> QED
    BY <2>1, <1>1, <1>2, <1>3
<1> HIDE DEF S, b
<1>5. SubSeq(SentBlocks', 1, b) = SentBlocks
  <2>1. \A k \in 1 .. b : SentBlocks'[k] \in S
    BY <1>1, <1>4, ElementOfSeq
  <2>2. /\ SubSeq(SentBlocks', 1, b) \in Seq(S)
        /\ Len(SubSeq(SentBlocks', 1, b)) = IF 1 <= b THEN b - 1 + 1 ELSE 0
        /\ \A k \in 1 .. b - 1 + 1 : SubSeq(SentBlocks', 1, b)[k] = SentBlocks'[1 + k - 1]
    BY <1>1, <2>1, SubSeqProperties
  <2>3. Len(SubSeq(SentBlocks', 1, b)) = b
        /\ \A k \in 1 .. b : SubSeq(SentBlocks', 1, b)[k] = SentBlocks'[k]
    BY <1>1, <2>2
  <2> QED
    BY <1>1, <1>4, <2>2, <2>3, SeqEqual
<1> QED
  BY <1>1, <1>3, <1>5 DEF Fifo!Broadcast, SentBlocks, FirstRun, rxVars

LEMMA PassesOn ==
  ASSUME LinkInv, EpochInv, HandInv, NEW a \in Adapters, Hear(a), FirstRun, FirstRun'
  PROVE  \/ Fifo!Advance \/ Fifo!GoBack
         \/ UNCHANGED <<SentBlocks, blockNum, out>>
<1>0. /\ Epoch(0) /\ ReceiverOK /\ UNCHANGED air
      /\ blockNum \in Nat \cup {-1} /\ maxBlock = blockNum /\ RestartGap \in Nat
  BY FirstEpoch, LinkAssumption DEF Hear, txVars, LinkInv, ReceiverOK
<1>1. PICK n \in Ahead(a) : n \in 1 .. Len(air) /\ Rx!Process(air[n])
  BY HearStep
<1>2. SentBlocks' = SentBlocks /\ TxP!Blocks' = TxP!Blocks
  BY <1>0 DEF SentBlocks, Tx!Blocks, Tx!Block, TxP!Blocks
<1>3. /\ Len(SentBlocks) = TxP!Blocks /\ TxP!Blocks \in Nat
      /\ \A k \in 1 .. TxP!Blocks : SentBlocks[k] = TxP!Block(k - 1)
  BY SentSeq, BlockCount DEF LinkInv, SentOK
<1>4. CASE Rx!Keep(air[n])
  BY <1>2, <1>4 DEF Rx!Keep
<1>5. CASE Rx!Open(air[n]) /\ Rx!Opens(air[n])
  <2> DEFINE h == Rx!BlockOf(air[n])
             b == TxP!Blocks
  <2>1. blockNum' = h /\ h \in Nat /\ 0 + h \in 0 .. b - 1
    BY <1>0, <1>1, <1>5, OpenPure
  <2>2. 0 + h = h
    <3> HIDE DEF h
    <3> QED
      BY <2>1
  <2>3. h \in 0 .. b - 1
    BY <2>1, <2>2, Zenon
  <2>4. h > blockNum \/ h + RestartGap < blockNum
    BY <1>0, <1>5 DEF Rx!Opens, Rx!TxRestart
  <2>5. CASE h > blockNum
    <3>1. ~(h + RestartGap < blockNum)
      <4> HIDE DEF h
      <4> QED
        BY <2>1, <2>5, <1>0
    <3>2. IF blockNum = -1 THEN out' = out ELSE out' = Append(out, Rx!Decoded)
      BY <1>0, <1>5, <3>1 DEF Rx!Open, Rx!TxRestart
    <3>3. h \in blockNum + 1 .. b - 1
      <4> HIDE DEF h, b
      <4> QED
        BY <1>0, <2>3, <2>5
    <3>4. CASE blockNum = -1
      BY <1>2, <1>3, <2>1, <3>2, <3>3, <3>4
      DEF Fifo!Advance, SentBlocks, FirstRun
    <3>5. CASE blockNum # -1
      <4> DEFINE blk == SentBlocks[blockNum + 1]
      <4>1. blk = TxP!Block(blockNum) /\ Pure(TxP!Block(blockNum))
        <5>1. blockNum + 1 \in 1 .. TxP!Blocks /\ (blockNum + 1) - 1 = blockNum
          BY <1>0, <1>3, <3>5 DEF HandInv
        <5> QED
          BY <5>1, <1>3, <3>5 DEF HandInv
      <4>2. Pure(blk)
        BY <4>1
      <4> HIDE DEF blk
      <4>3. \A i \in 1 .. DataPkts : Rx!Decoded[i] \in {None, blk[i]}
        BY <4>2, DecodedPure
      <4>4. Rx!Decoded = [i \in 1 .. DataPkts |-> Rx!Decoded[i]]
        BY DEF Rx!Decoded
      <4>5. Rx!Decoded \in Fifo!Damaged(blk)
        BY <4>3, <4>4 DEF Fifo!Damaged
      <4>6. blockNum' \in blockNum + 1 .. Len(SentBlocks) - 1 /\ out' = Append(out, Rx!Decoded)
        BY <1>3, <2>1, <3>2, <3>3, <3>5
      <4> QED
        BY <1>2, <3>5, <4>5, <4>6 DEF Fifo!Advance, SentBlocks, FirstRun, blk
    <3> QED
      BY <3>4, <3>5
  <2>6. CASE h + RestartGap < blockNum
    <3>1. out' = out
      BY <1>0, <1>5, <2>6 DEF Rx!Open, Rx!TxRestart
    <3>2. blockNum' \in 0 .. Len(SentBlocks) - 1 /\ blockNum' + RestartGap < blockNum
      BY <1>3, <2>1, <2>3, <2>6
    <3> QED
      BY <1>2, <3>1, <3>2 DEF Fifo!GoBack, SentBlocks, FirstRun
  <2> QED
    BY <2>4, <2>5, <2>6
<1> QED
  BY <1>1, <1>4, <1>5 DEF Rx!Process

LEMMA HandInit == Init => HandInv
  BY LinkInit, BlockCount DEF HandInv, LinkInv, Init, Rx!Init

(* For every block layout, RestartGap, number of adapters, loss and        *)
(* interleaving: in the first run of the sender the player gets the blocks *)
(* in the order they were sent, each at most once, with nothing in them    *)
(* that was not sent in that place.                                        *)
THEOREM LinkImplementsFifo == Spec => Implements
<1>1. Init => Fifo!Init
  <2> SUFFICES ASSUME Init  PROVE Fifo!Init
    OBVIOUS
  <2>1. Len(air) = 0 /\ TxP!BaseInv
    BY LinkInit DEF Init, Tx!Init, LinkInv
  <2>2. Len(SentBlocks) = 0 /\ SentBlocks \in Seq([1 .. DataPkts -> Span])
    <3>1. TxP!Blocks = 0
      BY <2>1, BlockCount, LinkInit DEF LinkInv
    <3> QED
      BY <2>1, <3>1, SentSeq DEF SentOK
  <2>3. SentBlocks = <<>>
    BY <2>2, EmptySeq
  <2> QED
    BY <2>3 DEF Fifo!Init, SentBlocks, Init, Rx!Init
<1>2. LinkInv /\ LinkInv' /\ EpochInv /\ HandInv /\ [Next]_vars => [Fifo!Next]_(Fifo!vars)
  <2> SUFFICES ASSUME LinkInv, LinkInv', EpochInv, HandInv, [Next]_vars
               PROVE  Fifo!Next \/ UNCHANGED Fifo!vars
    BY Zenon
  <2>1. CASE ~FirstRun'
    BY <2>1 DEF Fifo!Next, FirstRun
  <2>2. CASE FirstRun'
    <3>1. FirstRun /\ ~TxReboot
      BY <2>2, FirstBefore
    <3>2. ASSUME UNCHANGED <<SentBlocks, blockNum, out>>  PROVE UNCHANGED Fifo!vars
      BY <2>2, <3>1, <3>2 DEF Fifo!vars, SentBlocks, FirstRun
    <3>3. CASE Send
      <4>1. TxP!Appended \/ UNCHANGED air
        BY <3>3, SameSender, TxP!SendStep, SenderAssumption DEF TxP!Packets, Send, LinkInv
      <4>2. CASE TxP!Appended
        <5>1. Fifo!Broadcast
          BY <2>2, <3>1, <3>3, <4>2, Broadcasts DEF Send
        <5> QED
          BY <2>2, <3>1, <5>1 DEF Fifo!Next, FirstRun
      <4>3. CASE UNCHANGED air
        BY <3>2, <3>3, <4>3 DEF Send, rxVars, SentBlocks, Tx!Blocks, Tx!Block
      <4> QED
        BY <4>1, <4>2, <4>3
    <3>4. ASSUME NEW a \in Adapters, Hear(a)  PROVE Fifo!Next \/ UNCHANGED Fifo!vars
      <4>1. Fifo!Advance \/ Fifo!GoBack \/ UNCHANGED <<SentBlocks, blockNum, out>>
        BY <2>2, <3>1, <3>4, PassesOn
      <4> QED
        BY <2>2, <3>1, <3>2, <4>1 DEF Fifo!Next, FirstRun
    <3>5. (\E a \in Adapters : Miss(a)) \/ UNCHANGED vars => UNCHANGED <<SentBlocks, blockNum, out>>
      BY DEF Miss, vars, txVars, rxVars, SentBlocks, Tx!Blocks, Tx!Block
    <3> QED
      BY <3>1, <3>2, <3>3, <3>4, <3>5 DEF Next
  <2> QED
    BY <2>1, <2>2
<1> QED
  BY <1>1, <1>2, LinkInit, LinkNext, EpochInit, EpochNext, HandInit, HandNext, PTL
  DEF Spec, Implements, Fifo!Spec

-----------------------------------------------------------------------------
(* What a restart can spoil: spoilt are the places in out of blocks that   *)
(* are no block sent, from tells for the others which block they are.      *)
OneAdapter == \A a, b \in Adapters : a = b

PassedOn(spoilt, from) ==
  /\ spoilt \in SUBSET (1 .. Len(out))
  /\ from \in [(1 .. Len(out)) \ spoilt -> 0 .. TxP!Blocks - 1]
  /\ \A n \in (1 .. Len(out)) \ spoilt :
       /\ \A i \in 1 .. DataPkts : out[n][i] \in {None, TxP!Block(from[n])[i]}
       /\ OneAdapter => \A m \in (1 .. Len(out)) \ spoilt : m < n => from[m] < from[n]

Below(spoilt, from, k) == OneAdapter => \A n \in (1 .. Len(out)) \ spoilt : from[n] < k

(* The buffer holds a block of this run, and nothing else, and the adapter *)
(* is past its beginning; or no packet of this run has opened the buffer,  *)
(* and what is in it may be spoilt, by a restart that spoilt no other.     *)
Holding(c) ==
  /\ blockNum \in Nat /\ c + blockNum \in 0 .. TxP!Blocks - 1
  /\ Pure(TxP!Block(c + blockNum))
  /\ OneAdapter => \A a \in Adapters : heard[a] > Packets * (c + blockNum)

Mixed(c, spoilt, from) ==
  /\ blockNum \in Nat
  /\ Cardinality(spoilt) + 1 <= restarts
  /\ Below(spoilt, from, c)

SpoiltBy(c, spoilt, from) ==
  /\ Epoch(c)
  /\ PassedOn(spoilt, from) /\ Cardinality(spoilt) <= restarts
  /\ \/ blockNum = -1 /\ out = <<>>
     \/ Holding(c) /\ Below(spoilt, from, c + blockNum)
     \/ Mixed(c, spoilt, from)

SpoiltInv == ~wrapped => \E c \in Nat : \E spoilt, from : SpoiltBy(c, spoilt, from)

(* Blocks on the air stay what they are.                                   *)
BlocksKept == /\ TxP!Blocks \in Nat /\ TxP!Blocks' \in Nat /\ TxP!Blocks <= TxP!Blocks'
              /\ \A k \in 0 .. TxP!Blocks - 1 : TxP!Block(k)' = TxP!Block(k)

LEMMA BlocksStay == LinkInv /\ [Next]_vars => BlocksKept
<1> SUFFICES ASSUME LinkInv, [Next]_vars  PROVE BlocksKept
  OBVIOUS
<1>1. TxP!Blocks \in Nat
  BY BlockCount DEF LinkInv
<1>2. CASE UNCHANGED air
  BY <1>1, <1>2 DEF BlocksKept, TxP!Blocks, TxP!Block
<1>3. CASE Send
  <2>1. TxP!Appended \/ UNCHANGED air
    BY <1>3, SameSender, TxP!SendStep, SenderAssumption DEF TxP!Packets, Send, LinkInv
  <2> QED
    BY <1>1, <1>2, <2>1 DEF TxP!Appended, BlocksKept
<1>4. TxReboot \/ (\E a \in Adapters : Hear(a) \/ Miss(a)) \/ UNCHANGED vars => UNCHANGED air
  BY DEF TxReboot, Tx!Restart, Hear, Miss, vars, txVars
<1> QED
  BY <1>2, <1>3, <1>4 DEF Next

LEMMA PassedStays ==
  ASSUME BlocksKept, NEW spoilt, NEW from, PassedOn(spoilt, from), out' = out
  PROVE  PassedOn(spoilt, from)'
<1> DEFINE D == (1 .. Len(out)) \ spoilt
<1>1. from \in [D -> 0 .. TxP!Blocks - 1] /\ 0 .. TxP!Blocks - 1 \subseteq 0 .. TxP!Blocks' - 1
  <2>1. from \in [D -> 0 .. TxP!Blocks - 1]
    BY DEF PassedOn
  <2>2. 0 .. TxP!Blocks - 1 \subseteq 0 .. TxP!Blocks' - 1
    <3> DEFINE b == TxP!Blocks
               e == TxP!Blocks'
    <3>1. b \in Nat /\ e \in Nat /\ b <= e
      BY DEF BlocksKept
    <3> HIDE DEF b, e
    <3>2. 0 .. b - 1 \subseteq 0 .. e - 1
      BY <3>1
    <3> QED
      BY <3>2 DEF b, e
  <2> QED
    BY <2>1, <2>2
<1>2. from \in [D -> 0 .. TxP!Blocks' - 1]
  BY <1>1
<1>3. \A n \in D : TxP!Block(from[n])' = TxP!Block(from[n])
  <2> TAKE n \in D
  <2>1. from[n] \in 0 .. TxP!Blocks - 1
    BY <1>1
  <2> QED
    BY <2>1 DEF BlocksKept, TxP!Block
<1> QED
  BY <1>2, <1>3 DEF PassedOn

(* One more block is passed on: block k, or a spoilt one.                  *)
LEMMA BlockMore ==
  ASSUME LinkInv, UNCHANGED air, NEW spoilt, NEW from, PassedOn(spoilt, from),
         NEW k \in 0 .. TxP!Blocks - 1, Below(spoilt, from, k), NEW d, NEW T,
         out \in Seq(T), d \in T,
         out' = Append(out, d), \A i \in 1 .. DataPkts : d[i] \in {None, TxP!Block(k)[i]}
  PROVE  \E f : PassedOn(spoilt, f)' /\ \A j \in Nat : k < j => Below(spoilt, f, j)'
<1> DEFINE l == Len(out)
           D == (1 .. l) \ spoilt
           E == (1 .. l + 1) \ spoilt
           b == TxP!Blocks
           f == [n \in E |-> IF n = l + 1 THEN k ELSE from[n]]
<1>1. /\ l \in Nat /\ Len(out') = l + 1 /\ out'[l + 1] = d /\ \A n \in 1 .. l : out'[n] = out[n]
  BY AppendProperties
<1>2. /\ b \in Nat /\ TxP!Blocks' = b /\ \A j : TxP!Block(j)' = TxP!Block(j)
  BY BlockCount DEF TxP!Blocks, TxP!Block, LinkInv
<1>3. /\ spoilt \in SUBSET (1 .. l) /\ from \in [D -> 0 .. b - 1]
      /\ \A n \in D : \A i \in 1 .. DataPkts : out[n][i] \in {None, TxP!Block(from[n])[i]}
      /\ OneAdapter => \A n \in D, m \in D : m < n => from[m] < from[n]
      /\ OneAdapter => \A n \in D : from[n] < k
  BY DEF PassedOn, Below
<1> HIDE DEF l, b
<1>4. /\ l + 1 \in E /\ \A n \in E : n \in Nat /\ (n = l + 1 \/ (n \in D /\ n < l + 1))
      /\ \A n \in D : n \in E /\ n # l + 1
  BY <1>1, <1>3
<1>5. f \in [E -> 0 .. b - 1] /\ f[l + 1] = k /\ \A n \in D : f[n] = from[n]
  BY <1>3, <1>4 DEF b
<1> HIDE DEF D, E, f
<1>6. \A n \in E : \A i \in 1 .. DataPkts : out'[n][i] \in {None, TxP!Block(f[n])[i]}
  <2> TAKE n \in E
  <2>1. CASE n = l + 1
    <3>1. TxP!Block(f[n]) = TxP!Block(k) /\ out'[n] = d
      BY <1>1, <1>5, <2>1
    <3> QED
      BY <3>1
  <2>2. CASE n \in D
    <3>1. TxP!Block(f[n]) = TxP!Block(from[n]) /\ out'[n] = out[n]
      BY <1>1, <1>5, <2>2 DEF D
    <3> QED
      BY <1>3, <2>2, <3>1
  <2> QED
    BY <1>4, <2>1, <2>2
<1>7. ASSUME OneAdapter, NEW n \in E, NEW m \in E, m < n  PROVE f[m] < f[n]
  <2>1. m \in D
    BY <1>4, <1>7
  <2>2. CASE n \in D
    BY <1>3, <1>5, <1>7, <2>1, <2>2
  <2>3. CASE n = l + 1
    BY <1>3, <1>5, <1>7, <2>1, <2>3
  <2> QED
    BY <1>4, <2>2, <2>3
<1>8. ASSUME OneAdapter, NEW j \in Nat, k < j, NEW n \in E  PROVE f[n] < j
  <2>1. f[n] <= k /\ f[n] \in Nat /\ k \in Nat
    <3>1. f[n] \in 0 .. b - 1 /\ k \in 0 .. b - 1
      BY <1>5 DEF b
    <3>2. CASE n = l + 1
      BY <1>2, <1>5, <3>1, <3>2
    <3>3. CASE n \in D
      BY <1>2, <1>3, <1>5, <1>8, <3>1, <3>3
    <3> QED
      BY <1>4, <3>2, <3>3
  <2> QED
    BY <1>8, <2>1
<1>9. PICK g : g = f
  OBVIOUS
<1>10. (1 .. Len(out')) \ spoilt = E /\ spoilt \in SUBSET (1 .. Len(out'))
  BY <1>1, <1>3 DEF E
<1>11. PassedOn(spoilt, g)'
  <2>1. g \in [E -> 0 .. TxP!Blocks' - 1]
    BY <1>2, <1>5, <1>9
  <2>2. \A n \in E : \A i \in 1 .. DataPkts : out'[n][i] \in {None, TxP!Block(g[n])'[i]}
    <3>1. \A n \in E : TxP!Block(g[n])' = TxP!Block(f[n])
      BY <1>9, <1>2 DEF TxP!Block
    <3> QED
      BY <1>6, <3>1
  <2>3. OneAdapter => \A n \in E, m \in E : m < n => g[m] < g[n]
    BY <1>7, <1>9
  <2> QED
    BY <1>10, <2>1, <2>2, <2>3 DEF PassedOn
<1>12. \A j \in Nat : k < j => Below(spoilt, g, j)'
  BY <1>8, <1>9, <1>10 DEF Below
<1> QED
  BY <1>11, <1>12

LEMMA SpoiltMore ==
  ASSUME LinkInv, UNCHANGED air, NEW spoilt, NEW from, PassedOn(spoilt, from),
         NEW d, NEW T, out \in Seq(T), d \in T, out' = Append(out, d)
  PROVE  \E s : /\ PassedOn(s, from)' /\ Cardinality(s) <= Cardinality(spoilt) + 1
                /\ \A j : Below(spoilt, from, j) => Below(s, from, j)'
<1> DEFINE l == Len(out)
           D == (1 .. l) \ spoilt
           b == TxP!Blocks
<1>1. /\ l \in Nat /\ Len(out') = l + 1 /\ \A n \in 1 .. l : out'[n] = out[n]
  BY AppendProperties
<1>2. /\ TxP!Blocks' = b /\ \A j : TxP!Block(j)' = TxP!Block(j)
  BY DEF TxP!Blocks, TxP!Block
<1>3. /\ spoilt \in SUBSET (1 .. l) /\ from \in [D -> 0 .. b - 1]
      /\ \A n \in D : \A i \in 1 .. DataPkts : out[n][i] \in {None, TxP!Block(from[n])[i]}
      /\ OneAdapter => \A n \in D, m \in D : m < n => from[m] < from[n]
  BY DEF PassedOn
<1>4. PICK s : s = spoilt \cup {l + 1}
  OBVIOUS
<1>5. (1 .. Len(out')) \ s = D /\ s \in SUBSET (1 .. Len(out'))
  <2> HIDE DEF l
  <2> QED
    BY <1>1, <1>3, <1>4
<1>6. Cardinality(s) <= Cardinality(spoilt) + 1
  <2>1. IsFiniteSet(1 .. l)
    BY <1>1, FS_Interval
  <2> HIDE DEF l
  <2>2. IsFiniteSet(spoilt)
    BY <1>3, <2>1, FS_Subset
  <2>3. Cardinality(spoilt) \in Nat
    BY <2>2, FS_CardinalityType
  <2> QED
    <3>1. Cardinality(spoilt \cup {l + 1})
            = IF l + 1 \in spoilt THEN Cardinality(spoilt) ELSE Cardinality(spoilt) + 1
      BY <2>2, FS_AddElement
    <3> DEFINE e == Cardinality(spoilt)
    <3>2. Cardinality(s) = e \/ Cardinality(s) = e + 1
      BY <1>4, <3>1
    <3>3. e \in Nat
      BY <2>3
    <3> HIDE DEF e
    <3>4. Cardinality(s) <= e + 1
      BY <3>2, <3>3
    <3> QED
      BY <3>4 DEF e
<1>7. \A n \in D : out'[n] = out[n] /\ TxP!Block(from[n])' = TxP!Block(from[n])
  BY <1>1 DEF TxP!Block
<1>8. PassedOn(s, from)'
  BY <1>2, <1>3, <1>5, <1>7 DEF PassedOn
<1>9. \A j : Below(spoilt, from, j) => Below(s, from, j)'
  BY <1>5 DEF Below
<1> QED
  BY <1>6, <1>8, <1>9

LEMMA SpoiltInit == Init => SpoiltInv
<1> SUFFICES ASSUME Init  PROVE \E c \in Nat : \E spoilt, from : SpoiltBy(c, spoilt, from)
  BY DEF SpoiltInv
<1>1. PICK c \in Nat : Epoch(c)
  BY EpochInit DEF EpochInv, Init
<1>2. out = <<>> /\ blockNum = -1 /\ restarts = 0 /\ Len(out) = 0 /\ 1 .. 0 = {}
  BY DEF Init, Rx!Init
<1>3. PICK from : from = [n \in {} |-> 0]
  OBVIOUS
<1>4. PassedOn({}, from)
  BY <1>2, <1>3 DEF PassedOn
<1>5. SpoiltBy(c, {}, from)
  BY <1>1, <1>2, <1>4, FS_EmptySet DEF SpoiltBy
<1> QED
  BY <1>5

(* A packet of this run opens the buffer.                                  *)
LEMMA SpoiltOpen ==
  ASSUME LinkInv, LinkInv', NEW a \in Adapters, Hear(a), NEW n \in Ahead(a), n \in 1 .. Len(air),
         heard' = [heard EXCEPT ![a] = n],
         Rx!Open(air[n]), Rx!Opens(air[n]), NEW c \in Nat, NEW spoilt, NEW from,
         SpoiltBy(c, spoilt, from), BlocksKept
  PROVE  \E s, f : SpoiltBy(c, s, f)'
<1> DEFINE S == [1 .. DataPkts -> Pieces]
<1>0. /\ UNCHANGED <<air, restarts>> /\ Epoch(c) /\ restarts \in Nat /\ blockNum \in Nat \cup {-1}
      /\ maxBlock = blockNum /\ RestartGap \in Nat /\ heard \in [Adapters -> Nat]
      /\ Packets \in Nat \ {0}
  BY SameLayout, LinkAssumption DEF Hear, txVars, LinkInv, ReceiverOK, SpoiltBy
<1>a. /\ blockNum' = Rx!BlockOf(air[n]) /\ blockNum' \in Nat
      /\ c + blockNum' \in 0 .. TxP!Blocks - 1
      /\ c + blockNum' = (n - 1) \div Packets /\ Pure(TxP!Block(c + blockNum))'
  BY <1>0, OpenPure
<1>b. PICK h \in Nat : h = Rx!BlockOf(air[n])
  BY <1>a
<1>1. blockNum' = h /\ c + h \in 0 .. TxP!Blocks - 1 /\ c + h = (n - 1) \div Packets
  BY <1>a, <1>b
<1>2. Epoch(c)'
  BY <1>0, EpochHeard
<1>3. \A e \in Adapters : OneAdapter => e = a
  BY DEF OneAdapter
<1>4. n \in Nat /\ n > Packets * (c + h)
  <2> DEFINE q == (n - 1) \div Packets
  <2>1. n - 1 \in Nat
    OBVIOUS
  <2>2. q \in Nat /\ n - 1 = Packets * q + ((n - 1) % Packets) /\ (n - 1) % Packets \in 0 .. Packets - 1
    BY <1>0, <2>1, DivMod
  <2>3. q = c + h
    BY <1>1
  <2> HIDE DEF q
  <2>4. n - 1 >= Packets * q /\ Packets * q \in Nat
    BY <1>0, <2>1, <2>2
  <2> QED
    BY <2>1, <2>3, <2>4
<1>5. Holding(c)'
  <2>1. c + blockNum' \in 0 .. TxP!Blocks' - 1
    BY <1>0, <1>a DEF TxP!Blocks
  <2>2. OneAdapter => \A e \in Adapters : heard'[e] > Packets * (c + blockNum')
    BY <1>0, <1>1, <1>3, <1>4
  <2>3. OneAdapter' = OneAdapter /\ Packets' = Packets
    BY DEF OneAdapter, Packets, TxP!Packets
  <2> QED
    BY <1>a, <2>1, <2>2, <2>3 DEF Holding
<1>6. SUFFICES \E s, f : /\ PassedOn(s, f)' /\ Cardinality(s) <= restarts
                         /\ Below(s, f, c + h)'
  <2>1. PICK s, f : /\ PassedOn(s, f)' /\ Cardinality(s) <= restarts /\ Below(s, f, c + h)'
    BY <1>6
  <2>2. Below(s, f, c + blockNum)'
    BY <1>1, <2>1 DEF Below
  <2> QED
    BY <1>0, <1>2, <1>5, <2>1, <2>2 DEF SpoiltBy
<1>7. /\ PassedOn(spoilt, from) /\ Cardinality(spoilt) <= restarts
      /\ \/ blockNum = -1 /\ out = <<>>
         \/ Holding(c) /\ Below(spoilt, from, c + blockNum)
         \/ Mixed(c, spoilt, from)
  BY DEF SpoiltBy
<1>8. h > blockNum \/ h + RestartGap < blockNum
  BY <1>0, <1>b DEF Rx!Opens, Rx!TxRestart
<1>9. /\ out \in Seq(S) /\ Rx!Decoded \in S
  BY DecodedType DEF LinkInv, ReceiverOK
<1>10. CASE blockNum = -1 /\ out = <<>>
  <2>1. out' = out
    BY <1>0, <1>b, <1>10 DEF Rx!Open, Rx!TxRestart
  <2>2. PassedOn(spoilt, from)'
    BY <1>7, <2>1, PassedStays
  <2>3. Below(spoilt, from, c + h)'
    BY <1>10, <2>1 DEF Below
  <2> QED
    BY <1>7, <2>2, <2>3
<1>11. CASE Holding(c) /\ Below(spoilt, from, c + blockNum)
  <2>1. blockNum \in Nat /\ c + blockNum \in 0 .. TxP!Blocks - 1 /\ blockNum # -1
    BY <1>11 DEF Holding
  <2>2. CASE h > blockNum
    <3>1. ~(h + RestartGap < blockNum)
      BY <1>0, <1>1, <2>1, <2>2
    <3>2. out' = Append(out, Rx!Decoded)
      BY <1>0, <1>b, <2>1, <3>1 DEF Rx!Open, Rx!TxRestart
    <3>3. PICK k \in 0 .. TxP!Blocks - 1 : k = c + blockNum
      BY <2>1
    <3>4. \A i \in 1 .. DataPkts : Rx!Decoded[i] \in {None, TxP!Block(k)[i]}
      <4>1. Pure(TxP!Block(c + blockNum))
        BY <1>11 DEF Holding
      <4>2. PICK block : block = TxP!Block(c + blockNum)
        OBVIOUS
      <4>3. Pure(block)
        BY <4>1, <4>2
      <4> QED
        BY <3>3, <4>2, <4>3, DecodedPure
    <3>5. Below(spoilt, from, k)
      BY <1>11, <3>3
    <3> HIDE DEF S
    <3>6. PICK f : PassedOn(spoilt, f)' /\ \A j \in Nat : k < j => Below(spoilt, f, j)'
      BY <1>0, <1>7, <1>9, <3>2, <3>4, <3>5, BlockMore
    <3>7. PICK j \in Nat : j = c + h
      BY <1>1
    <3>8. k < j
      BY <1>1, <2>1, <2>2, <3>3, <3>7
    <3>9. Below(spoilt, f, c + h)'
      <4>1. Below(spoilt, f, j)'
        BY <3>6, <3>8
      <4> QED
        BY <1>1, <3>7, <4>1 DEF Below
    <3> QED
      BY <1>7, <3>6, <3>9
  <2>3. CASE h + RestartGap < blockNum
    <3>1. out' = out
      BY <1>0, <1>b, <2>3 DEF Rx!Open, Rx!TxRestart
    <3>2. PassedOn(spoilt, from)'
      BY <1>7, <3>1, PassedStays
    <3>3. ~OneAdapter
      <4> SUFFICES ASSUME OneAdapter  PROVE FALSE
        OBVIOUS
      <4>1. heard[a] > Packets * (c + blockNum) /\ n > heard[a] /\ heard[a] \in Nat
        BY <1>0, <1>11 DEF Holding, Ahead
      <4>2. h < blockNum
        BY <1>0, <1>1, <2>1, <2>3
      <4> DEFINE q == c + h
                 p == c + blockNum
                 t == heard[a]
                 r == (n - 1) % Packets
      <4>3. q \in Nat /\ p \in Nat /\ q < p
        BY <1>1, <2>1, <4>2
      <4>4. Packets * p >= Packets * q + Packets
        BY <1>0, <4>3, MulGap
      <4>5. n - 1 = Packets * q + r /\ r \in 0 .. Packets - 1
        <5>1. n - 1 \in Nat /\ (n - 1) \div Packets = q
          BY <1>1
        <5> HIDE DEF q
        <5> QED
          BY <1>0, <5>1, DivMod
      <4>6. t > Packets * p /\ n > t /\ t \in Nat
        BY <4>1
      <4>7. Packets * p \in Nat /\ Packets * q \in Nat
        BY <1>0, <4>3
      <4> HIDE DEF q, p, t, r
      <4> QED
        BY <1>0, <1>4, <4>4, <4>5, <4>6, <4>7
    <3>4. Below(spoilt, from, c + h)'
      BY <3>3 DEF Below, OneAdapter
    <3> QED
      BY <1>7, <3>2, <3>4
  <2> QED
    BY <1>8, <2>2, <2>3
<1>12. CASE Mixed(c, spoilt, from)
  <2>1. /\ blockNum \in Nat /\ blockNum # -1
        /\ Cardinality(spoilt) + 1 <= restarts /\ Below(spoilt, from, c)
    BY <1>12 DEF Mixed
  <2>2. ASSUME NEW s, PassedOn(s, from)', Below(s, from, c)'
        PROVE  Below(s, from, c + h)'
    <3> SUFFICES ASSUME OneAdapter', NEW m \in (1 .. Len(out')) \ s  PROVE from[m] < c + h
      BY DEF Below
    <3>1. from[m] \in 0 .. TxP!Blocks' - 1
      BY <2>2 DEF PassedOn
    <3>2. from[m] \in Nat
      BY <3>1 DEF BlocksKept
    <3>3. from[m] < c
      BY <2>2 DEF Below
    <3> QED
      BY <3>2, <3>3
  <2>3. CASE out' = out
    <3>1. PassedOn(spoilt, from)'
      BY <1>7, <2>3, PassedStays
    <3>2. Below(spoilt, from, c)'
      BY <2>1, <2>3 DEF Below, OneAdapter
    <3> QED
      BY <1>7, <2>2, <3>1, <3>2
  <2>4. CASE out' = Append(out, Rx!Decoded)
    <3> HIDE DEF S
    <3>1. PICK s : /\ PassedOn(s, from)' /\ Cardinality(s) <= Cardinality(spoilt) + 1
                   /\ \A j : Below(spoilt, from, j) => Below(s, from, j)'
      BY <1>0, <1>7, <1>9, <2>4, SpoiltMore
    <3>2. Below(s, from, c)'
      BY <2>1, <3>1
    <3>3. Cardinality(s) <= restarts
      <4>1. IsFiniteSet(s) /\ IsFiniteSet(spoilt)
        <5>1. s \in SUBSET (1 .. Len(out')) /\ spoilt \in SUBSET (1 .. Len(out))
          BY <1>7, <3>1 DEF PassedOn
        <5>2. Len(out) \in Int /\ Len(out') \in Int
          BY <1>9, <2>4, AppendProperties
        <5>3. IsFiniteSet(1 .. Len(out))
          BY <5>2, FS_Interval
        <5>4. IsFiniteSet(1 .. Len(out'))
          BY <5>2, FS_Interval
        <5> QED
          BY <5>1, <5>3, <5>4, FS_Subset
      <4>2. Cardinality(s) \in Nat /\ Cardinality(spoilt) \in Nat
        BY <4>1, FS_CardinalityType
      <4> QED
        BY <1>0, <2>1, <3>1, <4>2
    <3> QED
      BY <2>2, <3>1, <3>2, <3>3
  <2> QED
    BY <1>0, <2>1, <2>3, <2>4 DEF Rx!Open
<1> QED
  BY <1>7, <1>10, <1>11, <1>12

(* Another packet comes to the block in the buffer, or is ignored.         *)
LEMMA SpoiltKeep ==
  ASSUME LinkInv, LinkInv', NEW a \in Adapters, Hear(a), NEW n \in Ahead(a), n \in 1 .. Len(air),
         heard' = [heard EXCEPT ![a] = n],
         Rx!Keep(air[n]), NEW c \in Nat, NEW spoilt, NEW from,
         SpoiltBy(c, spoilt, from), BlocksKept
  PROVE  SpoiltBy(c, spoilt, from)'
<1>0. /\ UNCHANGED <<air, restarts, blockNum, out>> /\ Epoch(c)
      /\ heard \in [Adapters -> Nat] /\ n \in Nat /\ n > heard[a]
  BY DEF Hear, txVars, LinkInv, ReceiverOK, SpoiltBy, Rx!Keep, Ahead
<1>1. Epoch(c)' /\ PassedOn(spoilt, from)' /\ Cardinality(spoilt) <= restarts'
  BY <1>0, EpochHeard, PassedStays DEF SpoiltBy
<1>2. \A j : Below(spoilt, from, j)' = Below(spoilt, from, j)
  BY <1>0 DEF Below, OneAdapter
<1>3. CASE Holding(c) /\ Below(spoilt, from, c + blockNum)
  <2>1. Pure(TxP!Block(c + blockNum))'
    BY <1>0, <1>3, KeepPure DEF Holding
  <2>2. c + blockNum' \in 0 .. TxP!Blocks' - 1 /\ blockNum' \in Nat
    BY <1>0, <1>3 DEF TxP!Blocks, Holding
  <2>3. \A e \in Adapters : heard'[e] \in Nat /\ heard[e] \in Nat /\ heard'[e] >= heard[e]
    BY <1>0
  <2>4. OneAdapter' => \A e \in Adapters : heard'[e] > Packets * (c + blockNum')
    <3>1. PICK x : x = Packets * (c + blockNum)
      OBVIOUS
    <3>2. x \in Nat
      BY <1>3, <3>1, SameLayout DEF Holding
    <3>3. OneAdapter => \A e \in Adapters : heard[e] > x
      BY <1>3, <3>1 DEF Holding
    <3>4. OneAdapter => \A e \in Adapters : heard'[e] > x
      BY <2>3, <3>2, <3>3
    <3> QED
      BY <1>0, <3>1, <3>4 DEF OneAdapter
  <2>5. Below(spoilt, from, c + blockNum)'
    BY <1>0, <1>3 DEF Below, OneAdapter
  <2> QED
    BY <1>1, <2>1, <2>2, <2>4, <2>5 DEF SpoiltBy, Holding, Packets, TxP!Packets
<1>4. CASE Mixed(c, spoilt, from)
  BY <1>0, <1>1, <1>2, <1>4 DEF SpoiltBy, Mixed
<1>5. CASE blockNum = -1 /\ out = <<>>
  BY <1>0, <1>1, <1>5 DEF SpoiltBy
<1> QED
  BY <1>3, <1>4, <1>5 DEF SpoiltBy

LEMMA SpoiltReboot ==
  ASSUME LinkInv, TxReboot, NEW c \in Nat, NEW spoilt, NEW from,
         SpoiltBy(c, spoilt, from), BlocksKept
  PROVE  \E d \in Nat : SpoiltBy(d, spoilt, from)'
<1>1. PICK d : d = TxP!Blocks
  OBVIOUS
<1>2. d \in Nat /\ Epoch(d)'
  BY <1>1, EpochReboot
<1>3. /\ UNCHANGED <<blockNum, out>> /\ restarts' = restarts + 1 /\ restarts \in Nat
      /\ blockNum \in Nat \cup {-1}
  BY DEF TxReboot, rxVars, LinkInv, ReceiverOK
<1>4. PassedOn(spoilt, from)' /\ PassedOn(spoilt, from) /\ Cardinality(spoilt) <= restarts
  BY <1>3, PassedStays DEF SpoiltBy
<1>5. Cardinality(spoilt) \in Nat
  <2>1. Len(out) \in Int /\ 1 \in Int
    BY DEF LinkInv, ReceiverOK
  <2>2. IsFiniteSet(1 .. Len(out))
    BY <2>1, FS_Interval
  <2>3. IsFiniteSet(spoilt)
    BY <1>4, <2>2, FS_Subset DEF PassedOn
  <2> QED
    BY <2>3, FS_CardinalityType
<1>6. Cardinality(spoilt) + 1 <= restarts' /\ Cardinality(spoilt) <= restarts'
  BY <1>3, <1>4, <1>5
<1>7. Below(spoilt, from, d)'
  <2> SUFFICES ASSUME NEW n \in (1 .. Len(out)) \ spoilt  PROVE from[n] < d
    BY <1>3 DEF Below
  <2>1. from[n] \in 0 .. TxP!Blocks - 1
    BY <1>4 DEF PassedOn
  <2> QED
    BY <1>1, <1>2, <2>1
<1>8. CASE blockNum = -1 /\ out = <<>>
  BY <1>2, <1>3, <1>4, <1>6, <1>8 DEF SpoiltBy
<1>9. CASE blockNum \in Nat
  BY <1>2, <1>3, <1>4, <1>6, <1>7, <1>9 DEF SpoiltBy, Mixed
<1> QED
  BY <1>2, <1>3, <1>8, <1>9 DEF SpoiltBy, Holding, Mixed

(* The buffer and what was passed on are left alone.                       *)
LEMMA SpoiltStays ==
  ASSUME LinkInv, NEW c \in Nat, NEW spoilt, NEW from, SpoiltBy(c, spoilt, from), BlocksKept,
         Epoch(c)', UNCHANGED <<blockNum, slots, out, restarts>>,
         \A a \in Adapters : heard[a] \in Nat /\ heard'[a] \in Nat /\ heard'[a] >= heard[a]
  PROVE  SpoiltBy(c, spoilt, from)'
<1>1. PassedOn(spoilt, from)' /\ Cardinality(spoilt) <= restarts'
  BY PassedStays DEF SpoiltBy
<1>2. \A j : Below(spoilt, from, j)' = Below(spoilt, from, j)
  BY DEF Below, OneAdapter
<1>3. CASE Holding(c) /\ Below(spoilt, from, c + blockNum)
  <2>1. PICK k : k = c + blockNum
    OBVIOUS
  <2>2. k \in 0 .. TxP!Blocks - 1 /\ blockNum \in Nat /\ Pure(TxP!Block(k))
    BY <1>3, <2>1 DEF Holding
  <2>3. TxP!Block(k)' = TxP!Block(k)
    BY <2>2 DEF BlocksKept
  <2>4. k = c + blockNum' /\ k \in 0 .. TxP!Blocks' - 1
    <3> DEFINE b == TxP!Blocks
               e == TxP!Blocks'
    <3>1. k \in 0 .. b - 1 /\ b \in Nat /\ e \in Nat /\ b <= e
      BY <2>2 DEF BlocksKept
    <3> HIDE DEF b, e
    <3>2. k \in 0 .. e - 1
      BY <3>1
    <3> QED
      BY <2>1, <3>2 DEF e
  <2>5. Pure(TxP!Block(c + blockNum))'
    <3>1. TxP!Block(c + blockNum)' = TxP!Block(k)
      BY <2>3, <2>4 DEF TxP!Block
    <3> QED
      BY <2>2, <3>1 DEF Pure
  <2>6. OneAdapter' => \A a \in Adapters : heard'[a] > Packets * (c + blockNum')
    <3>1. PICK x : x = Packets * (c + blockNum)
      OBVIOUS
    <3>2. x \in Nat
      BY <1>3, <3>1, SameLayout DEF Holding
    <3>3. OneAdapter => \A a \in Adapters : heard[a] > x
      BY <1>3, <3>1 DEF Holding
    <3>4. OneAdapter => \A a \in Adapters : heard'[a] > x
      BY <3>2, <3>3
    <3> QED
      BY <3>1, <3>4 DEF OneAdapter
  <2>7. Holding(c)'
    BY <2>2, <2>4, <2>5, <2>6 DEF Holding, Packets, TxP!Packets
  <2>8. Below(spoilt, from, c + blockNum)'
    BY <1>3 DEF Below, OneAdapter
  <2> QED
    BY <1>1, <2>7, <2>8 DEF SpoiltBy
<1>4. CASE Mixed(c, spoilt, from)
  BY <1>1, <1>2, <1>4 DEF SpoiltBy, Mixed
<1>5. CASE blockNum = -1 /\ out = <<>>
  BY <1>1, <1>5 DEF SpoiltBy
<1> QED
  BY <1>3, <1>4, <1>5 DEF SpoiltBy

LEMMA SpoiltNext == LinkInv /\ LinkInv' /\ SpoiltInv /\ [Next]_vars => SpoiltInv'
<1> SUFFICES ASSUME LinkInv, LinkInv', SpoiltInv, [Next]_vars, ~wrapped'
             PROVE  \E c \in Nat : \E spoilt, from : SpoiltBy(c, spoilt, from)'
  BY DEF SpoiltInv
<1>1. ~wrapped /\ BlocksKept /\ heard \in [Adapters -> Nat] /\ heard' \in [Adapters -> Nat]
  <2>1. Send => ~wrapped
    BY Zenon DEF Send
  <2>2. TxReboot \/ (\E a \in Adapters : Hear(a) \/ Miss(a)) \/ UNCHANGED vars => wrapped' = wrapped
    BY DEF TxReboot, Hear, Miss, vars
  <2> QED
    BY <2>1, <2>2, BlocksStay DEF Next, LinkInv, ReceiverOK
<1>9. PICK c \in Nat : \E spoilt, from : SpoiltBy(c, spoilt, from)
  BY <1>1 DEF SpoiltInv
<1>2. PICK spoilt, from : SpoiltBy(c, spoilt, from)
  BY <1>9
<1>3. Epoch(c)
  BY <1>2 DEF SpoiltBy
<1>4. CASE Send
  <2>1. Epoch(c)' /\ UNCHANGED <<blockNum, slots, out, restarts, heard>>
    BY <1>3, <1>4, EpochSend DEF Send, rxVars
  <2>2. \A a \in Adapters : heard[a] \in Nat /\ heard'[a] \in Nat /\ heard'[a] >= heard[a]
    BY <1>1, <2>1
  <2> QED
    BY <1>1, <1>2, <2>1, <2>2, SpoiltStays
<1>5. CASE TxReboot
  BY <1>1, <1>2, <1>5, SpoiltReboot
<1>6. ASSUME NEW a \in Adapters, Hear(a)
      PROVE  \E s, f : SpoiltBy(c, s, f)'
  <2>1. PICK n \in Ahead(a) : /\ n \in 1 .. Len(air) /\ Rx!Process(air[n])
                              /\ heard' = [heard EXCEPT ![a] = n]
    BY <1>6, HearStep
  <2>2. CASE Rx!Opens(air[n]) /\ Rx!Open(air[n])
    BY <1>1, <1>2, <1>6, <2>1, <2>2, SpoiltOpen
  <2>3. CASE Rx!Keep(air[n])
    BY <1>1, <1>2, <1>6, <2>1, <2>3, SpoiltKeep
  <2> QED
    BY <2>1, <2>2, <2>3 DEF Rx!Process
<1>7. ASSUME NEW a \in Adapters, Miss(a)
      PROVE  SpoiltBy(c, spoilt, from)'
  <2>1. Epoch(c)' /\ UNCHANGED <<blockNum, slots, out, restarts>>
    BY <1>3, <1>7, EpochHeard DEF Miss, rxVars
  <2>2. First(Ahead(a)) \in Ahead(a) /\ heard' = [heard EXCEPT ![a] = First(Ahead(a))]
    BY <1>7, AheadOnAir DEF Miss
  <2>3. \A b \in Adapters : heard[b] \in Nat /\ heard'[b] \in Nat /\ heard'[b] >= heard[b]
    BY <1>1, <2>2 DEF Ahead
  <2> QED
    BY <1>1, <1>2, <2>1, <2>3, SpoiltStays
<1>8. CASE UNCHANGED vars
  <2>1. Epoch(c)' /\ UNCHANGED <<blockNum, slots, out, restarts, heard>>
    BY <1>3, <1>8 DEF Epoch, vars, txVars, rxVars, Ahead, TxP!Blocks
  <2>2. \A a \in Adapters : heard[a] \in Nat /\ heard'[a] \in Nat /\ heard'[a] >= heard[a]
    BY <1>1, <2>1
  <2> QED
    BY <1>1, <1>2, <2>1, <2>2, SpoiltStays
<1> QED
  BY <1>2, <1>4, <1>5, <1>6, <1>7, <1>8 DEF Next

(* However often the sender is started again, and whatever is lost: until  *)
(* its numbers wrap, at most one block for each restart reaches the player *)
(* that is no block sent, and from one adapter the others are in order.    *)
THEOREM OneBlockARestart == Spec => []RestartSpoilsOneBlock
<1>1. LinkInv /\ SpoiltInv => RestartSpoilsOneBlock
  <2> SUFFICES ASSUME LinkInv, SpoiltInv, ~wrapped  PROVE RestartSpoilsOneBlock
    BY DEF RestartSpoilsOneBlock
  <2>0. PICK c \in Nat : \E spoilt, from : SpoiltBy(c, spoilt, from)
    BY DEF SpoiltInv
  <2>1. PICK spoilt, from : SpoiltBy(c, spoilt, from)
    BY <2>0
  <2>2. Cardinality(spoilt) <= restarts /\ PassedOn(spoilt, from)
    BY <2>1 DEF SpoiltBy
  <2>3. DOMAIN from = (1 .. Len(out)) \ spoilt
    BY <2>2 DEF PassedOn
  <2>4. from \in [(1 .. Len(out)) \ spoilt -> 0 .. Tx!Blocks - 1]
    BY <2>2, SameBlocks DEF PassedOn
  <2>5. \A n \in DOMAIN from :
          /\ \A i \in 1 .. DataPkts : out[n][i] \in {None, Tx!Block(from[n])[i]}
          /\ (\A a, b \in Adapters : a = b) => \A m \in DOMAIN from : m < n => from[m] < from[n]
    BY <2>2, <2>3, SameBlocks DEF PassedOn, OneAdapter
  <2> QED
    BY <2>2, <2>4, <2>5 DEF RestartSpoilsOneBlock, PassedOn
<1> QED
  BY <1>1, LinkInit, LinkNext, SpoiltInit, SpoiltNext, PTL DEF Spec
=============================================================================
