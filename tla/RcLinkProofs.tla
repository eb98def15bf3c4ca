---------------------------- MODULE RcLinkProofs ----------------------------
(***************************************************************************)
(* From the ground station to the legs.  First the orders (RcLink): for    *)
(* any number of cards, packets, losses, empty reads and restarts, and     *)
(* whatever the ports, the robot walks or parks only on an order that was  *)
(* given.  Then what is computed on their way (Codecs), for every input:   *)
(* the frame around a packet is opened at the packet, the fields of a      *)
(* radiotap header are found, and the gait that the order asks for is      *)
(* steady.                                                                 *)
(***************************************************************************)
EXTENDS RcLink, Codecs, NatLemmas, FiniteSetTheorems

WalkGiven == \E n \in 1 .. Len(air) : air[n].cmd.walk /\ ~air[n].cmd.park
ParkGiven == \E n \in 1 .. Len(air) : air[n].cmd.park

(* An order passes through the segment and the target on its way to the    *)
(* state of the legs.                                                      *)
AirInv ==
  /\ air \in Seq([seq : Nat, cmd : M!Buttons])
  /\ seqno \in Nat
  /\ heard \in [Cards -> Nat]

RecordInv == rc = Released \/ \E n \in 1 .. Len(air) : rc = air[n].cmd

OrderInv ==
  /\ tgt = "walking" => WalkGiven
  /\ tgt = "parking" => ParkGiven
  /\ state = "walking" => WalkGiven
  /\ state = "parking" => ParkGiven

IInv == AirInv /\ RecordInv /\ OrderInv

-----------------------------------------------------------------------------
LEMMA IInvInit == Init => IInv
  BY DEF Init, M!Init, IInv, AirInv, RecordInv, OrderInv, Released

(* What was broadcast stays broadcast.                                     *)
LEMMA IInvSend ==
  ASSUME IInv, NEW cmd \in M!Buttons, Send(cmd)
  PROVE  IInv'
<1> DEFINE p == [seq |-> seqno, cmd |-> cmd]
<1>1. air' = Append(air, p) /\ UNCHANGED <<state, tgt, rc, heard>>
  BY DEF Send, motionVars
<1>2. p \in [seq : Nat, cmd : M!Buttons]
  BY DEF IInv, AirInv
<1>3. air' \in Seq([seq : Nat, cmd : M!Buttons]) /\ Len(air') = Len(air) + 1
  BY <1>1, <1>2 DEF IInv, AirInv
<1>4. \A n \in 1 .. Len(air) : n \in 1 .. Len(air') /\ air'[n] = air[n]
  BY <1>1, <1>2, <1>3 DEF IInv, AirInv
<1>5. seqno' \in Nat
  <2>1. (seqno + 1) % SeqMod \in 0 .. SeqMod - 1
    BY SeqAssumption DEF IInv, AirInv
  <2> QED
    BY <2>1, SeqAssumption DEF Send
<1>6. RecordInv'
  BY <1>1, <1>4 DEF IInv, RecordInv, Released
<1>7. OrderInv'
  <2>1. WalkGiven => WalkGiven'
    BY <1>4 DEF WalkGiven
  <2>2. ParkGiven => ParkGiven'
    BY <1>4 DEF ParkGiven
  <2> QED
    BY <1>1, <2>1, <2>2 DEF IInv, OrderInv
<1> QED
  BY <1>1, <1>3, <1>5, <1>6, <1>7 DEF IInv, AirInv

LEMMA IInvReceive ==
  ASSUME IInv, NEW c \in Cards, Receive(c)
  PROVE  IInv'
<1>1. heard[c] + 1 \in 1 .. Len(air) /\ heard' \in [Cards -> Nat]
  BY DEF Receive, IInv, AirInv
<1>2. rc' = air[heard[c] + 1].cmd \/ rc' = rc
  BY DEF Receive
<1>3. UNCHANGED <<state, tgt, seqno, air>>
  BY DEF Receive, motionVars
<1>4. RecordInv'
  BY <1>1, <1>2, <1>3 DEF IInv, RecordInv, Released
<1> QED
  BY <1>1, <1>3, <1>4 DEF IInv, AirInv, OrderInv, WalkGiven, ParkGiven

(* do_motion takes its target from the record, or leaves it, or turns off; *)
(* the state follows the target.                                           *)
LEMMA IInvMotion ==
  ASSUME IInv, NEW ms, NEW lost, M!DoMotion(ms, lost), UNCHANGED <<seqno, air, heard>>
  PROVE  IInv'
<1>1. rc' = rc /\ tgt' = M!Target(M!Parsed(ms, lost).tgt)
  BY DEF M!DoMotion
<1>2. M!Parsed(ms, lost).tgt \in {"off", tgt} /\ M!Parsed(ms, lost).state \in {"off", state}
  BY DEF M!Parsed
<1>3. state' \in {tgt', M!Parsed(ms, lost).state}
  BY DEF M!DoMotion, M!Enter
<1>4. rc.park => ParkGiven
  BY DEF IInv, RecordInv, Released, ParkGiven
<1>5. (rc.walk /\ ~rc.park) => WalkGiven
  BY DEF IInv, RecordInv, Released, WalkGiven
<1>6. (tgt' = "walking" => WalkGiven) /\ (tgt' = "parking" => ParkGiven)
  BY <1>1, <1>2, <1>4, <1>5 DEF M!Target, IInv, OrderInv
<1>7. (state' = "walking" => WalkGiven) /\ (state' = "parking" => ParkGiven)
  BY <1>2, <1>3, <1>6 DEF IInv, OrderInv
<1>8. (WalkGiven <=> WalkGiven') /\ (ParkGiven <=> ParkGiven')
  BY DEF WalkGiven, ParkGiven
<1> QED
  BY <1>1, <1>6, <1>7, <1>8 DEF IInv, AirInv, RecordInv, OrderInv, Released

(* The record that a restart finds in the segment is an old order.         *)
LEMMA IInvAirRestart == IInv /\ AirRestart => IInv'
<1> SUFFICES ASSUME IInv, AirRestart  PROVE IInv'
  OBVIOUS
<1>1. state' = "off" /\ tgt' = "off" /\ UNCHANGED <<seqno, air>>
  BY DEF AirRestart, M!Restart
<1>2. heard' \in [Cards -> Nat]
  BY DEF AirRestart, IInv, AirInv
<1>3. rc' = Released \/ \E n \in 1 .. Len(air) : rc' = air[n].cmd
  BY DEF AirRestart
<1> QED
  BY <1>1, <1>2, <1>3 DEF IInv, AirInv, RecordInv, OrderInv, Released

(* Steps that leave everything but heard and the counters alone.           *)
LEMMA IInvQuiet ==
  ASSUME IInv, UNCHANGED <<state, tgt, air>>, rc' \in {rc, Released},
         seqno' \in Nat, heard' \in [Cards -> Nat]
  PROVE  IInv'
  BY DEF IInv, AirInv, RecordInv, OrderInv, WalkGiven, ParkGiven, Released

LEMMA IInvStep == IInv /\ [Next]_vars => IInv'
<1> SUFFICES ASSUME IInv, [Next]_vars  PROVE IInv'
  OBVIOUS
<1>t. seqno \in Nat /\ heard \in [Cards -> Nat]
  BY DEF IInv, AirInv
<1>1. ASSUME NEW c \in Cards, Miss(c)  PROVE IInv'
  <2>1. heard' \in [Cards -> Nat]
    BY <1>t, <1>1 DEF Miss
  <2> QED
    BY <1>t, <1>1, <2>1, IInvQuiet DEF Miss, motionVars
<1>2. CASE EmptyRead
  BY <1>t, <1>2, IInvQuiet DEF EmptyRead, motionVars
<1>3. CASE GroundRestart
  BY <1>t, <1>3, IInvQuiet DEF GroundRestart, motionVars
<1>4. CASE Move
  <2>1. UNCHANGED <<seqno, air, heard>>
    BY <1>4 DEF Move
  <2>2. CASE M!Cycle
    BY <2>1, <2>2, IInvMotion DEF M!Cycle, M!Take
  <2>3. CASE M!Bus
    BY <1>t, <2>1, <2>3, IInvQuiet DEF M!Bus, M!Answer, M!ReportStood
  <2> QED
    BY <1>4, <2>2, <2>3 DEF Move
<1>5. CASE UNCHANGED vars
  BY <1>t, <1>5, IInvQuiet DEF vars, motionVars
<1> QED
  BY <1>1, <1>2, <1>3, <1>4, <1>5, IInvSend, IInvReceive, IInvAirRestart DEF Next, Ground, Radio

-----------------------------------------------------------------------------
(* No loss, repetition, reordering, empty read or restart makes the robot  *)
(* walk or park without an order of the operator.                          *)
THEOREM OrdersOnly == Spec => []OnlyOnOrders
<1>1. IInv => OnlyOnOrders
  BY DEF IInv, OrderInv, WalkGiven, ParkGiven, OnlyOnOrders
<1> QED
  BY <1>1, IInvInit, IInvStep, PTL DEF Spec

-----------------------------------------------------------------------------
(* wfb_write carries padlen along the cards: f[i] is what it has after the *)
(* i-th.                                                                   *)
Pads(f, types, len) ==
  f = [i \in 0 .. Len(types) |->
         IF i = 0 THEN 0
         ELSE IF len < MinLen(types[i]) THEN MinLen(types[i]) - len ELSE f[i - 1]]

LEMMA PadsExist ==
  ASSUME NEW types, Len(types) \in Nat, NEW len
  PROVE  \E f : Pads(f, types, len)
<1> DEFINE Pad(f, i) == IF i = 0 THEN 0
                        ELSE IF len < MinLen(types[i]) THEN MinLen(types[i]) - len ELSE f[i - 1]
           S == {m \in Nat : \E f : f = [i \in 0 .. m |-> Pad(f, i)]}
<1>1. 0 \in S
  <2> DEFINE f == [i \in 0 .. 0 |-> 0]
  <2>1. f = [i \in 0 .. 0 |-> Pad(f, i)]
    OBVIOUS
  <2> QED
    BY <2>1
<1>2. ASSUME NEW m \in Nat, m \in S PROVE m + 1 \in S
  <2>1. PICK f : f = [i \in 0 .. m |-> Pad(f, i)]
    BY <1>2
  <2> DEFINE g == [i \in 0 .. m + 1 |-> Pad(f, i)]
  <2>2. \A i \in 0 .. m : g[i] = f[i]
    BY <2>1
  <2>3. \A i \in 0 .. m + 1 : i # 0 => i - 1 \in 0 .. m
    OBVIOUS
  <2>4. \A i \in 0 .. m + 1 : Pad(g, i) = Pad(f, i)
    <3> HIDE DEF g
    <3> QED
      BY <2>2, <2>3
  <2>5. g = [i \in 0 .. m + 1 |-> Pad(g, i)]
    <3>1. g = [i \in 0 .. m + 1 |-> Pad(f, i)]
      OBVIOUS
    <3> HIDE DEF g, Pad
    <3> QED
      BY <2>4, <3>1
  <2> HIDE DEF g, Pad
  <2> QED
    BY <2>5
<1> HIDE DEF S
<1>3. Len(types) \in S
  BY <1>1, <1>2, SetInduction
<1> QED
  BY <1>3 DEF S, Pads

LEMMA PaddingIs ==
  ASSUME NEW types, Len(types) \in Nat, NEW len
  PROVE  Pads(Padding(types, len), types, len)
<1> DEFINE pad[i \in 0 .. Len(types)] ==
             IF i = 0 THEN 0
             ELSE IF len < MinLen(types[i]) THEN MinLen(types[i]) - len ELSE pad[i - 1]
<1>1. Padding(types, len) = pad
  BY DEF Padding
<1>2. \E f : Pads(f, types, len)
  BY PadsExist
<1>3. Pads(pad, types, len)
  BY <1>2, Zenon DEF Pads
<1> QED
  BY <1>1, <1>3

(* As all cards but the first are of type 0, none is left the padding of   *)
(* another.                                                                *)
LEMMA PaddedToMinimum ==
  ASSUME NEW drivers \in Seq(STRING), NEW len \in Nat, NEW i \in 1 .. Len(drivers)
  PROVE  LET least == MinLen(TxTypes(drivers)[i])
         IN  Padding(TxTypes(drivers), len)[i] = IF len < least THEN least - len ELSE 0
<1> DEFINE types == TxTypes(drivers)
           pad == Padding(types, len)
<1>1. /\ Len(types) = Len(drivers) /\ Len(types) \in Nat
      /\ \A j \in 1 .. Len(types) : j # 1 => types[j] = 0
  BY DEF TxTypes
<1> HIDE DEF types
<1>2. Pads(pad, types, len)
  BY <1>1, PaddingIs
<1> HIDE DEF pad
<1>3. /\ pad[0] = 0
      /\ \A j \in 1 .. Len(types) :
           pad[j] = IF len < MinLen(types[j]) THEN MinLen(types[j]) - len ELSE pad[j - 1]
  BY <1>1, <1>2 DEF Pads
<1> DEFINE S == {j \in Nat : j \in 1 .. Len(types) /\ len >= 18 => pad[j] = 0}
<1>4. 0 \in S
  OBVIOUS
<1>5. ASSUME NEW j \in Nat, j \in S PROVE j + 1 \in S
  <2> SUFFICES ASSUME j + 1 \in 1 .. Len(types), len >= 18 PROVE pad[j + 1] = 0
    OBVIOUS
  <2>1. pad[j + 1] = pad[j]
    <3>1. (j + 1) - 1 = j /\ MinLen(types[j + 1]) \in {5, 18}
      BY DEF MinLen
    <3> QED
      BY <1>3, <3>1
  <2>2. j = 0 \/ j \in 1 .. Len(types)
    BY <1>1
  <2> QED
    BY <1>3, <1>5, <2>1, <2>2
<1>6. i \in S /\ i - 1 \in S
  <2> HIDE DEF S
  <2>1. Nat \subseteq S
    BY <1>4, <1>5, SetInduction
  <2> QED
    BY <2>1
<1>7. MinLen(types[i]) \in {5, 18} /\ (i # 1 => MinLen(types[i]) = 18)
  BY <1>1 DEF MinLen
<1>8. pad[i] = IF len < MinLen(types[i]) THEN MinLen(types[i]) - len ELSE 0
  <2>1. CASE i = 1
    BY <1>1, <1>3, <2>1
  <2>2. CASE i # 1 /\ len >= 18
    BY <1>1, <1>6, <1>7, <2>2
  <2>3. CASE i # 1 /\ len < 18
    BY <1>1, <1>3, <1>7, <2>3
  <2> QED
    BY <2>1, <2>2, <2>3
<1> QED
  BY <1>8 DEF types, pad

(* What a receiver should read of a frame.                                 *)
Opened(kind, rx, len, addHeader) ==
  LET least == IF kind = "short" THEN 18 ELSE 5
      head  == IF addHeader THEN SeqHeader ELSE 0
  IN  rx = <<IeeeLen(kind), head + (IF len < least THEN least ELSE len)>>

(* Every frame that wfb_write makes is opened at its payload.              *)
LEMMA FrameOpened ==
  ASSUME NEW drivers \in Seq(STRING), NEW useCts \in BOOLEAN, NEW addHeader \in BOOLEAN,
         NEW len \in Nat, FitsBuffers(TxTypes(drivers), useCts, len, addHeader), NEW before,
         NEW i \in 1 .. Len(drivers)
  PROVE  LET frames == WfbWrite(TxTypes(drivers), useCts, len, addHeader)
         IN  /\ DOMAIN frames = 1 .. Len(drivers)
             /\ Opened(frames[i].kind, RxPayload(frames[i], before), len, addHeader)
<1> DEFINE types  == TxTypes(drivers)
           frames == WfbWrite(types, useCts, len, addHeader)
           kind   == TxKind(types[i], useCts)
           least  == MinLen(types[i])
           head   == IF addHeader THEN SeqHeader ELSE 0
           pad    == IF len < least THEN least - len ELSE 0
<1>1. Len(types) = Len(drivers) /\ types[i] \in {0, 1, 2}
  <2>1. \A d : TypeOf(d) \in {0, 1, 2}
    BY DEF TypeOf
  <2> QED
    BY <2>1 DEF TxTypes
<1>l. len \in Nat /\ len <= 402 /\ head \in {0, 6}
  <2>1. i \in DOMAIN types
    BY DEF TxTypes
  <2>2. RadiotapLen(types[i]) + IeeeLen(kind) + head + len <= 402
    BY <2>1 DEF FitsBuffers, PacketBuffer
  <2>3. RadiotapLen(types[i]) \in {12, 13} /\ IeeeLen(kind) \in {5, 24} /\ head \in {0, 6}
    BY DEF RadiotapLen, IeeeLen, SeqHeader
  <2> HIDE DEF kind, head
  <2> QED
    BY <2>2, <2>3
<1>2. Padding(types, len)[i] = pad
  BY <1>l, PaddedToMinimum
<1> HIDE DEF types
<1>3. kind \in Kinds /\ (kind = "short" <=> types[i] = 0)
  BY <1>1 DEF TxKind, Kinds
<1>4. frames[i] = [kind |-> kind, body |-> head + len + pad] /\ DOMAIN frames = 1 .. Len(drivers)
  BY <1>1, <1>2 DEF WfbWrite
<1>5. head + len + pad = head + (IF len < least THEN least ELSE len)
  BY <1>1, <1>l DEF MinLen, SeqHeader
<1>6. head + len + pad \in 0 .. MaxMtu
  BY <1>1, <1>l DEF MinLen, SeqHeader, MaxMtu
<1>7. least = IF kind = "short" THEN 18 ELSE 5
  BY <1>1, <1>3 DEF MinLen
<1> HIDE DEF kind, least, head, pad, frames
<1>8. HeaderLength(frames[i], before) = IeeeLen(kind)
  BY <1>3, <1>4 DEF HeaderLength, Byte1, IeeeLen, Kinds
<1>9. RxPayload(frames[i], before) = <<IeeeLen(kind), head + len + pad>>
  <2>1. IeeeLen(kind) \in {5, 24}
    BY DEF IeeeLen
  <2> DEFINE n == head + len + pad
  <2>2. frames[i].kind = kind /\ frames[i].body = n
    BY <1>4
  <2>3. n \in 0 .. MaxMtu
    BY <1>6
  <2> HIDE DEF n
  <2>4. RawPayload(frames[i], before) = <<IeeeLen(kind), n>>
    <3>1. IeeeLen(kind) + (n - IeeeLen(kind)) = n
      BY <2>1, <2>3 DEF MaxMtu
    <3>2. RawPayload(frames[i], before) = <<IeeeLen(kind), IeeeLen(kind) + (n - IeeeLen(kind))>>
      BY <1>8, <2>2, Zenon DEF RawPayload
    <3> QED
      BY <3>1, <3>2
  <2>5. RxPayload(frames[i], before) = <<IeeeLen(kind), n>>
    BY <2>3, <2>4 DEF RxPayload, MaxMtu
  <2> QED
    BY <2>5 DEF n
<1> QED
  BY <1>4, <1>5, <1>7, <1>9 DEF Opened, frames, least, head, types

-----------------------------------------------------------------------------
(* The radiotap iterators.  A is the set of places announced; as far as    *)
(* place k all of them were found.                                         *)
HeaderSet == [what : {"header"}, words : Seq(SUBSET (0 .. 30)) \ {<<>>}, len : Nat, vlen : Nat,
              ours : SUBSET (Nat \ {0}), stray : Int]
Sized(A)  == \A a \in A : Field(a) \in 0 .. 22 \ {18} \/ Field(a) = VendorNs
Upto(A, k) == {b \in A : b < k}

(* Where the next field is looked for.                                     *)
At(h, found) == Behind(h, found, Len(found) + 1)

FoundUpto(h, found, A, k) ==
  /\ found \in Seq(Nat \X Nat)
  /\ Len(found) = Cardinality(Upto(A, k))
  /\ At(h, found) \in Nat
  /\ \A a \in Upto(A, k) :
       LET i == Rank(A, a)
       IN  /\ found[i][1] = Field(a) /\ found[i][2] <= h.len - Size(h, Field(a))[2]
           /\ RightPlace(h, Field(a), Behind(h, found, i), found[i][2])

LEMMA RankIs ==
  ASSUME NEW A \in SUBSET Nat, NEW k \in Nat
  PROVE  /\ IsFiniteSet(Upto(A, k)) /\ Cardinality(Upto(A, k)) \in Nat
         /\ Rank(A, k) = Cardinality(Upto(A, k)) + 1
         /\ k \in A => Cardinality(Upto(A, k + 1)) = Cardinality(Upto(A, k)) + 1
         /\ k \notin A => Upto(A, k + 1) = Upto(A, k)
<1>1. IsFiniteSet(Upto(A, k))
  <2>1. \A b \in Upto(A, k) : b <= k
    BY DEF Upto
  <2>2. Upto(A, k) \in SUBSET Nat
    BY DEF Upto
  <2> QED
    BY <2>1, <2>2, FS_BoundedSetOfNaturals
<1>2. Rank(A, k) = Cardinality(Upto(A, k)) + 1
  BY DEF Rank, Upto
<1>n. \A b \in A : (b < k + 1 <=> b < k \/ b = k) /\ ~(k < k)
  OBVIOUS
<1>3. ASSUME k \in A
      PROVE  Upto(A, k + 1) = Upto(A, k) \cup {k} /\ k \notin Upto(A, k)
  BY <1>3, <1>n, Zenon DEF Upto
<1>4. ASSUME k \notin A
      PROVE  Upto(A, k + 1) = Upto(A, k)
  BY <1>4, <1>n, Zenon DEF Upto
<1> QED
  BY <1>1, <1>2, <1>3, <1>4, FS_CardinalityType, FS_AddElement

(* Ranks ascend with the places.                                           *)
LEMMA RankBelow ==
  ASSUME NEW A \in SUBSET Nat, NEW k \in Nat, NEW a \in Upto(A, k)
  PROVE  Rank(A, a) \in 1 .. Cardinality(Upto(A, k))
<1>1. a \in Nat /\ a < k /\ a \in A
  BY DEF Upto
<1>2. Upto(A, a) \in SUBSET Upto(A, k) /\ a \notin Upto(A, a)
  <2>1. \A b \in A : (b < a => b < k) /\ ~(a < a)
    BY <1>1
  <2> QED
    BY <2>1, Zenon DEF Upto
<1>3. Cardinality(Upto(A, a)) <= Cardinality(Upto(A, k)) /\ Cardinality(Upto(A, a)) # Cardinality(Upto(A, k))
  BY <1>2, RankIs, FS_Subset
<1> QED
  BY <1>1, <1>3, RankIs

LEMMA RankAbove ==
  ASSUME NEW A \in SUBSET Nat, NEW k \in A, NEW a \in A, k < a
  PROVE  Rank(A, k) < Rank(A, a)
<1>1. k \in Upto(A, a)
  BY DEF Upto
<1> QED
  BY <1>1, RankBelow, RankIs

-----------------------------------------------------------------------------
(* A field is aligned at exactly one place.                                *)
LEMMA AlignedOnce ==
  ASSUME NEW at \in Nat, NEW a \in {1, 2, 4, 8}
  PROVE  /\ Aligned(at, a) \in Nat /\ Aligned(at, a) >= at /\ Aligned(at, a) < at + a
         /\ Aligned(at, a) % a = 0
         /\ \A q \in Nat : q >= at /\ q < at + a /\ q % a = 0 => q = Aligned(at, a)
<1>1. CASE a = 1
  BY <1>1 DEF Aligned
<1>2. CASE a = 2
  BY <1>2 DEF Aligned
<1>4. CASE a = 4
  BY <1>4 DEF Aligned
<1>8. CASE a = 8
  BY <1>8 DEF Aligned
<1> QED
  BY <1>1, <1>2, <1>4, <1>8

LEMMA SizeIs ==
  ASSUME NEW h \in HeaderSet, NEW f, f \in 0 .. 22 \ {18} \/ f = VendorNs
  PROVE  Size(h, f)[1] \in {1, 2, 4, 8} /\ Size(h, f)[2] \in Nat \ {0}
<1>1. CASE f = VendorNs
  <2>1. h.vlen \in Nat
    BY DEF HeaderSet
  <2> QED
    BY <1>1, <2>1 DEF Size
<1>2. CASE f \in 0 .. 13
  <2>1. RtSizes[f] \in {<<8, 8>>, <<2, 4>>, <<2, 2>>, <<1, 1>>}
    BY <1>2, SMTT(30) DEF RtSizes
  <2>2. NamespaceSizes[f] = RtSizes[f]
    BY <1>2 DEF NamespaceSizes
  <2> QED
    BY <1>2, <2>1, <2>2 DEF Size, VendorNs
<1>3. CASE f \in 14 .. 22 \ {18}
  <2>1. NamespaceSizes[f] \in {<<2, 2>>, <<1, 1>>, <<1, 3>>, <<4, 8>>, <<2, 12>>, <<8, 12>>}
    <3>1. f \in {14, 15, 16, 17, 19, 20, 21, 22}
      BY <1>3
    <3> QED
      BY <3>1, SMTT(30) DEF NamespaceSizes
  <2> QED
    BY <1>3, <2>1 DEF Size, VendorNs
<1> QED
  BY <1>1, <1>2, <1>3

-----------------------------------------------------------------------------
LEMMA FirstArgIs ==
  ASSUME NEW h \in HeaderSet
  PROVE  FirstArg(h) \in Nat /\ FirstArg(h) >= 8 /\ (Len(h.words) = 1 => FirstArg(h) = 8)
<1> DEFINE n == Len(h.words)
<1>1. n \in Nat \ {0}
  BY DEF HeaderSet
<1>2. FirstArg(h) = 8 + 4 * (n - 1)
  BY DEF FirstArg
<1> HIDE DEF n
<1>3. 8 + 4 * (n - 1) \in Nat /\ 8 + 4 * (n - 1) >= 8 /\ (n = 1 => 8 + 4 * (n - 1) = 8)
  BY <1>1
<1> QED
  BY <1>2, <1>3 DEF n

LEMMA NothingYet ==
  ASSUME NEW h \in HeaderSet, NEW A \in SUBSET Nat
  PROVE  FoundUpto(h, <<>>, A, 0) /\ At(h, <<>>) = FirstArg(h)
<1>1. Upto(A, 0) = {}
  <2>1. \A b \in A : ~(b < 0)
    OBVIOUS
  <2> QED
    BY <2>1, Zenon DEF Upto
<1>2. At(h, <<>>) = FirstArg(h)
  BY DEF At, Behind
<1>3. Len(<<>>) = 0 /\ <<>> \in Seq(Nat \X Nat) /\ Cardinality({}) = 0
  BY FS_EmptySet
<1> QED
  BY <1>1, <1>2, <1>3, FirstArgIs DEF FoundUpto

LEMMA SkipPlace ==
  ASSUME NEW A \in SUBSET Nat, NEW k \in Nat, NEW h, NEW found,
         FoundUpto(h, found, A, k), k \notin A
  PROVE  FoundUpto(h, found, A, k + 1)
<1>1. Upto(A, k + 1) = Upto(A, k)
  BY RankIs
<1> QED
  BY <1>1 DEF FoundUpto

LEMMA TakePlace ==
  ASSUME NEW h \in HeaderSet, NEW A \in SUBSET Nat, Sized(A), NEW k \in A, NEW found,
         FoundUpto(h, found, A, k),
         NEW p, p = Aligned(At(h, found), Size(h, Field(k))[1]),
         p + Size(h, Field(k))[2] <= h.len
  PROVE  LET more == Append(found, <<Field(k), p>>)
         IN  FoundUpto(h, more, A, k + 1) /\ At(h, more) = p + Size(h, Field(k))[2]
<1> DEFINE f == Field(k)
           sz == Size(h, f)
           n == Len(found)
           more == Append(found, <<f, p>>)
<1>1. /\ found \in Seq(Nat \X Nat) /\ n \in Nat /\ k \in Nat /\ h.len \in Nat
      /\ sz[1] \in {1, 2, 4, 8} /\ sz[2] \in Nat /\ f \in Nat /\ At(h, found) \in Nat
  <2>1. f \in 0 .. 22 \ {18} \/ f = VendorNs
    BY DEF Sized
  <2>2. f \in Nat /\ k \in Nat
    BY <2>1 DEF VendorNs
  <2>3. sz[1] \in {1, 2, 4, 8} /\ sz[2] \in Nat
    BY <2>1, SizeIs
  <2> QED
    BY <2>2, <2>3 DEF FoundUpto, HeaderSet
<1>2. /\ p \in Nat /\ p >= At(h, found) /\ p < At(h, found) + sz[1] /\ p % sz[1] = 0
  BY <1>1, AlignedOnce
<1>3. RightPlace(h, f, At(h, found), p) /\ p <= h.len - sz[2]
  BY <1>1, <1>2 DEF RightPlace
<1> HIDE DEF f, sz
<1>4. /\ more \in Seq(Nat \X Nat) /\ Len(more) = n + 1 /\ more[n + 1] = <<f, p>>
      /\ \A i \in 1 .. n : more[i] = found[i]
  BY <1>1, <1>2
<1> HIDE DEF more
<1>5. \A i \in 1 .. n + 1 : Behind(h, more, i) = Behind(h, found, i)
  <2>1. \A i \in 1 .. n + 1 : i # 1 => i - 1 \in 1 .. n
    BY <1>1
  <2> QED
    BY <1>4, <2>1 DEF Behind
<1>6. At(h, more) = p + sz[2]
  <2>1. (n + 1) + 1 # 1 /\ ((n + 1) + 1) - 1 = n + 1
    BY <1>1
  <2> QED
    BY <1>4, <2>1 DEF At, Behind, sz
<1>7. ASSUME NEW a \in Upto(A, k + 1), NEW i, i = Rank(A, a)
      PROVE  /\ more[i][1] = Field(a) /\ more[i][2] <= h.len - Size(h, Field(a))[2]
             /\ RightPlace(h, Field(a), Behind(h, more, i), more[i][2])
  <2>1. CASE a = k
    <3>1. i = n + 1
      BY <1>1, <1>7, <2>1, RankIs DEF FoundUpto
    <3>2. Behind(h, more, i) = At(h, found)
      BY <1>1, <1>5, <3>1 DEF At
    <3> QED
      BY <1>3, <1>4, <2>1, <3>1, <3>2 DEF f, sz
  <2>2. CASE a # k
    <3>1. a \in Upto(A, k)
      BY <1>1, <2>2 DEF Upto
    <3>2. i \in 1 .. n
      BY <1>1, <1>7, <3>1, RankBelow DEF FoundUpto
    <3>3. more[i] = found[i] /\ i \in 1 .. n + 1
      BY <1>1, <1>4, <3>2
    <3>4. Behind(h, more, i) = Behind(h, found, i)
      BY <1>5, <3>3
    <3> QED
      BY <1>7, <3>1, <3>3, <3>4 DEF FoundUpto
  <2> QED
    BY <2>1, <2>2
<1>8. Len(more) = Cardinality(Upto(A, k + 1))
  BY <1>1, <1>4, RankIs DEF FoundUpto
<1>9. FoundUpto(h, more, A, k + 1)
  BY <1>1, <1>2, <1>4, <1>6, <1>7, <1>8 DEF FoundUpto
<1> QED
  BY <1>6, <1>9 DEF more, f, sz

(* What is left to show of a walk that stops before place k.               *)
LEMMA StopsAt ==
  ASSUME NEW h, NEW A \in SUBSET Nat, IsFiniteSet(A), NEW k \in Nat, NEW found,
         FoundUpto(h, found, A, k),
         ASSUME NEW a \in A, Rank(A, a) = Len(found) + 1
         PROVE  \A p \in At(h, found) .. h.len - Size(h, Field(a))[2] :
                  ~RightPlace(h, Field(a), At(h, found), p)
  PROVE  FindsAll(h, found, A)
<1>1. Len(found) \in Nat /\ Len(found) = Cardinality(Upto(A, k))
  BY RankIs DEF FoundUpto
<1>2. Len(found) <= Cardinality(A)
  <2>1. Upto(A, k) \in SUBSET A
    BY DEF Upto
  <2> QED
    BY <1>1, <2>1, FS_Subset
<1>3. ASSUME NEW a \in A, Rank(A, a) <= Len(found)  PROVE a \in Upto(A, k)
  <2> SUFFICES ASSUME a >= k PROVE FALSE
    BY DEF Upto
  <2>1. \A b \in A : b < k => b < a
    OBVIOUS
  <2>2. Upto(A, k) \in SUBSET Upto(A, a)
    BY <2>1 DEF Upto
  <2>3. Cardinality(Upto(A, k)) <= Cardinality(Upto(A, a))
    BY <2>2, RankIs, FS_Subset
  <2> QED
    BY <1>1, <1>3, <2>3, RankIs
<1>4. ASSUME NEW a \in A, NEW i, i = Rank(A, a), i <= Len(found)
      PROVE  /\ found[i][1] = Field(a) /\ found[i][2] <= h.len - Size(h, Field(a))[2]
             /\ RightPlace(h, Field(a), Behind(h, found, i), found[i][2])
  BY <1>3, <1>4 DEF FoundUpto
<1>5. ASSUME NEW a \in A, NEW i, i = Rank(A, a), i = Len(found) + 1
      PROVE  \A p \in Behind(h, found, i) .. h.len - Size(h, Field(a))[2] :
               ~RightPlace(h, Field(a), Behind(h, found, i), p)
  BY <1>5 DEF At
<1> QED
  BY <1>2, <1>4, <1>5 DEF FindsAll, FindsEach

LEMMA StopsBehindAll ==
  ASSUME NEW h, NEW A \in SUBSET Nat, IsFiniteSet(A), NEW k \in Nat, NEW found,
         FoundUpto(h, found, A, k), \A a \in A : a < k
  PROVE  FindsAll(h, found, A)
<1>1. \A a \in A : Rank(A, a) <= Len(found) /\ Len(found) \in Nat /\ Rank(A, a) \in Nat
  <2>1. Upto(A, k) = A
    BY DEF Upto
  <2> QED
    BY <2>1, RankBelow, RankIs DEF FoundUpto
<1>2. \A a \in A : Rank(A, a) # Len(found) + 1
  BY <1>1
<1> QED
  BY <1>2, StopsAt, Zenon

LEMMA StopsAtTooLong ==
  ASSUME NEW h \in HeaderSet, NEW A \in SUBSET Nat, IsFiniteSet(A), Sized(A), NEW k \in A, NEW found,
         FoundUpto(h, found, A, k),
         Aligned(At(h, found), Size(h, Field(k))[1]) + Size(h, Field(k))[2] > h.len
  PROVE  FindsAll(h, found, A)
<1> DEFINE sz == Size(h, Field(k))
<1>1. /\ At(h, found) \in Nat /\ sz[1] \in {1, 2, 4, 8} /\ sz[2] \in Nat /\ h.len \in Nat
      /\ Len(found) + 1 = Rank(A, k) /\ Rank(A, k) \in Nat
  <2>1. h.len \in Nat
    BY DEF HeaderSet
  <2>2. sz[1] \in {1, 2, 4, 8} /\ sz[2] \in Nat
    BY SizeIs DEF Sized
  <2>3. Rank(A, k) = Cardinality(Upto(A, k)) + 1 /\ Cardinality(Upto(A, k)) \in Nat
    BY RankIs
  <2>4. At(h, found) \in Nat /\ Len(found) = Cardinality(Upto(A, k))
    BY DEF FoundUpto
  <2> QED
    BY <2>1, <2>2, <2>3, <2>4
<1>2. ASSUME NEW a \in A, Rank(A, a) = Len(found) + 1  PROVE a = k
  <2>1. a < k => Rank(A, a) < Rank(A, k)
    BY RankAbove
  <2>2. k < a => Rank(A, k) < Rank(A, a)
    BY RankAbove
  <2> QED
    BY <1>1, <1>2, <2>1, <2>2
<1>3. ASSUME NEW p \in At(h, found) .. h.len - sz[2], RightPlace(h, Field(k), At(h, found), p)
      PROVE  FALSE
  <2>1. p \in Nat
    BY <1>1
  <2>2. p = Aligned(At(h, found), sz[1])
    BY <1>1, <1>3, <2>1, AlignedOnce DEF RightPlace
  <2> QED
    BY <1>1, <1>3, <2>1, <2>2
<1> QED
  BY <1>2, <1>3, StopsAt

LEMMA NoRoomAtAll ==
  ASSUME NEW h \in HeaderSet, NEW A \in SUBSET Nat, IsFiniteSet(A), Sized(A), FirstArg(h) > h.len
  PROVE  FindsAll(h, <<>>, A)
<1>1. FoundUpto(h, <<>>, A, 0) /\ At(h, <<>>) = FirstArg(h)
  BY NothingYet
<1>2. ASSUME NEW a \in A  PROVE At(h, <<>>) .. h.len - Size(h, Field(a))[2] = {}
  <2>1. Size(h, Field(a))[2] \in Nat /\ h.len \in Nat
    BY SizeIs DEF Sized, HeaderSet
  <2> QED
    BY <1>1, <2>1, FirstArgIs
<1> QED
  BY <1>1, <1>2, StopsAt

-----------------------------------------------------------------------------
(* The loop of either iterator: one step for each place.                   *)
Begin(h, all) == IF all THEN IteratorInitRc(h) ELSE IteratorInit(h)
OneBit(h, all, s, k) ==
  IF all THEN IF s.status # "more" THEN s ELSE Bit(h, s, (k \div 32) + 1, k % 32)
  ELSE IF s.status # "more" \/ k \notin h.words[1] THEN s ELSE TakeField(h, s, k, RtSizes[k])
Walked(f, h, all, n) == f = [k \in 0 .. n |-> IF k = 0 THEN Begin(h, all) ELSE OneBit(h, all, f[k - 1], k - 1)]

LEMMA WalkedExists ==
  ASSUME NEW h, NEW all, NEW n \in Nat
  PROVE  \E f : Walked(f, h, all, n)
<1> DEFINE Turn(f, k) == IF k = 0 THEN Begin(h, all) ELSE OneBit(h, all, f[k - 1], k - 1)
           S == {m \in Nat : \E f : f = [k \in 0 .. m |-> Turn(f, k)]}
<1>1. 0 \in S
  <2> DEFINE f == [k \in 0 .. 0 |-> Begin(h, all)]
  <2>1. f = [k \in 0 .. 0 |-> Turn(f, k)]
    OBVIOUS
  <2> QED
    BY <2>1
<1>2. ASSUME NEW m \in Nat, m \in S PROVE m + 1 \in S
  <2>1. PICK f : f = [k \in 0 .. m |-> Turn(f, k)]
    BY <1>2
  <2> DEFINE g == [k \in 0 .. m + 1 |-> Turn(f, k)]
  <2>2. \A k \in 0 .. m : g[k] = f[k]
    BY <2>1
  <2>3. \A k \in 0 .. m + 1 : k # 0 => k - 1 \in 0 .. m
    OBVIOUS
  <2>4. \A k \in 0 .. m + 1 : Turn(g, k) = Turn(f, k)
    <3> HIDE DEF g
    <3> QED
      BY <2>2, <2>3
  <2>5. g = [k \in 0 .. m + 1 |-> Turn(g, k)]
    <3>1. g = [k \in 0 .. m + 1 |-> Turn(f, k)]
      OBVIOUS
    <3> HIDE DEF g, Turn
    <3> QED
      BY <2>4, <3>1
  <2> HIDE DEF g, Turn
  <2> QED
    BY <2>5
<1> HIDE DEF S
<1>3. n \in S
  BY <1>1, <1>2, SetInduction
<1> QED
  BY <1>3 DEF S, Walked

(* While the walk goes on it has found all so far; where it stops it has   *)
(* found all there is room for.                                            *)
Shaped(s) == s = [at |-> s.at, found |-> s.found, status |-> s.status,
                  base |-> s.base, ns |-> s.ns, next |-> s.next, reset |-> s.reset]
WalkInv(h, A, k, s) ==
  /\ s.status = "more" => FoundUpto(h, s.found, A, k) /\ s.at = At(h, s.found)
  /\ s.status # "more" => FindsAll(h, s.found, A)

LEMMA StartWalks ==
  ASSUME NEW h \in HeaderSet, NEW A \in SUBSET Nat, IsFiniteSet(A), Sized(A),
         NEW ok \in BOOLEAN, ~ok => FirstArg(h) > h.len
  PROVE  WalkInv(h, A, 0, Start(h, ok))
<1>1. /\ Start(h, ok).status = IF ok THEN "more" ELSE "bad"
      /\ Start(h, ok).found = <<>> /\ Start(h, ok).at = FirstArg(h)
  BY DEF Start
<1> QED
  BY <1>1, NothingYet, NoRoomAtAll DEF WalkInv

LEMMA TakeFieldWalks ==
  ASSUME NEW h \in HeaderSet, NEW A \in SUBSET Nat, IsFiniteSet(A), Sized(A), NEW k \in A, NEW s,
         WalkInv(h, A, k, s), s.status = "more",
         NEW size, size = Size(h, Field(k)),
         Shaped(s)
  PROVE  LET t == TakeField(h, s, Field(k), size)
         IN  /\ WalkInv(h, A, k + 1, t) /\ t.status \in {"more", "bad"}
             /\ Shaped(t) /\ t.base = s.base /\ t.ns = s.ns /\ t.next = s.next /\ t.reset = s.reset
             /\ t.status = "more" => t.at <= h.len /\ t.at = Aligned(s.at, size[1]) + size[2]
<1> DEFINE p == Aligned(s.at, size[1])
           t == TakeField(h, s, Field(k), size)
<1>1. FoundUpto(h, s.found, A, k) /\ s.at = At(h, s.found)
  BY DEF WalkInv
<1>a. p + size[2] \in Nat /\ h.len \in Nat
  <2>1. At(h, s.found) \in Nat /\ size[1] \in {1, 2, 4, 8} /\ size[2] \in Nat /\ h.len \in Nat
    BY <1>1, SizeIs DEF FoundUpto, Sized, HeaderSet
  <2>2. p \in Nat
    BY <1>1, <2>1, AlignedOnce
  <2> QED
    BY <2>1, <2>2
<1>2. CASE p + size[2] > h.len
  <2>0. p + size[2] \notin 0 .. h.len
    BY <1>2, <1>a
  <2>1. t = [s EXCEPT !.status = "bad"]
    BY <2>0 DEF TakeField
  <2>2. t = [at |-> s.at, found |-> s.found, status |-> "bad",
             base |-> s.base, ns |-> s.ns, next |-> s.next, reset |-> s.reset]
    BY <2>1 DEF Shaped
  <2> HIDE DEF t
  <2>3. FindsAll(h, s.found, A)
    BY <1>1, <1>2, StopsAtTooLong
  <2> QED
    BY <2>2, <2>3 DEF WalkInv, Shaped, t
<1>3. CASE ~(p + size[2] > h.len)
  <2>0. p + size[2] \in 0 .. h.len /\ p + size[2] <= h.len
    BY <1>3, <1>a
  <2>1. t = [s EXCEPT !.at = p + size[2], !.found = Append(@, <<Field(k), p>>)]
    BY <2>0 DEF TakeField
  <2>2. t = [at |-> p + size[2], found |-> Append(s.found, <<Field(k), p>>), status |-> "more",
             base |-> s.base, ns |-> s.ns, next |-> s.next, reset |-> s.reset]
    BY <2>1 DEF Shaped
  <2> HIDE DEF t
  <2>4. /\ FoundUpto(h, Append(s.found, <<Field(k), p>>), A, k + 1)
        /\ At(h, Append(s.found, <<Field(k), p>>)) = p + size[2]
    BY <1>1, <2>0, TakePlace
  <2> QED
    BY <2>0, <2>2, <2>4 DEF WalkInv, Shaped, t
<1> QED
  BY <1>2, <1>3

LEMMA PlacesIs ==
  ASSUME NEW k \in Nat
  PROVE  /\ Word(k) \in Nat \ {0} /\ Field(k) \in 0 .. 31
         /\ k = 32 * (Word(k) - 1) + Field(k)
         /\ Word(k + 1) = IF Field(k) = 31 THEN Word(k) + 1 ELSE Word(k)
         /\ Field(k + 1) = IF Field(k) = 31 THEN 0 ELSE Field(k) + 1
  BY DEF Word, Field

LEMMA IterateIs ==
  ASSUME NEW h
  PROVE  \E f : /\ Walked(f, h, FALSE, 14)
                /\ Iterate(h).found = f[14].found
<1> DEFINE st[k \in 0 .. 14] ==
             IF k = 0 THEN IteratorInit(h)
             ELSE LET s == st[k - 1]
                  IN  IF s.status # "more" \/ k - 1 \notin h.words[1] THEN s
                      ELSE TakeField(h, s, k - 1, RtSizes[k - 1])
<1>1. PICK g : Walked(g, h, FALSE, 14)
  BY WalkedExists
<1>2. g = [k \in 0 .. 14 |->
             IF k = 0 THEN IteratorInit(h)
             ELSE IF g[k - 1].status # "more" \/ k - 1 \notin h.words[1] THEN g[k - 1]
                  ELSE TakeField(h, g[k - 1], k - 1, RtSizes[k - 1])]
  BY <1>1, Zenon DEF Walked, Begin, OneBit
<1>3. st = [k \in 0 .. 14 |->
             IF k = 0 THEN IteratorInit(h)
             ELSE IF st[k - 1].status # "more" \/ k - 1 \notin h.words[1] THEN st[k - 1]
                  ELSE TakeField(h, st[k - 1], k - 1, RtSizes[k - 1])]
  BY <1>2, Zenon
<1>4. Iterate(h).found = st[14].found
  BY DEF Iterate
<1> HIDE DEF st
<1>5. Walked(st, h, FALSE, 14)
  BY <1>3, Zenon DEF Walked, Begin, OneBit
<1> QED
  BY <1>4, <1>5

LEMMA IterateFinds ==
  ASSUME NEW h \in HeaderSet
  PROVE  FindsAll(h, Iterate(h).found, h.words[1] \cap 0 .. 13)
<1> DEFINE A == h.words[1] \cap 0 .. 13
<1>1. A \in SUBSET Nat /\ IsFiniteSet(A) /\ \A a \in A : a \in 0 .. 13 /\ Field(a) = a
  <2>1. A \in SUBSET (0 .. 13) /\ IsFiniteSet(0 .. 13)
    <3>1. 0 \in Int /\ 13 \in Int
      OBVIOUS
    <3>2. IsFiniteSet(0 .. 13)
      BY <3>1, FS_Interval
    <3> QED
      BY <3>2
  <2>2. \A a \in 0 .. 13 : Field(a) = a
    BY DEF Field
  <2> QED
    BY <2>1, <2>2, FS_Subset
<1>2. Sized(A)
  BY <1>1 DEF Sized
<1>3. PICK f : Walked(f, h, FALSE, 14) /\ Iterate(h).found = f[14].found
  BY IterateIs
<1> HIDE DEF A
<1> DEFINE Good(k, s) == WalkInv(h, A, k, s) /\ Shaped(s)
           S == {k \in Nat : k <= 14 => Good(k, f[k])}
<1>4. 0 \in S
  <2> DEFINE ok == Len(h.words) = 1 \/ FirstArg(h) - 4 <= h.len
  <2>1. f[0] = Start(h, ok)
    BY <1>3 DEF Walked, Begin, IteratorInit
  <2>2. ~ok => FirstArg(h) > h.len
    BY FirstArgIs DEF HeaderSet
  <2>3. WalkInv(h, A, 0, Start(h, ok))
    <3> HIDE DEF ok
    <3>1. ok \in BOOLEAN
      BY DEF ok
    <3> QED
      BY <1>1, <1>2, <2>2, <3>1, StartWalks
  <2>4. Shaped(f[0])
    BY <2>1 DEF Shaped, Start
  <2> QED
    BY <2>1, <2>3, <2>4
<1>5. ASSUME NEW k \in Nat, k \in S  PROVE k + 1 \in S
  <2> SUFFICES ASSUME k + 1 <= 14 PROVE Good(k + 1, f[k + 1])
    OBVIOUS
  <2>1. Good(k, f[k]) /\ k + 1 \in 0 .. 14 /\ k + 1 # 0 /\ (k + 1) - 1 = k /\ k \in 0 .. 13
    BY <1>5
  <2> DEFINE s == f[k]
  <2>2. f[k + 1] = OneBit(h, FALSE, s, k)
    BY <1>3, <2>1 DEF Walked
  <2>3. CASE s.status # "more"
    <3>1. f[k + 1] = s
      BY <2>2, <2>3 DEF OneBit
    <3> QED
      BY <2>1, <2>3, <3>1 DEF WalkInv
  <2>4. CASE s.status = "more" /\ k \notin A
    <3>1. f[k + 1] = s
      BY <2>1, <2>2, <2>4 DEF OneBit, A
    <3> QED
      BY <1>1, <2>1, <2>4, <3>1, SkipPlace DEF WalkInv
  <2>5. CASE s.status = "more" /\ k \in A
    <3>1. f[k + 1] = TakeField(h, s, k, RtSizes[k])
      BY <2>1, <2>2, <2>5 DEF OneBit, A
    <3>2. Field(k) = k /\ Size(h, k) = RtSizes[k]
      BY <1>1, <2>1, <2>5 DEF Size, NamespaceSizes, VendorNs
    <3>3. LET t == TakeField(h, s, k, RtSizes[k])
          IN  WalkInv(h, A, k + 1, t) /\ Shaped(t)
      BY <1>1, <1>2, <2>1, <2>5, <3>2, TakeFieldWalks
    <3> QED
      BY <3>1, <3>3
  <2> QED
    BY <2>3, <2>4, <2>5
<1>6. Good(14, f[14])
  <2> HIDE DEF Good
  <2>1. 14 \in S
    <3> HIDE DEF S
    <3> QED
      BY <1>4, <1>5, SetInduction
  <2> QED
    BY <2>1
<1>7. f[14].status = "more" => FindsAll(h, f[14].found, A)
  <2> SUFFICES ASSUME f[14].status = "more" PROVE FindsAll(h, f[14].found, A)
    OBVIOUS
  <2> DEFINE found == f[14].found
             n == 14
  <2>1. FoundUpto(h, found, A, n)
    BY <1>6 DEF WalkInv
  <2>2. n \in Nat /\ \A a \in A : a < n
    BY <1>1
  <2> HIDE DEF found, n
  <2> QED
    BY <1>1, <2>1, <2>2, StopsBehindAll DEF found
<1> QED
  BY <1>3, <1>6, <1>7 DEF WalkInv, A

-----------------------------------------------------------------------------
(* What a header announces: finitely many fields, all of known sizes.      *)
Stops(h, k) == Unknown(h.words, k) \/ Astray(h, k)

LEMMA AnnouncedIs ==
  ASSUME NEW h \in HeaderSet
  PROVE  LET A == Announced(h)
         IN  A \in SUBSET Nat /\ IsFiniteSet(A) /\ Sized(A) /\ \A a \in A : a < 32 * Len(h.words)
<1> DEFINE A == Announced(h)
           n == 32 * Len(h.words)
<1>1. n \in Nat
  <2>1. Len(h.words) \in Nat
    BY DEF HeaderSet
  <2> QED
    BY <2>1
<1>2. A \in SUBSET (0 .. n - 1)
  BY DEF Announced, Places
<1>3. A \in SUBSET Nat /\ IsFiniteSet(A) /\ \A a \in A : a < n
  <2>1. A \in SUBSET Nat
    BY <1>2
  <2>2. \A a \in A : a <= n
    BY <1>1, <1>2
  <2>3. \A a \in A : a < n
    BY <1>1, <1>2
  <2> QED
    BY <1>1, <2>1, <2>2, <2>3, FS_BoundedSetOfNaturals
<1>4. ASSUME NEW a \in A  PROVE Field(a) \in 0 .. 22 \ {18} \/ Field(a) = VendorNs
  <2>1. a <= a
    BY <1>3
  <2>2. ~Unknown(h.words, a) /\ ~Astray(h, a)
    BY <2>1 DEF Announced
  <2>3. CASE Field(a) = VendorNs
    BY <2>3
  <2>4. CASE Field(a) < RadiotapNs /\ ~Vendor(h.words, Word(a))
    <3>1. Fresh(h.words, Word(a)) /\ Field(a) \in 0 .. 22
      BY <2>2, <2>4 DEF Unknown
    <3>2. Field(a) # 18
      BY <2>2, <2>4, <3>1 DEF Astray
    <3> QED
      BY <3>1, <3>2
  <2> QED
    BY <2>3, <2>4 DEF Announced
<1> QED
  BY <1>3, <1>4 DEF Sized

LEMMA VendorNext ==
  ASSUME NEW words, NEW w \in Nat \ {0}
  PROVE  /\ Fresh(words, w + 1) <=> Anew(words, w)
         /\ Vendor(words, w + 1) <=> VendorNs \in words[w] \/ (Vendor(words, w) /\ RadiotapNs \notin words[w])
<1>1. Fresh(words, w + 1) <=> Anew(words, w)
  <2>1. w + 1 # 1 /\ (w + 1) - 1 = w
    OBVIOUS
  <2> QED
    BY <2>1 DEF Fresh
<1>2. ASSUME VendorNs \in words[w]  PROVE Vendor(words, w + 1)
  <2>1. w \in 1 .. (w + 1) - 1 /\ w + 1 .. (w + 1) - 1 = {}
    OBVIOUS
  <2> QED
    BY <1>2, <2>1 DEF Vendor
<1>3. ASSUME Vendor(words, w), RadiotapNs \notin words[w]  PROVE Vendor(words, w + 1)
  <2>1. PICK v \in 1 .. w - 1 : VendorNs \in words[v] /\ \A u \in v + 1 .. w - 1 : ~Anew(words, u)
    BY <1>3 DEF Vendor
  <2>2. v \in 1 .. (w + 1) - 1 /\ \A u \in v + 1 .. (w + 1) - 1 : u = w \/ u \in v + 1 .. w - 1
    OBVIOUS
  <2>3. ~Anew(words, w)
    BY <1>3 DEF Anew
  <2> QED
    BY <2>1, <2>2, <2>3 DEF Vendor
<1>4. ASSUME Vendor(words, w + 1), VendorNs \notin words[w]
      PROVE  Vendor(words, w) /\ RadiotapNs \notin words[w]
  <2>1. PICK v \in 1 .. (w + 1) - 1 :
          VendorNs \in words[v] /\ \A u \in v + 1 .. (w + 1) - 1 : ~Anew(words, u)
    BY <1>4 DEF Vendor
  <2>2. v # w
    BY <1>4, <2>1
  <2>3. v \in 1 .. w - 1 /\ w \in v + 1 .. (w + 1) - 1
        /\ \A u \in v + 1 .. w - 1 : u \in v + 1 .. (w + 1) - 1
    BY <2>2
  <2>4. ~Anew(words, w)
    BY <2>1, <2>3
  <2> QED
    BY <1>4, <2>1, <2>3, <2>4 DEF Vendor, Anew
<1> QED
  BY <1>1, <1>2, <1>3, <1>4

(* What radiotap_rc.c knows of the numbering at place k.                   *)
Known(s) == s.ns = "radiotap"
HeadInv(words, k, s) ==
  LET w == Word(k)
      b == Field(k)
  IN  /\ s.base \in Nat
      /\ Known(s) <=> IF b = Ext /\ VendorNs \in words[w] THEN FALSE
                     ELSE ~Vendor(words, w) \/ (b > RadiotapNs /\ RadiotapNs \in words[w])
      /\ s.reset <=> \/ b > RadiotapNs /\ RadiotapNs \in words[w]
                     \/ b = Ext /\ VendorNs \in words[w]
      /\ Fresh(words, w) => s.base = 0
      /\ ~Fresh(words, w) /\ ~Vendor(words, w) => s.base >= 32

(* Behind a place where it goes astray: all announced is found.            *)
Beyond(h, found) ==
  /\ ~StaysOn(h) /\ FindsEach(h, found, Announced(h))
  /\ \E T : found \in Seq(T)
  /\ Len(found) >= Cardinality(Announced(h))

OnTrack(h, k, s) ==
  /\ WalkInv(h, Announced(h), k, s)
  /\ s.status = "more" => /\ s.at <= h.len /\ k < 32 * Len(h.words)
                          /\ \A j \in Places(h.words) : j < k => ~Stops(h, j)
                          /\ HeadInv(h.words, k, s)
                          /\ s.ns = "radiotap" \/ (s.ns = "none" /\ s.at = s.next)

RcInv(h, k, s) == Shaped(s) /\ (OnTrack(h, k, s) \/ Beyond(h, s.found))

LEMMA AtPlace ==
  ASSUME NEW h \in HeaderSet, NEW k \in Nat, k < 32 * Len(h.words),
         \A j \in Places(h.words) : j < k => ~Stops(h, j)
  PROVE  LET words == h.words  A == Announced(h)  w == Word(k)  b == Field(k)
         IN  /\ w \in 1 .. Len(words) /\ w \in Nat /\ Len(words) \in Nat /\ words[w] \in SUBSET (0 .. 30)
             /\ k \in A <=> /\ b \in words[w] /\ ~Stops(h, k)
                            /\ b = VendorNs \/ (b < RadiotapNs /\ ~Vendor(words, w))
             /\ b \in words[w] /\ Stops(h, k) => \A a \in A : a < k
             /\ b \in words[w] => b # Ext
             /\ ~(b \in words[w] /\ Stops(h, k)) => \A j \in Places(words) : j < k + 1 => ~Stops(h, j)
             /\ b # Ext => k + 1 < 32 * Len(words)
             /\ b = Ext /\ w # Len(words) => k + 1 < 32 * Len(words)
             /\ b = Ext /\ w = Len(words) => \A a \in A : a < k + 1
<1> DEFINE words == h.words
           A == Announced(h)
           w == Word(k)
           b == Field(k)
           n == Len(words)
<1>1. words \in Seq(SUBSET (0 .. 30)) /\ n \in Nat
  BY DEF HeaderSet
<1>2. /\ w \in Nat \ {0} /\ b \in 0 .. 31 /\ k = 32 * (w - 1) + b
  BY PlacesIs
<1> HIDE DEF w, b, n
<1>3. w \in 1 .. n /\ k \in 0 .. 32 * n - 1
  <2>1. k < 32 * n
    BY DEF n
  <2> QED
    BY <1>1, <1>2, <2>1
<1>4. words[w] \in SUBSET (0 .. 30)
  <2>1. ASSUME NEW S, NEW q \in Seq(S), NEW i \in 1 .. Len(q)  PROVE q[i] \in S
    OBVIOUS
  <2> QED
    BY <1>1, <1>3, <2>1, Zenon DEF n
<1>5. k \in Places(words) <=> b \in words[w]
  BY <1>3 DEF Places, w, b, n
<1>6. \A j \in Places(words) : j \in Nat /\ (j <= k <=> j < k \/ j = k) /\ (j < k + 1 <=> j < k \/ j = k)
  <2>1. Places(words) \in SUBSET (0 .. 32 * n - 1)
    BY DEF Places, n
  <2>2. \A j \in 0 .. 32 * n - 1 : j \in Nat
    BY <1>1
  <2> QED
    BY <2>1, <2>2
<1>7. k \in A <=> /\ b \in words[w] /\ ~Stops(h, k)
                  /\ b = VendorNs \/ (b < RadiotapNs /\ ~Vendor(words, w))
  BY <1>5, <1>6, Zenon DEF Announced, Stops, w, b
<1>8. ASSUME b \in words[w], Stops(h, k), NEW a \in A  PROVE a < k
  <2>1. a \in Places(words) /\ (k <= a => ~Stops(h, k))
    BY <1>5, <1>8 DEF Announced, Stops
  <2> QED
    BY <1>6, <1>8, <2>1
<1>9. ~(b \in words[w] /\ Stops(h, k)) => \A j \in Places(words) : j < k + 1 => ~Stops(h, j)
  BY <1>5, <1>6, Zenon
<1>10. b \in words[w] => b # Ext
  <2>1. b \in words[w] => b \in 0 .. 30
    BY <1>4, Zenon
  <2>2. b \in 0 .. 30 => b # Ext
    BY DEF Ext
  <2> QED
    BY <2>1, <2>2, Zenon
<1>11. (b # Ext \/ w # n) => k + 1 < 32 * n
  BY <1>1, <1>2, <1>3 DEF Ext
<1>12. ASSUME b = Ext, w = n, NEW a \in A  PROVE a < k + 1
  <2>1. a \in 0 .. 32 * n - 1
    BY DEF Announced, Stops, Places, n
  <2> QED
    BY <1>1, <1>2, <1>12, <2>1 DEF Ext
<1> QED
  BY <1>1, <1>2, <1>3, <1>4, <1>7, <1>8, <1>9, <1>10, <1>11, <1>12 DEF w, b, n

(* The bits of a word and the step to the next word keep what is known.    *)
LEMMA HeadStays ==
  ASSUME NEW words, NEW k \in Nat, NEW s, NEW t, HeadInv(words, k, s), Field(k) # Ext,
         t.base = s.base,
         Known(t) <=> IF Field(k) > VendorNs \/ Field(k) \notin words[Word(k)] THEN Known(s)
                     ELSE IF Field(k) = VendorNs THEN FALSE ELSE IF Field(k) = RadiotapNs THEN TRUE ELSE Known(s),
         t.reset <=> s.reset \/ (Field(k) \in {RadiotapNs, VendorNs} /\ Field(k) \in words[Word(k)])
  PROVE  HeadInv(words, k + 1, t)
<1> DEFINE w == Word(k)
           b == Field(k)
<1>1. w \in Nat /\ b \in 0 .. 30 /\ Word(k + 1) = w /\ Field(k + 1) = b + 1
  BY PlacesIs DEF Ext
<1>2. HeadInv(words, k, s) = HeadInv(words, k, s) /\ b # 31
  BY DEF Ext
<1>3. /\ s.base \in Nat
      /\ Known(s) <=> ~Vendor(words, w) \/ (b > 29 /\ 29 \in words[w])
      /\ s.reset <=> b > 29 /\ 29 \in words[w]
      /\ Fresh(words, w) => s.base = 0
      /\ ~Fresh(words, w) /\ ~Vendor(words, w) => s.base >= 32
  BY <1>2 DEF HeadInv, Ext, RadiotapNs
<1> HIDE DEF w, b
<1>4. /\ Known(t) <=> IF b \notin words[w] THEN Known(s)
                     ELSE IF b = 30 THEN FALSE ELSE IF b = 29 THEN TRUE ELSE Known(s)
      /\ t.reset <=> s.reset \/ (b \in {29, 30} /\ b \in words[w])
  BY <1>1 DEF w, b, RadiotapNs, VendorNs
<1>5. Known(t) <=> IF b + 1 = 31 /\ 30 \in words[w] THEN FALSE
                  ELSE ~Vendor(words, w) \/ (b + 1 > 29 /\ 29 \in words[w])
  BY <1>1, <1>3, <1>4
<1>6. t.reset <=> (b + 1 > 29 /\ 29 \in words[w]) \/ (b + 1 = 31 /\ 30 \in words[w])
  BY <1>1, <1>3, <1>4
<1> QED
  BY <1>1, <1>3, <1>5, <1>6 DEF HeadInv, w, Ext, RadiotapNs, VendorNs

LEMMA NextWordIs ==
  ASSUME NEW s, Shaped(s)
  PROVE  NextWord(s) = [at |-> s.at, found |-> s.found, status |-> s.status,
                        base |-> IF s.reset THEN 0 ELSE s.base + 32, ns |-> s.ns, next |-> s.next, reset |-> FALSE]
<1> DEFINE base == IF s.reset THEN 0 ELSE s.base + 32
           u == [s EXCEPT !.base = base]
           t == NextWord(s)
<1>1. t = [u EXCEPT !.reset = FALSE]
  BY DEF NextWord
<1> HIDE DEF base
<1>2. u = [at |-> s.at, found |-> s.found, status |-> s.status,
           base |-> base, ns |-> s.ns, next |-> s.next, reset |-> s.reset]
  BY DEF Shaped
<1> HIDE DEF u, t
<1> QED
  BY <1>1, <1>2 DEF base, t

LEMMA HeadTurns ==
  ASSUME NEW words, NEW k \in Nat, NEW s, HeadInv(words, k, s), Field(k) = Ext, Shaped(s)
  PROVE  HeadInv(words, k + 1, NextWord(s))
<1> DEFINE w == Word(k)
           t == NextWord(s)
<1>1. w \in Nat \ {0} /\ Word(k + 1) = w + 1 /\ Field(k + 1) = 0
  BY PlacesIs DEF Ext
<1>2. /\ Fresh(words, w + 1) <=> Anew(words, w)
      /\ Vendor(words, w + 1) <=> VendorNs \in words[w] \/ (Vendor(words, w) /\ RadiotapNs \notin words[w])
  BY <1>1, VendorNext
<1>3. t = [at |-> s.at, found |-> s.found, status |-> s.status,
           base |-> IF s.reset THEN 0 ELSE s.base + 32, ns |-> s.ns, next |-> s.next, reset |-> FALSE]
  BY NextWordIs
<1>4. /\ t.base = (IF s.reset THEN 0 ELSE s.base + 32) /\ Known(t) = Known(s) /\ t.reset = FALSE
  BY <1>3 DEF Known
<1>5. /\ s.base \in Nat
      /\ Known(s) <=> VendorNs \notin words[w] /\ (~Vendor(words, w) \/ RadiotapNs \in words[w])
      /\ s.reset <=> RadiotapNs \in words[w] \/ VendorNs \in words[w]
  BY DEF HeadInv, Ext, RadiotapNs
<1> HIDE DEF w, t
<1>6. Known(t) <=> ~Vendor(words, w + 1)
  BY <1>2, <1>4, <1>5
<1>7. /\ t.base \in Nat
      /\ Fresh(words, w + 1) => t.base = 0
      /\ ~Fresh(words, w + 1) /\ ~Vendor(words, w + 1) => t.base >= 32
  BY <1>2, <1>4, <1>5 DEF Anew
<1> QED
  BY <1>1, <1>4, <1>6, <1>7 DEF HeadInv, Ext, RadiotapNs, t

(* However it goes on, what was found stays.                               *)
AddsTo(t, s) == Shaped(t) /\ (t.found = s.found \/ \E x : t.found = Append(s.found, x))

LEMMA BitAdds ==
  ASSUME NEW h, NEW s, Shaped(s), NEW w, NEW b
  PROVE  AddsTo(Bit(h, s, w, b), s)
<1> DEFINE Good(t) == AddsTo(t, s)
<1> USE DEF AddsTo
<1>1. Good(s)
  OBVIOUS
<1>2. ASSUME NEW t, Good(t), NEW x
      PROVE  /\ Good([t EXCEPT !.at = x]) /\ Good([t EXCEPT !.status = x]) /\ Good([t EXCEPT !.next = x])
             /\ Good([t EXCEPT !.ns = x]) /\ Good([t EXCEPT !.reset = x]) /\ Good([t EXCEPT !.base = x])
  <2>1. /\ [t EXCEPT !.at = x].found = t.found /\ [t EXCEPT !.status = x].found = t.found
        /\ [t EXCEPT !.next = x].found = t.found /\ [t EXCEPT !.ns = x].found = t.found
        /\ [t EXCEPT !.reset = x].found = t.found /\ [t EXCEPT !.base = x].found = t.found
    BY <1>2 DEF Shaped
  <2>2. Shaped([t EXCEPT !.at = x]) /\ Shaped([t EXCEPT !.status = x])
    BY <1>2 DEF Shaped
  <2>3. Shaped([t EXCEPT !.next = x]) /\ Shaped([t EXCEPT !.ns = x])
    BY <1>2 DEF Shaped
  <2>4. Shaped([t EXCEPT !.reset = x]) /\ Shaped([t EXCEPT !.base = x])
    BY <1>2 DEF Shaped
  <2> QED
    BY <1>2, <2>1, <2>2, <2>3, <2>4
<1>3. ASSUME NEW f, NEW size
      PROVE  Good(TakeField(h, s, f, size))
  <2>1. ASSUME NEW at, NEW x  PROVE Good([s EXCEPT !.at = at, !.found = Append(@, x)])
    <3> DEFINE u == [s EXCEPT !.at = at]
    <3>1. u = [at |-> at, found |-> s.found, status |-> s.status,
               base |-> s.base, ns |-> s.ns, next |-> s.next, reset |-> s.reset]
      BY DEF Shaped
    <3> HIDE DEF u
    <3>2. [u EXCEPT !.found = Append(@, x)]
            = [at |-> at, found |-> Append(s.found, x), status |-> s.status,
               base |-> s.base, ns |-> s.ns, next |-> s.next, reset |-> s.reset]
      BY <3>1
    <3>3. Good([u EXCEPT !.found = Append(@, x)])
      BY <3>2 DEF Shaped
    <3> QED
      BY <3>3 DEF u
  <2> HIDE DEF Good
  <2> QED
    BY <1>1, <1>2, <2>1 DEF TakeField
<1> HIDE DEF Good, AddsTo
<1>4. ASSUME NEW t, Good(t), NEW next, NEW ns
      PROVE  Good([t EXCEPT !.next = next, !.ns = ns, !.reset = TRUE])
  <2> DEFINE t1 == [t EXCEPT !.next = next]
             t2 == [t1 EXCEPT !.ns = ns]
  <2>1. Good([t2 EXCEPT !.reset = TRUE])
    BY <1>2, <1>4
  <2> QED
    BY <2>1
<1>5. ASSUME NEW at, NEW next
      PROVE  Good([s EXCEPT !.at = at, !.next = next, !.ns = "vendor", !.reset = TRUE])
  <2> DEFINE s1 == [s EXCEPT !.at = at]
  <2>1. Good([s1 EXCEPT !.next = next, !.ns = "vendor", !.reset = TRUE])
    BY <1>1, <1>2, <1>4
  <2> QED
    BY <2>1
<1>6. Good(NextWord(s)) /\ Good(GiveUp(s)) /\ Good([s EXCEPT !.ns = "radiotap", !.reset = TRUE])
  <2>1. \A x, y : Good([[s EXCEPT !.at = x] EXCEPT !.ns = y])
    BY <1>1, <1>2
  <2>2. \A x, y : Good([[s EXCEPT !.ns = x] EXCEPT !.reset = y])
    BY <1>1, <1>2
  <2>3. \A x, y : Good([[s EXCEPT !.base = x] EXCEPT !.reset = y])
    BY <1>1, <1>2
  <2> QED
    BY <2>1, <2>2, <2>3 DEF NextWord, GiveUp
<1>7. ASSUME NEW v  PROVE Good(TakeVendor(h, s, v))
  <2>1. \A size : Good(TakeField(h, s, VendorNs, size))
    BY <1>3
  <2> QED
    BY <1>1, <1>2, <1>4, <1>5, <2>1 DEF TakeVendor
<1>8. CASE b = Ext \/ b \notin h.words[w] \/ b = RadiotapNs \/ b = VendorNs
  <2>1. Good([s EXCEPT !.status = "end"]) /\ Good([s EXCEPT !.status = "bad"])
    BY <1>1, <1>2
  <2>2. Good(Bit(h, s, w, b))
    BY <1>1, <1>6, <1>7, <1>8, <2>1 DEF Bit
  <2> QED
    BY <2>2 DEF Good
<1>9. CASE ~(b = Ext \/ b \notin h.words[w] \/ b = RadiotapNs \/ b = VendorNs)
  <2> DEFINE f == s.base + b
  <2>1. Bit(h, s, w, b) \in {[s EXCEPT !.status = "end"], TakeField(h, s, f, NamespaceSizes[f]),
                            TakeField(h, s, f, <<1, 4>>), GiveUp(s)}
    BY <1>9 DEF Bit
  <2>2. \A size : Good(TakeField(h, s, f, size))
    BY <1>3
  <2>3. Good([s EXCEPT !.status = "end"])
    BY <1>1, <1>2
  <2> HIDE DEF f
  <2>4. Good(Bit(h, s, w, b))
    BY <1>6, <2>1, <2>2, <2>3
  <2> QED
    BY <2>4 DEF Good
<1> QED
  BY <1>8, <1>9

LEMMA BeyondStays ==
  ASSUME NEW h \in HeaderSet, NEW found, NEW x, Beyond(h, found)
  PROVE  Beyond(h, Append(found, x))
<1> DEFINE A == Announced(h)
           more == Append(found, x)
<1>1. A \in SUBSET Nat /\ IsFiniteSet(A) /\ Cardinality(A) \in Nat
  BY AnnouncedIs, FS_CardinalityType
<1>2. PICK T : found \in Seq(T)
  BY DEF Beyond
<1>3. found \in Seq(T \cup {x})
  BY <1>2
<1>4. /\ Len(found) \in Nat /\ more \in Seq(T \cup {x}) /\ Len(more) = Len(found) + 1
      /\ \A i \in 1 .. Len(found) : more[i] = found[i]
  BY <1>3
<1>5. Len(found) >= Cardinality(A) /\ ~StaysOn(h) /\ FindsEach(h, found, A)
  BY DEF Beyond
<1>6. ASSUME NEW a \in A  PROVE Rank(A, a) \in 1 .. Len(found)
  <2>1. a \in Nat /\ a + 1 \in Nat /\ a \in Upto(A, a + 1)
    BY <1>1 DEF Upto
  <2>2. Rank(A, a) \in 1 .. Cardinality(Upto(A, a + 1))
    BY <1>1, <2>1, RankBelow
  <2>3. Cardinality(Upto(A, a + 1)) <= Cardinality(A) /\ Cardinality(Upto(A, a + 1)) \in Nat
    <3>1. Upto(A, a + 1) \subseteq A
      BY DEF Upto
    <3> QED
      BY <1>1, <2>1, <3>1, RankIs, FS_Subset
  <2> QED
    BY <1>1, <1>4, <1>5, <2>2, <2>3
<1> HIDE DEF more
<1>7. ASSUME NEW i \in 1 .. Len(found)
      PROVE  more[i] = found[i] /\ Behind(h, more, i) = Behind(h, found, i)
  <2>1. i # 1 => i - 1 \in 1 .. Len(found)
    BY <1>4
  <2> QED
    BY <1>4, <2>1 DEF Behind
<1>8. FindsEach(h, more, A)
  <2> SUFFICES ASSUME NEW a \in A, NEW i, i = Rank(A, a)
               PROVE  /\ more[i][1] = Field(a) /\ more[i][2] <= h.len - Size(h, Field(a))[2]
                      /\ RightPlace(h, Field(a), Behind(h, more, i), more[i][2])
                      /\ i # Len(more) + 1
    BY DEF FindsEach
  <2>1. i \in 1 .. Len(found)
    BY <1>6
  <2>2. i <= Len(found) /\ i # Len(more) + 1
    BY <1>4, <2>1
  <2>3. /\ found[i][1] = Field(a) /\ found[i][2] <= h.len - Size(h, Field(a))[2]
        /\ RightPlace(h, Field(a), Behind(h, found, i), found[i][2])
    BY <1>5, <2>2 DEF FindsEach
  <2> QED
    BY <1>7, <2>1, <2>2, <2>3
<1>9. Len(more) >= Cardinality(A)
  BY <1>1, <1>4, <1>5
<1> QED
  BY <1>4, <1>5, <1>8, <1>9 DEF Beyond, more

LEMMA RcStep ==
  ASSUME NEW h \in HeaderSet, NEW k \in Nat, NEW s, RcInv(h, k, s)
  PROVE  RcInv(h, k + 1, OneBit(h, TRUE, s, k))
<1> DEFINE words == h.words
           A == Announced(h)
           w == Word(k)
           b == Field(k)
           t == OneBit(h, TRUE, s, k)
<1>1. A \in SUBSET Nat /\ IsFiniteSet(A) /\ Sized(A)
  BY AnnouncedIs
<1>2. CASE s.status # "more" /\ OnTrack(h, k, s)
  <2>1. t = s
    BY <1>2 DEF OneBit
  <2> QED
    BY <1>2, <2>1 DEF RcInv, OnTrack, WalkInv
<1>b. CASE Beyond(h, s.found)
  <2>0. Shaped(s)
    BY DEF RcInv
  <2>a. AddsTo(s, s)
    BY <2>0 DEF AddsTo
  <2>b. AddsTo(Bit(h, s, w, b), s)
    BY <2>0, BitAdds
  <2>2. t = s \/ t = Bit(h, s, w, b)
    BY DEF OneBit, Word, Field
  <2> HIDE DEF t
  <2>3. Shaped(t) /\ (t.found = s.found \/ \E x : t.found = Append(s.found, x))
    BY <2>a, <2>b, <2>2 DEF AddsTo
  <2>4. Beyond(h, t.found)
    BY <1>b, <2>3, BeyondStays
  <2> QED
    BY <2>3, <2>4 DEF RcInv, t
<1>3. CASE s.status = "more" /\ OnTrack(h, k, s)
  <2>1. t = Bit(h, s, w, b)
    BY <1>3 DEF OneBit, Word, Field
  <2>2. /\ Shaped(s) /\ FoundUpto(h, s.found, A, k) /\ s.at = At(h, s.found)
        /\ s.at <= h.len /\ k < 32 * Len(words)
        /\ \A j \in Places(words) : j < k => ~Stops(h, j)
        /\ HeadInv(words, k, s)
        /\ s.ns = "radiotap" \/ (s.ns = "none" /\ s.at = s.next)
        /\ WalkInv(h, A, k, s)
    BY <1>3 DEF RcInv, OnTrack, WalkInv
  <2>3. /\ w \in 1 .. Len(words) /\ w \in Nat /\ Len(words) \in Nat /\ words[w] \in SUBSET (0 .. 30)
        /\ k \in A <=> /\ b \in words[w] /\ ~Stops(h, k)
                       /\ b = VendorNs \/ (b < RadiotapNs /\ ~Vendor(words, w))
        /\ b \in words[w] /\ Stops(h, k) => \A a \in A : a < k
        /\ b \in words[w] => b # Ext
        /\ ~(b \in words[w] /\ Stops(h, k)) => \A j \in Places(words) : j < k + 1 => ~Stops(h, j)
        /\ b # Ext => k + 1 < 32 * Len(words)
        /\ b = Ext /\ w # Len(words) => k + 1 < 32 * Len(words)
        /\ b = Ext /\ w = Len(words) => \A a \in A : a < k + 1
    BY <2>2, AtPlace
  <2>4. b \in 0 .. 31
    BY PlacesIs
  <2>5. s.at \in Nat /\ h.len \in Nat
    BY <2>2 DEF FoundUpto, HeaderSet
  <2> SUFFICES RcInv(h, k + 1, t)
    BY DEF t
  <2> HIDE DEF A, w, b, t, words
  <2>10. ASSUME k \notin A  PROVE FoundUpto(h, s.found, A, k + 1)
    BY <1>1, <2>2, <2>10, SkipPlace
  <2>11. ASSUME \A a \in A : a < k, NEW r, t = [s EXCEPT !.status = r], r # "more"
         PROVE  RcInv(h, k + 1, t)
    <3>1. t.status # "more" /\ t.found = s.found /\ Shaped(t)
      BY <2>2, <2>11 DEF Shaped
    <3>2. FindsAll(h, s.found, A)
      BY <1>1, <2>2, <2>11, StopsBehindAll
    <3> QED
      BY <3>1, <3>2 DEF RcInv, OnTrack, WalkInv, A, words
  <2>12. ASSUME k \notin A, ~(b \in words[w] /\ Stops(h, k)), b # Ext \/ w # Len(words),
                Shaped(t), t.status = "more", t.at = s.at, t.found = s.found, HeadInv(words, k + 1, t),
                t.ns = "radiotap" \/ (t.ns = "none" /\ t.at = t.next)
         PROVE  RcInv(h, k + 1, t)
    BY <2>2, <2>3, <2>10, <2>12 DEF RcInv, OnTrack, WalkInv, A, words
  <2>13. ASSUME k \in A, b # Ext, Shaped(t), WalkInv(h, A, k + 1, t),
                t.status = "more" => /\ t.at <= h.len /\ HeadInv(words, k + 1, t)
                                     /\ t.ns = "radiotap" \/ (t.ns = "none" /\ t.at = t.next)
         PROVE  RcInv(h, k + 1, t)
    BY <2>3, <2>13 DEF RcInv, OnTrack, A, words
  <2>14. ASSUME Astray(h, k), b \in words[w], Shaped(t), t.found = s.found
         PROVE  RcInv(h, k + 1, t)
    <3>1. \A a \in A : a < k
      BY <2>3, <2>14 DEF Stops
    <3>2. FindsAll(h, s.found, A)
      BY <1>1, <2>2, <3>1, StopsBehindAll
    <3>3. Len(s.found) = Cardinality(A) /\ s.found \in Seq(Nat \X Nat) /\ Len(s.found) \in Nat
      <4>1. Upto(A, k) = A
        BY <3>1 DEF Upto
      <4> QED
        BY <2>2, <4>1 DEF FoundUpto
    <3>4. ~StaysOn(h)
      <4>1. k \in Places(words)
        BY <2>2, <2>3, <2>14 DEF Places, w, b
      <4> QED
        BY <2>2, <2>14, <4>1 DEF StaysOn, Stops, words
    <3>5. Beyond(h, t.found)
      BY <2>14, <3>2, <3>3, <3>4 DEF Beyond, FindsAll, A
    <3> QED
      BY <2>14, <3>5 DEF RcInv
  <2>20. CASE b = Ext /\ w = Len(words)
    <3>1. t = [s EXCEPT !.status = "end"]
      BY <2>1, <2>20 DEF Bit, words
    <3>2. k \notin A
      BY <2>3, <2>20
    <3>3. FindsAll(h, s.found, A)
      BY <1>1, <2>3, <2>10, <2>20, <3>2, StopsBehindAll
    <3>4. t.status # "more" /\ t.found = s.found /\ Shaped(t)
      BY <2>2, <3>1 DEF Shaped
    <3> QED
      BY <3>3, <3>4 DEF RcInv, OnTrack, WalkInv, A, words
  <2>21. CASE b = Ext /\ w # Len(words)
    <3>a. s.at \in 0 .. h.len
      BY <2>2, <2>5
    <3>1. t = NextWord(s)
      BY <2>1, <3>a, <2>21 DEF Bit, words
    <3>2. HeadInv(words, k + 1, t)
      BY <2>2, <2>21, <3>1, HeadTurns DEF b
    <3>3. k \notin A
      BY <2>3, <2>21
    <3>4. /\ Shaped(t) /\ t.status = "more" /\ t.at = s.at /\ t.found = s.found
          /\ t.ns = s.ns /\ t.next = s.next
      BY <1>3, <2>2, <3>1, NextWordIs DEF Shaped
    <3> QED
      BY <2>2, <2>3, <2>12, <2>21, <3>2, <3>3, <3>4
  <2>22. CASE b # Ext /\ b \notin words[w]
    <3>1. t = s
      BY <2>1, <2>22 DEF Bit, words
    <3>2. HeadInv(words, k + 1, t)
      BY <2>2, <2>22, <3>1, HeadStays DEF b, w
    <3> QED
      BY <1>3, <2>2, <2>3, <2>12, <2>22, <3>1, <3>2
  <2>23. CASE b = RadiotapNs /\ b \in words[w]
    <3>a. s.at \in 0 .. h.len
      BY <2>2, <2>5
    <3>1. t = [s EXCEPT !.ns = "radiotap", !.reset = TRUE]
      BY <2>1, <2>3, <2>23, <3>a DEF Bit, words
    <3>2. t = [at |-> s.at, found |-> s.found, status |-> s.status,
               base |-> s.base, ns |-> "radiotap", next |-> s.next, reset |-> TRUE]
      BY <2>2, <3>1 DEF Shaped
    <3>3. /\ Shaped(t) /\ t.at = s.at /\ t.found = s.found /\ t.status = s.status
          /\ t.base = s.base /\ t.ns = "radiotap" /\ Known(t) = TRUE /\ t.reset = TRUE
      BY <3>2 DEF Shaped, Known
    <3>4. b = 29 /\ b # VendorNs /\ ~(b > VendorNs)
      BY <2>23 DEF RadiotapNs, VendorNs
    <3>5. HeadInv(words, k + 1, t)
      BY <2>2, <2>3, <2>23, <3>3, <3>4, HeadStays DEF b, w
    <3>6. k \notin A /\ ~Stops(h, k)
      BY <2>3, <2>23 DEF RadiotapNs, VendorNs, Stops, Unknown, Astray, b
    <3> QED
      BY <1>3, <2>3, <2>12, <2>23, <3>3, <3>5, <3>6
  <2>24. CASE b = VendorNs /\ b \in words[w]
    <3> DEFINE v == Aligned(s.at, 2)
               sz == <<2, 6 + h.vlen>>
               u == TakeField(h, s, b, sz)
    <3>0. /\ b = 30 /\ b # Ext /\ b # RadiotapNs /\ ~(b > VendorNs) /\ v \in Nat /\ h.vlen \in Nat
          /\ sz[1] = 2 /\ sz[2] = 6 + h.vlen
      <4>1. b = 30 /\ b # Ext /\ b # RadiotapNs /\ ~(b > VendorNs)
        BY <2>24 DEF Ext, RadiotapNs, VendorNs
      <4>2. h.vlen \in Nat
        BY DEF HeaderSet
      <4>3. v \in Nat
        BY <2>5, AlignedOnce
      <4> QED
        BY <4>1, <4>2, <4>3
    <3>1. t = TakeVendor(h, s, w)
      BY <2>1, <2>24, <3>0 DEF Bit, words
    <3>2. ~Unknown(words, k)
      BY <2>24, <3>0 DEF Unknown, b, RadiotapNs
    <3>3. CASE w \in h.ours
      <4>1. Astray(h, k)
        BY <2>24, <3>3 DEF Astray, b, w
      <4>2. CASE v + 6 \notin 0 .. h.len
        <5>1. t = [s EXCEPT !.status = "bad"]
          BY <3>1, <4>2 DEF TakeVendor
        <5>2. \A a \in A : a < k
          BY <2>3, <2>24, <4>1 DEF Stops
        <5> QED
          BY <2>11, <5>1, <5>2
      <4>3. CASE v + 6 \in 0 .. h.len
        <5>1. t = [s EXCEPT !.at = v + 6, !.next = v + 6 + h.vlen, !.ns = "vendor", !.reset = TRUE]
          BY <3>1, <3>3, <4>3 DEF TakeVendor
        <5>2. t = [at |-> v + 6, found |-> s.found, status |-> s.status,
                   base |-> s.base, ns |-> "vendor", next |-> v + 6 + h.vlen, reset |-> TRUE]
          BY <2>2, <5>1 DEF Shaped
        <5>3. Shaped(t) /\ t.found = s.found
          BY <5>2 DEF Shaped
        <5> QED
          BY <2>14, <2>24, <4>1, <5>3
      <4> QED
        BY <4>2, <4>3
    <3>4. CASE w \notin h.ours
      <4>1. ~Astray(h, k) /\ ~Stops(h, k)
        BY <2>24, <3>0, <3>2, <3>4 DEF Astray, Stops, b, w, words
      <4>2. k \in A
        BY <2>3, <2>24, <4>1
      <4>3. sz = Size(h, b)
        BY <2>24 DEF Size
      <4>4. CASE v + 6 \notin 0 .. h.len
        <5>1. t = [s EXCEPT !.status = "bad"]
          BY <3>1, <4>4 DEF TakeVendor
        <5>2. v + sz[2] > h.len
          BY <2>5, <3>0, <4>4
        <5>3. FindsAll(h, s.found, A)
          <6>1. Aligned(At(h, s.found), Size(h, Field(k))[1]) + Size(h, Field(k))[2] > h.len
            BY <2>2, <3>0, <4>3, <5>2 DEF b
          <6> QED
            BY <1>1, <2>2, <4>2, <6>1, StopsAtTooLong
        <5>4. t = [at |-> s.at, found |-> s.found, status |-> "bad",
                   base |-> s.base, ns |-> s.ns, next |-> s.next, reset |-> s.reset]
          BY <2>2, <5>1 DEF Shaped
        <5>5. Shaped(t) /\ t.found = s.found /\ t.status # "more"
          BY <5>4 DEF Shaped
        <5> QED
          BY <5>3, <5>5 DEF RcInv, OnTrack, WalkInv, A
      <4>5. CASE v + 6 \in 0 .. h.len
        <5>1. t = [u EXCEPT !.next = v + 6 + h.vlen, !.ns = "none", !.reset = TRUE]
          BY <2>24, <3>1, <3>4, <4>5 DEF TakeVendor
        <5>2. /\ WalkInv(h, A, k + 1, u) /\ u.status \in {"more", "bad"} /\ Shaped(u)
              /\ u.base = s.base
              /\ u.status = "more" => u.at <= h.len /\ u.at = Aligned(s.at, sz[1]) + sz[2]
          <6> HIDE DEF sz
          <6> QED
            BY <1>1, <1>3, <2>2, <4>2, <4>3, TakeFieldWalks DEF b
        <5> HIDE DEF u
        <5>3. t = [at |-> u.at, found |-> u.found, status |-> u.status,
                   base |-> u.base, ns |-> "none", next |-> v + 6 + h.vlen, reset |-> TRUE]
          BY <5>1, <5>2 DEF Shaped
        <5>4. /\ Shaped(t) /\ t.at = u.at /\ t.found = u.found /\ t.status = u.status
              /\ t.base = u.base /\ t.ns = "none" /\ t.next = v + 6 + h.vlen /\ t.reset = TRUE
              /\ Known(t) = FALSE
          BY <5>3 DEF Shaped, Known
        <5>5. WalkInv(h, A, k + 1, t)
          BY <5>2, <5>4 DEF WalkInv
        <5>6. HeadInv(words, k + 1, t)
          BY <2>2, <2>3, <2>24, <3>0, <5>2, <5>4, HeadStays DEF b, w
        <5>7. t.status = "more" => t.at = t.next
          BY <3>0, <5>2, <5>4
        <5> QED
          BY <2>13, <3>0, <4>2, <5>2, <5>4, <5>5, <5>6, <5>7
      <4> QED
        BY <4>4, <4>5
    <3> QED
      BY <3>3, <3>4
  <2>25. CASE b < RadiotapNs /\ b \in words[w] /\ ~Known(s)
    <3>1. b # Ext /\ b # RadiotapNs /\ b # VendorNs /\ ~(b > RadiotapNs) /\ ~(b > VendorNs)
      BY <2>4, <2>25 DEF RadiotapNs, VendorNs, Ext
    <3>a. s.ns = "none" /\ s.at = s.next
      BY <2>2, <2>25 DEF Known
    <3>b. t = GiveUp(s)
      BY <2>1, <2>25, <3>1, <3>a DEF Bit, words
    <3>2. t = s
      BY <2>2, <3>a, <3>b DEF GiveUp, Shaped
    <3>3. Vendor(words, w)
      BY <2>2, <2>25, <3>1 DEF HeadInv, b, w
    <3>4. k \notin A /\ ~Stops(h, k)
      BY <2>3, <3>1, <3>3 DEF Stops, Unknown, Astray, b, w, words
    <3>5. HeadInv(words, k + 1, t)
      BY <2>2, <3>1, <3>2, HeadStays DEF b, w
    <3> QED
      BY <1>3, <2>2, <2>12, <3>1, <3>2, <3>4, <3>5
  <2>26. CASE b < RadiotapNs /\ b \in words[w] /\ Known(s)
    <3>1. b # Ext /\ b # RadiotapNs /\ b # VendorNs /\ ~(b > RadiotapNs) /\ ~(b > VendorNs)
      BY <2>4, <2>26 DEF RadiotapNs, VendorNs, Ext
    <3>2. /\ s.base \in Nat /\ ~Vendor(words, w)
          /\ Fresh(words, w) => s.base = 0
          /\ ~Fresh(words, w) => s.base >= 32
      BY <2>2, <2>26, <3>1 DEF HeadInv, b, w
    <3>3. Unknown(words, k) <=> (Fresh(words, w) => b \notin 0 .. 22)
      BY <2>26, <3>2 DEF Unknown, b, w
    <3>a. s.ns = "radiotap"
      BY <2>26 DEF Known
    <3>4. CASE s.base + b >= NsBits
      <4>1. t = [s EXCEPT !.status = "end"]
        <5> DEFINE f == s.base + b
        <5>1. f >= NsBits /\ f \notin 0 .. NsBits - 1 \ {18} /\ s.ns # "vendor"
          BY <2>4, <3>2, <3>4, <3>a DEF NsBits
        <5>2. t = CASE s.ns = "radiotap" /\ f >= NsBits -> [s EXCEPT !.status = "end"]
                    [] s.ns = "radiotap" /\ f \in 0 .. NsBits - 1 \ {18}
                         -> TakeField(h, s, f, NamespaceSizes[f])
                    [] s.ns = "vendor" /\ f \in OwnFields -> TakeField(h, s, f, <<1, 4>>)
                    [] OTHER -> GiveUp(s)
          BY <2>1, <2>26, <3>1 DEF Bit, words
        <5> HIDE DEF f
        <5> QED
          BY <3>a, <5>1, <5>2
      <4>2. Unknown(words, k)
        BY <2>4, <3>2, <3>3, <3>4 DEF NsBits
      <4> QED
        BY <2>3, <2>11, <2>26, <4>1, <4>2 DEF Stops, words
    <3>5. CASE s.base + b < NsBits
      <4>1. Fresh(words, w) /\ s.base = 0 /\ s.base + b = b /\ b \in 0 .. 22 /\ ~(b >= NsBits)
        BY <2>4, <3>2, <3>5 DEF NsBits
      <4>2. CASE b = 18
        <5>1. Astray(h, k)
          BY <3>2, <4>1, <4>2 DEF Astray, b, w, words
        <5>2. b \notin 0 .. NsBits - 1 \ {18}
          BY <4>2
        <5>3. t = GiveUp(s)
          BY <2>1, <2>26, <3>1, <3>a, <4>1, <5>2 DEF Bit, words
        <5>4. t = [at |-> s.next, found |-> s.found, status |-> s.status,
                   base |-> s.base, ns |-> "none", next |-> s.next, reset |-> s.reset]
          BY <2>2, <5>3 DEF GiveUp, Shaped
        <5>5. Shaped(t) /\ t.found = s.found
          BY <5>4 DEF Shaped
        <5> QED
          BY <2>14, <2>26, <5>1, <5>5
      <4>3. CASE b # 18
        <5>1. Size(h, b) = NamespaceSizes[b] /\ b \in 0 .. NsBits - 1 \ {18}
          BY <3>1, <4>1, <4>3 DEF Size, NsBits
        <5>2. t = TakeField(h, s, b, NamespaceSizes[b])
          BY <2>1, <2>26, <3>1, <3>a, <4>1, <5>1 DEF Bit, words
        <5>a. ~Stops(h, k)
          BY <3>1, <3>3, <4>1, <4>3 DEF Stops, Astray, b, words
        <5>3. k \in A
          BY <2>3, <2>26, <3>2, <5>a
        <5>4. /\ WalkInv(h, A, k + 1, t) /\ Shaped(t)
              /\ t.status = "more" => t.at <= h.len
              /\ t.base = s.base /\ t.ns = s.ns /\ t.next = s.next /\ t.reset = s.reset
          BY <1>1, <1>3, <2>2, <5>1, <5>2, <5>3, TakeFieldWalks DEF b
        <5>b. Known(t) = Known(s)
          BY <5>4 DEF Known
        <5>5. HeadInv(words, k + 1, t)
          BY <2>2, <3>1, <5>4, <5>b, HeadStays DEF b, w
        <5> QED
          BY <2>13, <3>1, <3>a, <5>3, <5>4, <5>5
      <4> QED
        BY <4>2, <4>3
    <3>6. s.base + b >= NsBits \/ s.base + b < NsBits
      BY <2>4, <3>2 DEF NsBits
    <3> QED
      BY <3>4, <3>5, <3>6
  <2>27. b = Ext \/ b = VendorNs \/ b = RadiotapNs \/ b < RadiotapNs
    BY <2>4 DEF Ext, VendorNs, RadiotapNs
  <2> QED
    BY <2>3, <2>20, <2>21, <2>22, <2>23, <2>24, <2>25, <2>26, <2>27
<1> QED
  BY <1>2, <1>3, <1>b DEF RcInv

LEMMA IterateRcIs ==
  ASSUME NEW h
  PROVE  Len(h.words) \in Nat =>
           \E f : /\ Walked(f, h, TRUE, 32 * Len(h.words))
                  /\ IterateRc(h).found = f[32 * Len(h.words)].found
<1> DEFINE n == 32 * Len(h.words)
           st[k \in 0 .. n] ==
             IF k = 0 THEN IteratorInitRc(h)
             ELSE LET s == st[k - 1]
                  IN  IF s.status # "more" THEN s ELSE Bit(h, s, (k - 1) \div 32 + 1, (k - 1) % 32)
<1> SUFFICES ASSUME Len(h.words) \in Nat
             PROVE  \E f : Walked(f, h, TRUE, n) /\ IterateRc(h).found = f[n].found
  OBVIOUS
<1>0. IterateRc(h).found = st[n].found
  BY DEF IterateRc
<1>1. PICK g : Walked(g, h, TRUE, n)
  <2>1. n \in Nat
    OBVIOUS
  <2> QED
    BY <2>1, WalkedExists
<1>2. g = [k \in 0 .. n |->
             IF k = 0 THEN IteratorInitRc(h)
             ELSE IF g[k - 1].status # "more" THEN g[k - 1]
                  ELSE Bit(h, g[k - 1], (k - 1) \div 32 + 1, (k - 1) % 32)]
  BY <1>1, Zenon DEF Walked, Begin, OneBit
<1>3. st = [k \in 0 .. n |->
             IF k = 0 THEN IteratorInitRc(h)
             ELSE IF st[k - 1].status # "more" THEN st[k - 1]
                  ELSE Bit(h, st[k - 1], (k - 1) \div 32 + 1, (k - 1) % 32)]
  BY <1>2, Zenon
<1> HIDE DEF st
<1>4. Walked(st, h, TRUE, n)
  BY <1>3, Zenon DEF Walked, Begin, OneBit
<1> QED
  BY <1>0, <1>4

LEMMA IterateRcFinds ==
  ASSUME NEW h \in HeaderSet
  PROVE  /\ FindsEach(h, IterateRc(h).found, Announced(h))
         /\ StaysOn(h) => FindsAll(h, IterateRc(h).found, Announced(h))
<1> DEFINE n == 32 * Len(h.words)
           A == Announced(h)
<1>1. Len(h.words) \in Nat \ {0} /\ n \in Nat /\ n > 0 /\ h.len \in Nat
  <2>1. Len(h.words) \in Nat \ {0} /\ h.len \in Nat
    BY DEF HeaderSet
  <2> QED
    BY <2>1
<1>2. PICK f : Walked(f, h, TRUE, n) /\ IterateRc(h).found = f[n].found
  BY <1>1, IterateRcIs
<1> HIDE DEF n
<1> DEFINE S == {k \in Nat : k <= n => RcInv(h, k, f[k])}
<1>3. 0 \in S
  <2> DEFINE ok == h.len >= 8 /\ (Len(h.words) = 1 \/ FirstArg(h) <= h.len)
             s == Start(h, ok)
  <2>1. f[0] = s
    BY <1>1, <1>2 DEF Walked, Begin, IteratorInitRc
  <2>2. (~ok => FirstArg(h) > h.len) /\ (ok => FirstArg(h) <= h.len) /\ ok \in BOOLEAN
    BY <1>1, FirstArgIs
  <2> HIDE DEF ok
  <2>3. WalkInv(h, A, 0, s)
    BY <2>2, StartWalks, AnnouncedIs
  <2>4. /\ s.at = FirstArg(h) /\ s.status = (IF ok THEN "more" ELSE "bad") /\ s.base = 0
        /\ s.ns = "radiotap" /\ Known(s) = TRUE /\ s.reset = FALSE /\ Shaped(s)
    BY DEF Start, Shaped, Known
  <2> HIDE DEF s
  <2>5. HeadInv(h.words, 0, s)
    <3>1. Word(0) = 1 /\ Field(0) = 0 /\ 0 # Ext /\ ~(0 > RadiotapNs)
      BY DEF Word, Field, Ext, RadiotapNs
    <3>2. Fresh(h.words, 1) /\ ~Vendor(h.words, 1)
      BY DEF Fresh, Vendor
    <3> QED
      BY <2>4, <3>1, <3>2 DEF HeadInv
  <2>6. \A j \in Places(h.words) : ~(j < 0)
    <3>1. Places(h.words) \in SUBSET (0 .. n - 1)
      BY DEF Places, n
    <3> QED
      BY <1>1, <3>1
  <2>7. RcInv(h, 0, s)
    BY <1>1, <2>2, <2>3, <2>4, <2>5, <2>6 DEF RcInv, OnTrack, n
  <2> QED
    BY <2>1, <2>7
<1>4. ASSUME NEW k \in Nat, k \in S  PROVE k + 1 \in S
  <2> SUFFICES ASSUME k + 1 <= n PROVE RcInv(h, k + 1, f[k + 1])
    OBVIOUS
  <2>1. RcInv(h, k, f[k]) /\ k + 1 \in 0 .. n /\ k + 1 # 0 /\ (k + 1) - 1 = k
    BY <1>1, <1>4
  <2>2. f[k + 1] = OneBit(h, TRUE, f[k], k)
    BY <1>2, <2>1 DEF Walked
  <2> QED
    BY <2>1, <2>2, RcStep
<1>5. n \in S
  <2> HIDE DEF S
  <2> QED
    BY <1>1, <1>3, <1>4, SetInduction
<1>6. RcInv(h, n, f[n]) /\ ~(n < n)
  BY <1>1, <1>5
<1>7. CASE OnTrack(h, n, f[n])
  <2>1. f[n].status # "more"
    BY <1>6, <1>7 DEF OnTrack, n
  <2> QED
    BY <1>2, <1>7, <2>1 DEF OnTrack, WalkInv, FindsAll
<1>8. CASE Beyond(h, f[n].found)
  BY <1>2, <1>8 DEF Beyond
<1> QED
  BY <1>6, <1>7, <1>8 DEF RcInv

-----------------------------------------------------------------------------
(* The gait.  Both a leg's phase and its angle are a ramp of two slopes,   *)
(* put back on the circle.                                                 *)
Ramp(x, a, b) == (2 * x * (IF x > 0 THEN a ELSE b)) \div Step
Rise(x, a, b) == x * (IF x > 0 THEN a ELSE b)

(* Half a circle either way.                                               *)
OnCircle(x) == x \in Int /\ 0 <= x + 10000 /\ x <= 10000
IsAngle(x)  == x \in Int /\ 0 <= x /\ x <= 38400

(* How far apart two points d apart can get on a slope m.                  *)
Spread(d, m, n) == d * m + 10000 <= 10000 * n

(* The ramp stays between its ends.                                        *)
Bounded(x, a, b, r) ==
  /\ r \in Int
  /\ x >= 0 => 0 <= r /\ r <= a
  /\ x <= 0 => 0 <= r + b /\ r <= 0

(* n apart at most, on a circle so long.                                   *)
Near(a, b, long, n) ==
  \/ b - a \in -n .. n
  \/ (b - a) + long \in -n .. n
  \/ (b - a) - long \in -n .. n

LEMMA MulUp ==
  ASSUME NEW a \in Int, NEW b \in Int, NEW c \in Nat, a <= b
  PROVE  a * c <= b * c /\ a * c \in Int /\ b * c \in Int
<1>1. PICK d \in Nat : b = a + d
  BY b - a \in Nat
<1>2. b * c = a * c + d * c /\ d * c >= 0
  BY <1>1
<1> QED
  BY <1>2

LEMMA MulInt ==
  ASSUME NEW a \in Int, NEW b \in Int, NEW c \in Int
  PROVE  /\ a * b \in Int /\ a * b = b * a /\ 2 * a * b = 2 * (a * b)
         /\ (a - c) * b = a * b - c * b /\ (-a) * b = -(a * b)
  OBVIOUS

LEMMA RampIs ==
  ASSUME NEW x, OnCircle(x), NEW a \in Nat, NEW b \in Nat
  PROVE  /\ Ramp(x, a, b) \in Int
         /\ Rise(x, a, b) \in Int
         /\ 10000 * Ramp(x, a, b) <= Rise(x, a, b) /\ Rise(x, a, b) < 10000 * Ramp(x, a, b) + 10000
         /\ x >= 0 => 0 <= Ramp(x, a, b) /\ Ramp(x, a, b) <= a
         /\ x <= 0 => 0 <= Ramp(x, a, b) + b /\ Ramp(x, a, b) <= 0
         /\ x = 10000 => Ramp(x, a, b) = a
         /\ x + 10000 = 0 => Ramp(x, a, b) = -b
<1> DEFINE s == IF x > 0 THEN a ELSE b
           y == x * s
           g == Ramp(x, a, b)
<1>1. s \in Nat /\ x \in Int /\ 0 <= x + 10000 /\ x <= 10000
  BY DEF OnCircle
<1>2. g = (2 * y) \div 20000 /\ y \in Int
  <2> HIDE DEF s
  <2>1. 2 * x * s = 2 * (x * s) /\ x * s \in Int
    BY <1>1, MulInt
  <2> QED
    BY <2>1 DEF Ramp, Step, s
<1>3. x > 0 => y <= 10000 * a /\ y >= 0
  <2> SUFFICES ASSUME x > 0 PROVE y <= 10000 * a /\ y >= 0
    OBVIOUS
  <2>1. x * a <= 10000 * a /\ 0 * a <= x * a
    BY <1>1, MulUp
  <2> QED
    BY <2>1
<1>4. x <= 0 => y <= 0 /\ y + 10000 * b >= 0
  <2> SUFFICES ASSUME x <= 0 PROVE y <= 0 /\ y + 10000 * b >= 0
    OBVIOUS
  <2>1. x * b <= 0 * b
    BY <1>1, MulUp
  <2>2. 0 * b <= (x + 10000) * b
    BY <1>1, MulUp
  <2>3. (x + 10000) * b = x * b + 10000 * b /\ x * b \in Int
    BY <1>1
  <2>4. y = x * b
    BY <1>1
  <2> HIDE DEF y
  <2> QED
    BY <2>1, <2>2, <2>3, <2>4
<1>5. (x = 10000 => y = 10000 * a) /\ (x + 10000 = 0 => y = (-10000) * b) /\ (x = 0 => y = 0)
  BY <1>1
<1>6. y = Rise(x, a, b)
  BY DEF Rise
<1> HIDE DEF y, g
<1>7. g \in Int /\ 10000 * g <= y /\ y < 10000 * g + 10000
  BY <1>2
<1>8. /\ x >= 0 => 0 <= g /\ g <= a
      /\ x <= 0 => 0 <= g + b /\ g <= 0
      /\ x = 10000 => g = a
      /\ x + 10000 = 0 => g = -b
  BY <1>1, <1>2, <1>3, <1>4, <1>5, <1>7
<1> QED
  BY <1>2, <1>6, <1>7, <1>8 DEF g

LEMMA MulSteeper ==
  ASSUME NEW x \in Int, NEW y \in Int, x <= y, NEW c \in Nat, NEW m \in Nat, c <= m
  PROVE  y * c - x * c <= y * m - x * m
<1>1. PICK e \in Nat : m = c + e
  BY m - c \in Nat
<1>2. y * m = y * c + y * e /\ x * m = x * c + x * e
  BY <1>1
<1>3. x * e <= y * e
  BY MulUp
<1>4. x * c \in Int /\ x * e \in Int /\ y * c \in Int /\ y * e \in Int
  BY MulInt
<1> QED
  BY <1>2, <1>3, <1>4

(* A ramp climbs no faster than its steeper slope.                         *)
LEMMA RampClimbs ==
  ASSUME NEW x, OnCircle(x), NEW y, OnCircle(y), x <= y, NEW a \in Nat, NEW b \in Nat,
         NEW m \in Nat, a <= m, b <= m
  PROVE  LET climb == Ramp(y, a, b) - Ramp(x, a, b)
         IN  climb > -1 /\ 10000 * climb < (y - x) * m + 10000
<1> DEFINE u == Rise(x, a, b)  v == Rise(y, a, b)
           p == Ramp(x, a, b)  q == Ramp(y, a, b)
           xa == x * a  xb == x * b  xm == x * m
           ya == y * a  yb == y * b  ym == y * m
<1>1. x \in Int /\ y \in Int /\ m \in Int /\ a \in Int /\ b \in Int
  BY DEF OnCircle
<1>2. /\ xa \in Int /\ xb \in Int /\ xm \in Int /\ ya \in Int /\ yb \in Int /\ ym \in Int
      /\ (y - x) * m = ym - xm
  BY <1>1, MulInt
<1>3. xa <= ya /\ xb <= yb
  BY <1>1, MulUp
<1>4. ya - xa <= ym - xm /\ yb - xb <= ym - xm
  <2>1. y * a - x * a <= y * m - x * m
    BY <1>1, MulSteeper
  <2>2. y * b - x * b <= y * m - x * m
    BY <1>1, MulSteeper
  <2> QED
    BY <2>1, <2>2
<1>5. ASSUME x <= 0  PROVE xb <= 0 /\ -xb <= -xm
  <2>1. x * b <= 0 * b
    BY <1>1, <1>5, MulUp
  <2>2. 0 * b - x * b <= 0 * m - x * m
    BY <1>1, <1>5, MulSteeper
  <2> QED
    BY <1>2, <2>1, <2>2
<1>6. ASSUME 0 <= y  PROVE 0 <= ya /\ ya <= ym
  <2>1. 0 * a <= y * a
    BY <1>1, <1>6, MulUp
  <2>2. y * a - 0 * a <= y * m - 0 * m
    BY <1>1, <1>6, MulSteeper
  <2> QED
    BY <1>2, <2>1, <2>2
<1>7. u = (IF x > 0 THEN xa ELSE xb) /\ v = (IF y > 0 THEN ya ELSE yb)
  BY DEF Rise
<1>8. /\ p \in Int /\ 10000 * p <= u /\ u < 10000 * p + 10000 /\ u \in Int
      /\ q \in Int /\ 10000 * q <= v /\ v < 10000 * q + 10000 /\ v \in Int
  <2>1. p \in Int /\ 10000 * p <= u /\ u < 10000 * p + 10000 /\ u \in Int
    BY RampIs
  <2>2. q \in Int /\ 10000 * q <= v /\ v < 10000 * q + 10000 /\ v \in Int
    BY RampIs
  <2> QED
    BY <2>1, <2>2
<1> HIDE DEF u, v, p, q, xa, xb, xm, ya, yb, ym
<1>9. u <= v /\ v - u <= ym - xm
  <2>1. CASE x > 0
    <3>1. u = xa /\ v = ya
      BY <1>1, <1>7, <2>1
    <3> QED
      BY <1>3, <1>4, <3>1
  <2>2. CASE ~(y > 0)
    <3>1. u = xb /\ v = yb
      BY <1>1, <1>7, <2>2
    <3> QED
      BY <1>3, <1>4, <3>1
  <2>3. CASE ~(x > 0) /\ y > 0
    <3>1. u = xb /\ v = ya
      BY <1>7, <2>3
    <3> QED
      BY <1>1, <1>2, <1>5, <1>6, <2>3, <3>1
  <2> QED
    BY <2>1, <2>2, <2>3
<1>10. q - p > -1 /\ 10000 * (q - p) < (ym - xm) + 10000
  BY <1>2, <1>8, <1>9
<1> QED
  <2>1. (y - x) * m = ym - xm
    BY <1>2
  <2> QED
    BY <1>10, <2>1 DEF p, q

LEMMA RampBounds ==
  ASSUME NEW x, OnCircle(x), NEW a \in Nat, NEW b \in Nat
  PROVE  Bounded(x, a, b, Ramp(x, a, b))
  BY RampIs DEF Bounded

(* Over it two points of a circle stay near each other.                    *)
LEMMA RampNear ==
  ASSUME NEW x, OnCircle(x), NEW y, OnCircle(y), NEW a \in Nat, NEW b \in Nat, NEW long \in Nat, long = a + b,
         NEW m \in Nat, a <= m, b <= m, NEW d \in Nat, NEW n \in Nat, Spread(d, m, n),
         Near(x, y, Step, d)
  PROVE  Near(Ramp(x, a, b), Ramp(y, a, b), long, n)
<1> DEFINE p == Ramp(x, a, b)  q == Ramp(y, a, b)
<1>1. p \in Int /\ q \in Int /\ x \in Int /\ y \in Int
  <2>1. p \in Int /\ q \in Int
    BY RampIs
  <2> QED
    BY <2>1 DEF OnCircle
<1>0. d * m + 10000 <= 10000 * n
  BY DEF Spread
<1>2. ASSUME NEW e \in Int, 0 <= e, e <= d  PROVE e * m \in Int /\ e * m <= d * m /\ d * m \in Int
  BY <1>2, MulUp
<1>3. CASE x <= y /\ y - x <= d
  <2>1. q - p > -1 /\ 10000 * (q - p) < (y - x) * m + 10000
    BY <1>3, RampClimbs
  <2>2. (y - x) * m \in Int /\ (y - x) * m <= d * m /\ d * m \in Int
    BY <1>1, <1>2, <1>3
  <2> HIDE DEF p, q
  <2>3. q - p \in -n .. n
    BY <1>0, <1>1, <2>1, <2>2
  <2> QED
    BY <2>3 DEF Near, p, q
<1>4. CASE y <= x /\ x - y <= d
  <2>1. p - q > -1 /\ 10000 * (p - q) < (x - y) * m + 10000
    BY <1>4, RampClimbs
  <2>2. (x - y) * m \in Int /\ (x - y) * m <= d * m /\ d * m \in Int
    BY <1>1, <1>2, <1>4
  <2> HIDE DEF p, q
  <2>3. q - p \in -n .. n
    BY <1>0, <1>1, <2>1, <2>2
  <2> QED
    BY <2>3 DEF Near, p, q
<1>5. ASSUME NEW u, OnCircle(u), NEW v, OnCircle(v), (u - v) + d >= 20000, NEW r, NEW s,
             r = Ramp(u, a, b), s = Ramp(v, a, b)
      PROVE  r \in Int /\ s \in Int /\ (s - r) + long \in -n .. n
  <2>1. u \in Int /\ v \in Int /\ u <= 10000 /\ 0 <= v + 10000
    BY <1>5 DEF OnCircle
  <2> DEFINE top == 10000  low == 0 - 10000
  <2>2. OnCircle(top) /\ Ramp(top, a, b) = a
    <3>1. top \in Int /\ top = 10000 /\ 0 <= top + 10000 /\ top <= 10000
      OBVIOUS
    <3> HIDE DEF top
    <3>2. OnCircle(top)
      BY <3>1 DEF OnCircle
    <3> QED
      BY <3>1, <3>2, RampIs
  <2>3. OnCircle(low) /\ Ramp(low, a, b) = -b
    <3>1. low \in Int /\ low + 10000 = 0 /\ low <= 10000 /\ 0 <= low + 10000
      OBVIOUS
    <3> HIDE DEF low
    <3>2. OnCircle(low)
      BY <3>1 DEF OnCircle
    <3> QED
      BY <3>1, <3>2, RampIs
  <2>4. a - r > -1 /\ 10000 * (a - r) < (10000 - u) * m + 10000
    <3>1. u <= top /\ top = 10000
      BY <2>1
    <3> HIDE DEF top
    <3>2. /\ Ramp(top, a, b) - Ramp(u, a, b) > -1
          /\ 10000 * (Ramp(top, a, b) - Ramp(u, a, b)) < (top - u) * m + 10000
      BY <1>5, <2>2, <3>1, RampClimbs
    <3> QED
      BY <1>5, <2>2, <3>1, <3>2
  <2>5. s + b > -1 /\ 10000 * (s + b) < (v + 10000) * m + 10000
    <3>1. s - (-b) > -1 /\ 10000 * (s - (-b)) < (v - low) * m + 10000
      <4>1. low <= v
        BY <2>1
      <4> HIDE DEF low
      <4> QED
        BY <1>5, <2>1, <2>3, <4>1, RampClimbs
    <3>2. s - (-b) = s + b /\ v - low = v + 10000
      BY <1>5, <2>1, RampIs
    <3> QED
      BY <3>1, <3>2
  <2>6. /\ (10000 - u) * m \in Int /\ (v + 10000) * m \in Int
        /\ (10000 - u) * m + (v + 10000) * m = ((v - u) + 20000) * m
    BY <2>1
  <2>7. ((v - u) + 20000) * m <= d * m /\ d * m \in Int
    BY <1>2, <1>5, <2>1
  <2>8. r \in Int /\ s \in Int
    BY <1>5, RampIs
  <2>9. 10000 * ((s - r) + long) < d * m + 20000 /\ (s - r) + long > -2
    BY <2>4, <2>5, <2>6, <2>7, <2>8
  <2>10. (s - r) + long > -1
    BY <2>4, <2>5, <2>8
  <2> QED
    BY <1>0, <2>7, <2>8, <2>9, <2>10
<1>6. CASE (x - y) + d >= 20000
  <2>1. (q - p) + long \in -n .. n
    BY <1>5, <1>6
  <2> QED
    BY <2>1 DEF Near
<1>7. CASE (y - x) + d >= 20000
  <2>1. (p - q) + long \in -n .. n
    BY <1>5, <1>7
  <2> HIDE DEF p, q
  <2>2. (q - p) - long \in -n .. n
    BY <1>1, <2>1
  <2> QED
    BY <2>2 DEF Near, p, q
<1> QED
  BY <1>1, <1>3, <1>4, <1>6, <1>7 DEF Near, Step

-----------------------------------------------------------------------------
(* A leg's phase and its angle.                                            *)
LEMMA CenteredIs ==
  ASSUME NEW p \in Int, 0 <= p + 30000, p <= 30000
  PROVE  /\ OnCircle(Centered(p))
         /\ Centered(p) = p \/ Centered(p) = p - 20000 \/ Centered(p) = p + 20000
         /\ 0 <= p + 10000 /\ p <= 10000 => Centered(p) = p
<1>1. Step \div 2 = 10000
  BY DEF Step
<1>2. Centered(p) = IF p > 10000 THEN p - 20000 ELSE IF p + 10000 < 0 THEN p + 20000 ELSE p
  BY <1>1 DEF Centered, Step
<1> QED
  BY <1>2 DEF OnCircle

LEMMA NearCentered ==
  ASSUME NEW a \in Int, NEW b \in Int, NEW n \in Nat, n < Step, Near(a, b, Step, n),
         NEW c, OnCircle(c), c = a \/ c = a - 20000 \/ c = a + 20000,
         NEW e, OnCircle(e), e = b \/ e = b - 20000 \/ e = b + 20000
  PROVE  Near(c, e, Step, n)
  BY DEF Near, OnCircle, Step

LEMMA NearFolded ==
  ASSUME NEW a \in Int, NEW b \in Int, NEW n \in Nat, n < Circle, Near(a, b, Circle, n),
         NEW c, IsAngle(c), c = a \/ c = a - 38400 \/ c = a + 38400,
         NEW e, IsAngle(e), e = b \/ e = b - 38400 \/ e = b + 38400
  PROVE  Near(c, e, Circle, n)
<1> DEFINE x == b - a
           y == e - c
<1>1. x \in Int /\ y \in Int /\ y <= 38400 /\ 0 <= y + 38400
  <2>1. c \in Int /\ 0 <= c /\ c <= 38400 /\ e \in Int /\ 0 <= e /\ e <= 38400
    BY DEF IsAngle
  <2> QED
    BY <2>1
<1>2. y = x \/ y = x - 38400 \/ y = x + 38400 \/ y = x - 76800 \/ y = x + 76800
  OBVIOUS
<1>3. x \in -n .. n \/ x + 38400 \in -n .. n \/ x - 38400 \in -n .. n
  BY DEF Near, Circle
<1> HIDE DEF x, y
<1>4. y \in -n .. n \/ y + 38400 \in -n .. n \/ y - 38400 \in -n .. n
  BY <1>1, <1>2, <1>3 DEF Circle
<1> QED
  BY <1>4 DEF Near, Circle, y

(* The steepest ramps: of a leg's phase in a turn, of its angle.           *)
Turned(steering) == 10000 + 20 * Abs(steering)
Lifted(speed)    == 29900 - 9 * speed

(* Where leg d is on the common circle; how late it lands in a turn.       *)
Raw(phase, d) == Centered(Step \div 2 - (phase + Offset(d)))
From(d, steering) ==
  IF (IF steering > 0 THEN d \notin Left ELSE d \in Left) THEN 10 * Abs(steering) ELSE 0
Deflected(x) == x \in Int /\ 0 <= x + 500 /\ x <= 500

LEMMA RawIs ==
  ASSUME NEW phase \in 0 .. Step, NEW d
  PROVE  /\ OnCircle(Raw(phase, d))
         /\ d \in {0, 3, 5} /\ phase <= 10000 => Raw(phase, d) >= 0
         /\ d \notin {0, 3, 5} /\ phase > 10000 => Raw(phase, d) >= 0
<1> DEFINE x == 10000 - (phase + Offset(d))
<1>1. Offset(d) = (IF d \in {0, 3, 5} THEN 0 ELSE 10000) /\ phase \in Nat /\ phase <= 20000
  BY DEF Offset, Step
<1>2. Raw(phase, d) = Centered(x)
  BY DEF Raw, Step
<1>3. x \in Int /\ 0 <= x + 30000 /\ x <= 10000
  BY <1>1
<1>4. Centered(x) = x \/ Centered(x) = x - 20000 \/ Centered(x) = x + 20000
  BY <1>3, CenteredIs
<1>5. OnCircle(Centered(x)) /\ (0 <= x + 10000 => Centered(x) = x)
  BY <1>3, CenteredIs
<1>6. ASSUME d \in {0, 3, 5}, phase <= 10000  PROVE Centered(x) >= 0
  BY <1>1, <1>5, <1>6
<1>7. ASSUME d \notin {0, 3, 5}, phase > 10000  PROVE Centered(x) >= 0
  <2>1. x + 10000 < 0 /\ x = 0 - phase
    BY <1>1, <1>7
  <2> HIDE DEF x
  <2> QED
    BY <1>1, <1>3, <1>4, <1>5, <2>1 DEF OnCircle
<1> QED
  BY <1>2, <1>5, <1>6, <1>7

LEMMA LegPhaseIs ==
  ASSUME NEW phase \in 0 .. Step, NEW d, NEW steering, Deflected(steering)
  PROVE  LET f == From(d, steering)  g == Ramp(Raw(phase, d), 10000 - 2 * f, 10000 + 2 * f) + f
         IN  /\ f \in 0 .. 5000 /\ 2 * f <= 20 * Abs(steering) /\ g \in Int
             /\ OnCircle(LegPhase(phase, d, steering))
             /\ \/ LegPhase(phase, d, steering) = g
                \/ LegPhase(phase, d, steering) = g - 20000
                \/ LegPhase(phase, d, steering) = g + 20000
             /\ Raw(phase, d) >= 0 => LegPhase(phase, d, steering) >= 0
<1> DEFINE f == From(d, steering)
           a == 10000 - 2 * f
           b == 10000 + 2 * f
           x == Raw(phase, d)
           g == Ramp(x, a, b) + f
<1>1. Abs(steering) \in Nat /\ Abs(steering) <= 500
  BY DEF Deflected, Abs
<1>2. f \in 0 .. 5000 /\ 2 * f <= 20 * Abs(steering)
  BY <1>1 DEF From
<1>3. LegPhase(phase, d, steering) = Centered(g)
  <2>1. Step \div 2 = 10000
    BY DEF Step
  <2>2. Step - (10000 - 2 * f) = 10000 + 2 * f
    <3> HIDE DEF f
    <3> QED
      BY <1>2 DEF Step
  <2>3. Step \div 2 - 2 * f = a
    BY <2>1
  <2>4. LegPhase(phase, d, steering) =
          Centered((2 * x * (IF x > 0 THEN Step \div 2 - 2 * f ELSE Step - (Step \div 2 - 2 * f))) \div Step + f)
    BY DEF LegPhase, Raw, From
  <2>5. LegPhase(phase, d, steering) = Centered((2 * x * (IF x > 0 THEN a ELSE b)) \div Step + f)
    BY <2>1, <2>2, <2>4
  <2> QED
    BY <2>5 DEF Ramp
<1>4. OnCircle(x) /\ a \in Nat /\ b \in Nat
  <2>1. OnCircle(x)
    BY RawIs
  <2> HIDE DEF f
  <2>2. a \in Nat /\ b \in Nat
    BY <1>2
  <2> QED
    BY <2>1, <2>2
<1> HIDE DEF x
<1>5. Bounded(x, a, b, Ramp(x, a, b))
  <2> HIDE DEF a, b
  <2> QED
    BY <1>4, RampBounds, Zenon
<1>6. g \in Int /\ 0 <= g + 30000 /\ g <= 10000 /\ (x >= 0 => g >= 0)
  <2>1. x >= 0 \/ x <= 0
    BY <1>4 DEF OnCircle
  <2> DEFINE y == Ramp(x, a, b)
  <2>2. y \in Int /\ (x >= 0 => 0 <= y /\ y <= a) /\ (x <= 0 => 0 <= y + b /\ y <= 0)
    BY <1>5 DEF Bounded
  <2> HIDE DEF y, f
  <2>3. y + f \in Int /\ 0 <= (y + f) + 30000 /\ y + f <= 10000 /\ (x >= 0 => y + f >= 0)
    BY <1>2, <2>1, <2>2
  <2> QED
    BY <2>3 DEF y
<1> HIDE DEF g
<1>7. /\ OnCircle(Centered(g))
      /\ Centered(g) = g \/ Centered(g) = g - 20000 \/ Centered(g) = g + 20000
      /\ x >= 0 => Centered(g) >= 0
  BY <1>6, CenteredIs
<1> QED
  BY <1>2, <1>3, <1>6, <1>7 DEF g, x

LEMMA LegNear ==
  ASSUME NEW p \in 0 .. Step, NEW q \in 0 .. Step, NEW d, NEW steering, Deflected(steering),
         NEW m \in Nat, Near(p, q, Step, m),
         NEW n \in Nat, n < Step, Spread(m, Turned(steering), n)
  PROVE  Near(LegPhase(p, d, steering), LegPhase(q, d, steering), Step, n)
<1> DEFINE f == From(d, steering)
           x == Raw(p, d)
           y == Raw(q, d)
           k == Turned(steering)
           a == 10000 - 2 * f
           b == 10000 + 2 * f
<1>1. Abs(steering) \in Nat
  BY DEF Deflected, Abs
<1>2. f \in 0 .. 5000 /\ 2 * f <= 20 * Abs(steering)
  BY LegPhaseIs
<1>3. OnCircle(x) /\ OnCircle(y)
  BY RawIs
<1>4. CASE m >= Step
  <2>1. m * 10000 <= m * k /\ m * k \in Int
    <3>1. 10000 * m <= k * m /\ k \in Int
      BY <1>1, MulUp DEF Turned
    <3> HIDE DEF k
    <3> QED
      BY <3>1
  <2> HIDE DEF k
  <2>2. m * k + 10000 <= 10000 * n
    BY DEF k, Spread
  <2> QED
    BY <1>4, <2>1, <2>2 DEF Step
<1>5. CASE m < Step
  <2>1. Near(x, y, Step, m)
    <3> DEFINE u == 10000 - (p + Offset(d))
               v == 10000 - (q + Offset(d))
    <3>1. Offset(d) \in {0, 10000} /\ p \in Nat /\ q \in Nat /\ p <= 20000 /\ q <= 20000
      <4>1. Offset(d) \in {0, 10000}
        BY DEF Offset, Step
      <4>2. ASSUME NEW r \in 0 .. Step  PROVE r \in Nat /\ r <= 20000
        BY <4>2 DEF Step
      <4> QED
        BY <4>1, <4>2
    <3>2. /\ u \in Int /\ 0 <= u + 30000 /\ u <= 30000
          /\ v \in Int /\ 0 <= v + 30000 /\ v <= 30000
          /\ v - u = -(q - p)
      BY <3>1
    <3>3. x = Centered(u) /\ y = Centered(v)
      BY DEF Raw, Step
    <3> HIDE DEF u, v
    <3>4. Near(u, v, Step, m)
      BY <3>1, <3>2 DEF Near, Step
    <3>5. /\ Centered(u) = u \/ Centered(u) = u - 20000 \/ Centered(u) = u + 20000
          /\ Centered(v) = v \/ Centered(v) = v - 20000 \/ Centered(v) = v + 20000
      BY <3>2, CenteredIs
    <3> HIDE DEF x, y
    <3> QED
      BY <1>3, <1>5, <3>2, <3>3, <3>4, <3>5, NearCentered
  <2>2. a \in Nat /\ b \in Nat /\ a + b = 20000 /\ a <= k /\ b <= k /\ k \in Nat
    <3> HIDE DEF f
    <3> QED
      BY <1>1, <1>2 DEF Turned
  <2> DEFINE g == Ramp(x, a, b)
             h == Ramp(y, a, b)
  <2>3. g \in Int /\ h \in Int
    <3> HIDE DEF a, b, x, y
    <3> QED
      BY <1>3, <2>2, RampIs
  <2>4. Near(g, h, Step, n)
    <3> HIDE DEF a, b, x, y
    <3>1. Spread(m, k, n)
      OBVIOUS
    <3> HIDE DEF k
    <3>2. Step \in Nat /\ Step = a + b
      BY <2>2 DEF Step
    <3>3. a \in Nat /\ b \in Nat /\ a <= k /\ b <= k /\ k \in Nat
      BY <2>2
    <3> QED
      BY <1>3, <2>1, <3>1, <3>2, <3>3, RampNear, Zenon
  <2>5. /\ OnCircle(LegPhase(p, d, steering))
        /\ \/ LegPhase(p, d, steering) = g + f
           \/ LegPhase(p, d, steering) = (g + f) - 20000
           \/ LegPhase(p, d, steering) = (g + f) + 20000
    BY LegPhaseIs
  <2>6. /\ OnCircle(LegPhase(q, d, steering))
        /\ \/ LegPhase(q, d, steering) = h + f
           \/ LegPhase(q, d, steering) = (h + f) - 20000
           \/ LegPhase(q, d, steering) = (h + f) + 20000
    BY LegPhaseIs
  <2> HIDE DEF g, h, f
  <2>7. g + f \in Int /\ h + f \in Int /\ (h + f) - (g + f) = h - g
    BY <1>2, <2>3
  <2>8. Near(g + f, h + f, Step, n)
    BY <2>4, <2>7 DEF Near
  <2> QED
    BY <2>5, <2>6, <2>7, <2>8, NearCentered
<1> QED
  BY <1>4, <1>5 DEF Step

LEMMA AngleIs ==
  ASSUME NEW p, OnCircle(p), NEW speed, Deflected(speed)
  PROVE  LET a == 8500 + 9 * speed  b == Lifted(speed)
             g == Ramp(p, a, b) + DownEnd(speed)
         IN  /\ a \in Nat /\ b \in Nat /\ a <= b /\ a + b = 38400 /\ g \in Int
             /\ DownEnd(speed) \in Int
             /\ IsAngle(Angle(p, speed))
             /\ Angle(p, speed) = g \/ Angle(p, speed) = g - 38400 \/ Angle(p, speed) = g + 38400
             /\ p >= 0 => Angle(p, speed) \in DownEnd(speed) .. DownStart(speed)
<1> DEFINE a == 8500 + 9 * speed
           b == Lifted(speed)
           e == DownEnd(speed)
           r == Ramp(p, a, b)
           g == r + e
<1>1. speed \in Int /\ 0 <= speed + 500 /\ speed <= 500
  BY DEF Deflected
<1>2. a \in Nat /\ b \in Nat /\ a <= b /\ a + b = 38400
  BY <1>1 DEF Lifted
<1>3. e = 7000 - 4 * speed /\ DownStart(speed) = 15500 + 5 * speed
  BY DEF DownEnd, DownStart
<1>4. DownStart(speed) - e = a /\ Circle - a = b
  BY <1>1, <1>3 DEF Circle, Lifted
<1>5. Angle(p, speed) = IF g > 38400 THEN g - 38400 ELSE IF g < 0 THEN g + 38400 ELSE g
  <2>1. r = (2 * p * (IF p > 0 THEN DownStart(speed) - e ELSE Circle - (DownStart(speed) - e))) \div Step
    BY <1>4 DEF Ramp
  <2> QED
    BY <2>1 DEF Angle, Circle
<1>6. Bounded(p, a, b, r)
  <2> HIDE DEF a, b
  <2>1. a \in Nat /\ b \in Nat
    BY <1>2
  <2> QED
    BY <2>1, RampBounds, Zenon
<1> HIDE DEF r, e
<1>7. p >= 0 \/ p <= 0
  BY DEF OnCircle
<1>8. e \in Int /\ DownStart(speed) \in Int /\ e >= 5000 /\ e <= 9000 /\ e + a = DownStart(speed) /\ e - b = DownStart(speed) - 38400
      /\ DownStart(speed) >= 13000 /\ DownStart(speed) <= 18000
  BY <1>1, <1>3 DEF Lifted
<1> HIDE DEF a, b
<1>9. g \in Int /\ (p >= 0 => g \in e .. DownStart(speed)) /\ (p <= 0 => g \in DownStart(speed) - 38400 .. e)
  BY <1>2, <1>6, <1>8 DEF Bounded
<1> HIDE DEF g
<1>10. /\ IsAngle(Angle(p, speed))
       /\ p >= 0 => Angle(p, speed) \in e .. DownStart(speed)
  BY <1>5, <1>7, <1>8, <1>9 DEF IsAngle
<1> QED
  BY <1>2, <1>5, <1>8, <1>9, <1>10 DEF a, b, e, r, g

LEMMA AngleNear ==
  ASSUME NEW p, OnCircle(p), NEW q, OnCircle(q), NEW speed, Deflected(speed),
         NEW m \in Nat, Near(p, q, Step, m),
         NEW n \in Nat, n < Circle, Spread(m, Lifted(speed), n)
  PROVE  Near(Angle(p, speed), Angle(q, speed), Circle, n)
<1> DEFINE a == 8500 + 9 * speed
           b == Lifted(speed)
           e == DownEnd(speed)
           g == Ramp(p, a, b)
           h == Ramp(q, a, b)
<1>1. a \in Nat /\ b \in Nat /\ a <= b /\ a + b = 38400 /\ b <= b /\ e \in Int
  BY AngleIs
<1>2. /\ IsAngle(Angle(p, speed))
      /\ Angle(p, speed) = g + e \/ Angle(p, speed) = (g + e) - 38400 \/ Angle(p, speed) = (g + e) + 38400
  BY AngleIs
<1>3. /\ IsAngle(Angle(q, speed))
      /\ Angle(q, speed) = h + e \/ Angle(q, speed) = (h + e) - 38400 \/ Angle(q, speed) = (h + e) + 38400
  BY AngleIs
<1>4. Spread(m, b, n)
  OBVIOUS
<1> HIDE DEF a, b
<1>9. a \in Nat /\ b \in Nat /\ a <= b /\ b <= b
  BY <1>1
<1>5. g \in Int /\ h \in Int
  BY <1>1, RampIs
<1>6. Near(g, h, Circle, n)
  <2>1. Circle \in Nat /\ Circle = a + b
    BY <1>1 DEF Circle
  <2> QED
    BY <1>4, <1>9, <2>1, RampNear, Zenon
<1> HIDE DEF g, h, e
<1>7. g + e \in Int /\ h + e \in Int /\ (h + e) - (g + e) = h - g
  BY <1>1, <1>5
<1>8. Near(g + e, h + e, Circle, n)
  BY <1>6, <1>7 DEF Near
<1> QED
  BY <1>2, <1>3, <1>7, <1>8, NearFolded

LEMMA BetweenIs ==
  ASSUME NEW a, IsAngle(a), NEW b, IsAngle(b), NEW n \in Nat, n <= 19200, Near(a, b, Circle, n)
  PROVE  Between(b, a) \in 0 .. n
<1> DEFINE d == Abs(a - b)
           x == b - a
<1>1. x \in Int /\ x <= 38400 /\ 0 <= x + 38400 /\ a - b = -x
  BY DEF IsAngle
<1>2. x \in -n .. n \/ x + 38400 \in -n .. n \/ x - 38400 \in -n .. n
  BY DEF Near, Circle
<1>3. d = IF a - b < 0 THEN x ELSE -x
  BY <1>1 DEF Abs, IsAngle
<1>4. Between(b, a) = IF d > 19200 THEN 38400 - d ELSE d
  BY DEF Between, Circle
<1> HIDE DEF x, d
<1> QED
  BY <1>1, <1>2, <1>3, <1>4

-----------------------------------------------------------------------------
(* How far the phase turns, the less the tighter the turn.                 *)
LEMMA DivIs ==
  ASSUME NEW x \in Int, NEW y \in Nat \ {0}
  PROVE  x \div y \in Int /\ y * (x \div y) <= x /\ x < y * (x \div y) + y
  OBVIOUS

LEMMA MulCancel ==
  ASSUME NEW a \in Int, NEW b \in Int, NEW c \in Nat \ {0}, a * c <= b * c
  PROVE  a <= b
<1> SUFFICES ASSUME b + 1 <= a PROVE FALSE
  OBVIOUS
<1>1. (b + 1) * c <= a * c
  BY MulUp
<1>2. (b + 1) * c = b * c + c /\ b * c \in Int /\ a * c \in Int
  OBVIOUS
<1> QED
  BY <1>1, <1>2

LEMMA TightTurn ==
  ASSUME NEW t \in Nat, t <= 500, NEW w \in Nat, w <= 500, w < 2 * t,
         NEW z \in Int, 5 * (2 * t + w) * z <= 4 * t * t, 4 * t * t < 5 * (2 * t + w) * z + 5 * (2 * t + w)
  PROVE  /\ 0 <= z /\ z <= 200 /\ 10 * z <= 4 * t
         /\ \/ z * (500 + w) <= 100000
            \/ t > 400 /\ z * (500 + w) <= 133334
<1> DEFINE y == 2 * t + w
           yz == y * z
           tt == t * t
<1>1. t \in Nat \ {0} /\ y \in Nat \ {0} /\ t \in Int /\ y >= 2 * t
  OBVIOUS
<1>2. yz \in Int /\ tt \in Nat /\ 5 * y * z = 5 * yz /\ 4 * t * t = 4 * tt
  <2> HIDE DEF y
  <2> QED
    BY <1>1
<1>3. 5 * yz <= 4 * tt /\ 4 * tt < 5 * yz + 5 * y
  BY <1>2
<1>4. z >= 0
  <2> SUFFICES ASSUME z <= -1 PROVE FALSE
    OBVIOUS
  <2> HIDE DEF y
  <2>1. z * y <= (-1) * y
    BY <1>1, MulUp
  <2>2. z * y = yz /\ (-1) * y = -y
    BY <1>1
  <2> HIDE DEF yz, tt
  <2> QED
    BY <1>1, <1>2, <1>3, <2>1, <2>2
<1>5. 10 * z <= 4 * t
  <2>1. (2 * t) * z <= yz
    <3> HIDE DEF y
    <3> QED
      BY <1>1, <1>4, MulUp
  <2>2. (10 * z) * t = 5 * ((2 * t) * z) /\ (4 * t) * t = 4 * tt
    OBVIOUS
  <2>3. (2 * t) * z \in Int
    OBVIOUS
  <2>4. (10 * z) * t <= (4 * t) * t
    <3> HIDE DEF yz, tt
    <3> QED
      BY <1>2, <1>3, <2>1, <2>2, <2>3
  <2> QED
    BY <1>1, <2>4, MulCancel
<1>6. z <= 200
  BY <1>5
<1> DEFINE zw == z * (500 + w)
<1>7. zw \in Int
  OBVIOUS
<1>8. CASE t <= 250
  <2>1. z <= 100
    BY <1>5, <1>8
  <2>2. z * (500 + w) <= 100 * (500 + w)
    BY <2>1, MulUp
  <2> QED
    BY <1>4, <1>5, <1>6, <2>2
<1>9. CASE t > 250
  <2>1. (500 + w) * (2 * t + 500) <= 1000 * y
    <3>1. (2 * t - 500) * (500 - w) >= 0
      <4>1. 2 * t - 500 \in Nat /\ 500 - w \in Nat
        BY <1>9
      <4> QED
        BY <4>1
    <3>2. (2 * t - 500) * (500 - w) = 1000 * y - (500 + w) * (2 * t + 500)
      OBVIOUS
    <3> QED
      BY <3>1, <3>2
  <2>2. zw * (2 * t + 500) <= 1000 * yz
    <3>1. ((500 + w) * (2 * t + 500)) * z <= (1000 * y) * z
      BY <1>4, <2>1, MulUp
    <3>2. ((500 + w) * (2 * t + 500)) * z = zw * (2 * t + 500) /\ (1000 * y) * z = 1000 * yz
      OBVIOUS
    <3> QED
      BY <3>1, <3>2
  <2>3. zw * (2 * t + 500) <= 800 * tt
    <3>1. zw * (2 * t + 500) \in Int
      BY <1>7
    <3> HIDE DEF yz, tt, zw
    <3> QED
      BY <1>2, <1>3, <2>2, <3>1
  <2>4. CASE t <= 400
    <3>1. t * t <= 400 * t
      BY <2>4, MulUp
    <3>2. 800 * tt <= 100000 * (2 * t + 500)
      <4> HIDE DEF yz, zw
      <4> QED
        BY <1>2, <2>4, <3>1
    <3>3. zw * (2 * t + 500) <= 100000 * (2 * t + 500)
      <4>1. zw * (2 * t + 500) \in Int
        BY <1>7
      <4> HIDE DEF yz, tt, zw
      <4> QED
        BY <1>2, <2>3, <3>2, <4>1
    <3>4. zw <= 100000
      <4> HIDE DEF zw
      <4>1. 2 * t + 500 \in Nat \ {0} /\ 100000 \in Int
        OBVIOUS
      <4> QED
        BY <1>7, <3>3, <4>1, MulCancel
    <3> QED
      BY <1>4, <1>5, <1>6, <3>4
  <2>5. CASE t > 400
    <3>1. t * t <= 500 * t
      BY MulUp
    <3>2. 800 * tt <= 133334 * (2 * t + 500)
      <4> HIDE DEF yz, zw
      <4> QED
        BY <1>2, <3>1
    <3>3. zw * (2 * t + 500) <= 133334 * (2 * t + 500)
      <4>1. zw * (2 * t + 500) \in Int
        BY <1>7
      <4> HIDE DEF yz, tt, zw
      <4> QED
        BY <1>2, <2>3, <3>2, <4>1
    <3>4. zw <= 133334
      <4> HIDE DEF zw
      <4>1. 2 * t + 500 \in Nat \ {0} /\ 133334 \in Int
        OBVIOUS
      <4> QED
        BY <1>7, <3>3, <4>1, MulCancel
    <3> QED
      BY <1>4, <1>5, <1>6, <2>5, <3>4
  <2> QED
    BY <2>4, <2>5
<1> QED
  BY <1>8, <1>9

LEMMA AdvanceIs ==
  ASSUME NEW speed, Deflected(speed), NEW steering, Deflected(steering)
  PROVE  LET z == Advance(speed, steering)
         IN  /\ z \in Int /\ 0 <= z + 200 /\ z <= 200
             /\ speed >= 0 => /\ z >= 0
                              /\ \/ z * (500 + Abs(steering)) <= 100000
                                 \/ speed > 400 /\ z * (500 + Abs(steering)) <= 133334
<1> DEFINE z == Advance(speed, steering)
           t == Abs(speed)
           w == Abs(steering)
           x == 4 * speed * t
           y == 5 * (2 * t + w)
<1>1. speed \in Int /\ 0 <= speed + 500 /\ speed <= 500
  BY DEF Deflected
<1>2. /\ t \in Nat /\ t <= 500 /\ w \in Nat /\ w <= 500
      /\ speed >= 0 => speed = t
      /\ speed < 0 => speed = -t
  BY DEF Deflected, Abs
<1>3. z = IF w < 2 * t THEN x \div y ELSE (2 * speed) \div 5
  BY DEF Advance
<1> HIDE DEF z, t, w
<1>4. CASE w < 2 * t
  <2>1. x \in Int /\ y \in Nat \ {0}
    BY <1>1, <1>2, <1>4
  <2>2. z \in Int /\ y * z <= x /\ x < y * z + y
    <3> HIDE DEF x, y
    <3> QED
      BY <1>3, <1>4, <2>1, DivIs
  <2>3. CASE speed >= 0
    <3>1. x = 4 * t * t
      BY <1>2, <2>3
    <3>2. 5 * (2 * t + w) * z <= 4 * t * t /\ 4 * t * t < 5 * (2 * t + w) * z + 5 * (2 * t + w)
      BY <2>2, <3>1
    <3>3. /\ 0 <= z /\ z <= 200
          /\ \/ z * (500 + w) <= 100000
             \/ t > 400 /\ z * (500 + w) <= 133334
      BY <1>2, <1>4, <2>2, <3>2, TightTurn
    <3> QED
      BY <1>2, <2>2, <2>3, <3>3 DEF z, w
  <2>4. CASE speed < 0
    <3>1. x = -(4 * (t * t)) /\ t * t \in Nat
      BY <1>2, <2>4
    <3>2. z <= 200
      <4> SUFFICES ASSUME z >= 1 PROVE FALSE
        BY <2>2
      <4>1. y * z >= 0
        <5> HIDE DEF y
        <5>1. 0 * y <= z * y
          BY <2>1, <2>2, MulUp
        <5> QED
          BY <2>1, <2>2, <5>1
      <4>2. y * z \in Int /\ x <= 0
        <5>1. x <= 0
          BY <3>1
        <5> HIDE DEF x, y
        <5> QED
          BY <2>1, <2>2, <5>1
      <4>3. x = 0
        <5> HIDE DEF x, y
        <5> QED
          BY <2>1, <2>2, <4>1, <4>2
      <4>4. t * t = 0
        BY <3>1, <4>3
      <4>5. t >= 1
        BY <1>2, <2>4
      <4>6. 1 * t <= t * t
        BY <1>2, <4>5, MulUp
      <4> QED
        BY <1>2, <4>4, <4>5, <4>6
    <3>3. 0 <= z + 200
      <4> SUFFICES ASSUME z + 1 <= 0 - 200 PROVE FALSE
        BY <2>2
      <4> DEFINE yz == y * z
      <4>1. yz + y <= -(200 * y) /\ yz \in Int
        <5> HIDE DEF y
        <5>1. (z + 1) * y <= (0 - 200) * y
          BY <2>1, <2>2, MulUp
        <5> QED
          BY <2>1, <2>2, <5>1
      <4>2. y >= 10 * t
        BY <1>2
      <4>3. t * t <= 500 * t
        BY <1>2, MulUp
      <4>4. x < yz + y
        BY <2>2
      <4> DEFINE tt == t * t
      <4>5. x = -(4 * tt) /\ tt <= 500 * t /\ tt \in Nat
        BY <3>1, <4>3
      <4> HIDE DEF x, y, yz, tt
      <4> QED
        BY <1>2, <2>1, <4>1, <4>2, <4>4, <4>5
    <3> QED
      BY <1>1, <2>2, <2>4, <3>2, <3>3 DEF z
  <2> QED
    BY <1>1, <2>3, <2>4
<1>5. CASE ~(w < 2 * t)
  <2>1. z = (2 * speed) \div 5 /\ 2 * t <= w
    BY <1>2, <1>3, <1>5
  <2>2. z \in Int /\ 0 <= z + 200 /\ z <= 100 /\ (speed >= 0 => z >= 0)
    BY <1>1, <1>2, <2>1
  <2>3. z * (500 + w) <= 100 * (500 + w)
    BY <1>2, <2>2, MulUp
  <2>4. z * (500 + w) \in Int
    BY <1>2, <2>2
  <2>5. z * (500 + w) <= 100000
    BY <1>2, <2>3, <2>4
  <2> QED
    BY <2>2, <2>5 DEF z, w
<1> QED
  BY <1>4, <1>5

LEMMA PhaseIs ==
  ASSUME NEW p
  PROVE  p \in 0 .. Step <=> p \in Nat /\ p <= 20000
<1>1. Step \in Nat
  BY DEF Step
<1>2. p \in 0 .. Step <=> p \in Nat /\ p <= Step
  BY <1>1
<1> QED
  BY <1>2 DEF Step

LEMMA NextPhaseIs ==
  ASSUME NEW phase \in 0 .. Step, NEW speed, Deflected(speed), NEW steering, Deflected(steering)
  PROVE  LET z == Advance(speed, steering)  next == NextPhase(phase, speed, steering)
         IN  /\ next \in 0 .. Step
             /\ Near(phase, next, Step, Abs(z)) /\ Abs(z) \in Nat /\ Abs(z) <= 200
             /\ z >= 0 => Abs(z) = z
<1> DEFINE z == Advance(speed, steering)
           next == NextPhase(phase, speed, steering)
<1>1. z \in Int /\ 0 <= z + 200 /\ z <= 200
  BY AdvanceIs
<1>2. phase \in Nat /\ phase <= 20000
  BY PhaseIs
<1>3. next = LET n == phase + z IN IF n > 20000 THEN n - 20000 ELSE IF n < 0 THEN n + 20000 ELSE n
  BY DEF NextPhase, Step
<1> HIDE DEF z, next
<1>4. next \in 0 .. Step
  <2>1. next \in Int /\ 0 <= next /\ next <= 20000
    BY <1>1, <1>2, <1>3
  <2> QED
    BY <2>1, PhaseIs
<1>5. Abs(z) \in Nat /\ Abs(z) <= 200 /\ (z >= 0 => Abs(z) = z) /\ (z < 0 => Abs(z) = -z)
  BY <1>1 DEF Abs
<1>6. next - phase = z \/ (next - phase) + 20000 = z \/ (next - phase) - 20000 = z
  BY <1>1, <1>2, <1>3
<1>7. z \in -Abs(z) .. Abs(z)
  BY <1>1, <1>5
<1>8. Near(phase, next, Step, Abs(z))
  BY <1>6, <1>7 DEF Near, Step
<1> QED
  BY <1>4, <1>5, <1>8 DEF z, next

(* So with steady sticks no leg has further to go than it can.             *)
LEMMA LegSteady ==
  ASSUME NEW phase \in 0 .. Step, NEW speed, Deflected(speed), NEW steering, Deflected(steering), NEW d,
         speed >= 0 \/ steering = 0
  PROVE  LET next == NextPhase(phase, speed, steering)
         IN  Between(Angle(LegPhase(next, d, steering), speed), Angle(LegPhase(phase, d, steering), speed)) \in 0 .. 731
<1> DEFINE z == Advance(speed, steering)
           next == NextPhase(phase, speed, steering)
           w == Abs(steering)
           m == Abs(z)
           p == LegPhase(phase, d, steering)
           q == LegPhase(next, d, steering)
<1>2. Near(phase, next, Step, m) /\ m \in Nat /\ m <= 200 /\ (z >= 0 => m = z) /\ next \in 0 .. Step
  BY NextPhaseIs
<1>3. w \in Nat /\ w <= 500 /\ (steering = 0 => w = 0)
  BY DEF Abs, Deflected
<1>4. speed \in Int /\ 0 <= speed + 500 /\ speed <= 500
  BY DEF Deflected
<1>5. speed >= 0 => m * (500 + w) <= 100000 \/ (speed > 400 /\ m * (500 + w) <= 133334)
  BY <1>2, AdvanceIs
<1>6. m * (500 + w) \in Int /\ m * Turned(steering) = 20 * (m * (500 + w))
  <2>1. Turned(steering) = 20 * (500 + w)
    BY <1>3 DEF Turned
  <2> HIDE DEF m, w
  <2> QED
    BY <1>2, <1>3, <2>1
<1>7. \E n \in Nat : n < Step /\ Spread(m, Turned(steering), n) /\ Spread(n, Lifted(speed), 731)
  <2> HIDE DEF m, w
  <2> DEFINE mw == m * (500 + w)
             mt == m * Turned(steering)
  <2>0. mw \in Int /\ mt = 20 * mw
    BY <1>6
  <2>1. CASE mw <= 100000 /\ speed >= 0
    <3> HIDE DEF mw, mt
    <3>1. mt + 10000 <= 10000 * 201
      BY <2>0, <2>1
    <3>2. 201 * Lifted(speed) + 10000 <= 10000 * 731
      BY <1>4, <2>1 DEF Lifted
    <3>3. 201 \in Nat /\ 201 < Step
      BY DEF Step
    <3> QED
      BY <3>1, <3>2, <3>3 DEF Spread, mt
  <2>2. CASE mw <= 133334 /\ speed > 400
    <3> HIDE DEF mw, mt
    <3>1. mt + 10000 <= 10000 * 268
      BY <2>0, <2>2
    <3>2. 268 * Lifted(speed) + 10000 <= 10000 * 731
      BY <1>4, <2>2 DEF Lifted
    <3>3. 268 \in Nat /\ 268 < Step
      BY DEF Step
    <3> QED
      BY <3>1, <3>2, <3>3 DEF Spread, mt
  <2>3. CASE steering = 0
    <3>1. mw <= 100000
      <4>1. 500 + w = 500
        BY <1>3, <2>3
      <4>2. mw = m * 500
        BY <4>1
      <4> QED
        BY <1>2, <4>2
    <3> HIDE DEF mw, mt
    <3>2. mt + 10000 <= 10000 * 201
      BY <2>0, <3>1
    <3>3. 201 * Lifted(speed) + 10000 <= 10000 * 731
      BY <1>4 DEF Lifted
    <3>4. 201 \in Nat /\ 201 < Step
      BY DEF Step
    <3> QED
      BY <3>2, <3>3, <3>4 DEF Spread, mt
  <2> QED
    BY <1>4, <1>5, <2>1, <2>2, <2>3
<1>8. PICK n \in Nat : n < Step /\ Spread(m, Turned(steering), n) /\ Spread(n, Lifted(speed), 731)
  BY <1>7
<1>9. OnCircle(p) /\ OnCircle(q)
  BY <1>2, LegPhaseIs
<1>10. Near(p, q, Step, n)
  <2> HIDE DEF m, next
  <2> QED
    BY <1>2, <1>8, LegNear
<1> DEFINE limit == 731
<1>11. Near(Angle(p, speed), Angle(q, speed), Circle, limit)
  <2>1. limit \in Nat /\ limit < Circle /\ Spread(n, Lifted(speed), limit)
    BY <1>8 DEF Circle
  <2>2. n \in Nat /\ Near(p, q, Step, n)
    BY <1>10
  <2> HIDE DEF limit, p, q, next
  <2> QED
    BY <1>9, <2>1, <2>2, AngleNear, Zenon
<1>12. IsAngle(Angle(p, speed)) /\ IsAngle(Angle(q, speed))
  <2> HIDE DEF p, q
  <2> QED
    BY <1>9, AngleIs
<1>13. Between(Angle(q, speed), Angle(p, speed)) \in 0 .. limit
  <2>1. limit \in Nat /\ limit <= 19200
    OBVIOUS
  <2> HIDE DEF limit, p, q
  <2> QED
    BY <1>11, <1>12, <2>1, BetweenIs
<1> QED
  BY <1>13

LEMMA StickIs ==
  ASSUME NEW axis \in Nat
  PROVE  Deflected(Stick(axis)) /\ (axis = 1500 => Stick(axis) = 0)
  BY DEF Deflected, Stick

LEMMA CommandIs ==
  ASSUME NEW d, NEW from, NEW to, IsAngle(to)
  PROVE  /\ Command(d, from, to).position \in 0 .. 768
         /\ Between(to, from) \in 0 .. 731 => Command(d, from, to).speed < MaxSpeed
<1> DEFINE p == to \div 50
           v == (Between(to, from) * 105) \div 50
<1>1. p \in Int /\ 0 <= p /\ p <= 768
  BY DEF IsAngle
<1>2. Command(d, from, to).position = IF d \in {4, 5} THEN 768 - p ELSE p
  BY DEF Command
<1>3. Command(d, from, to).position \in 0 .. 768
  <2> HIDE DEF p
  <2> QED
    BY <1>1, <1>2
<1>4. Command(d, from, to).speed = IF v > 1536 THEN 1536 ELSE v
  BY DEF Command, MaxSpeed
<1>5. ASSUME Between(to, from) \in 0 .. 731  PROVE v \in Int /\ v < 1536
  BY <1>5
<1>6. ASSUME Between(to, from) \in 0 .. 731  PROVE Command(d, from, to).speed < MaxSpeed
  BY <1>4, <1>5, <1>6 DEF MaxSpeed
<1> QED
  BY <1>3, <1>6

(* One turn of the phase.                                                  *)
WellWalked(r, speed, steering) ==
  /\ \E tripod \in {{0, 3, 5}, {1, 2, 4}} :
       \A d \in tripod : r.pos[d] \in DownEnd(speed) .. DownStart(speed)
  /\ speed >= 0 \/ steering = 0 => \A d \in Legs : r.cmd[d].speed < MaxSpeed
  /\ \A d \in Legs : r.cmd[d].position \in 0 .. 768

LEMMA StepIs ==
  ASSUME NEW phase \in 0 .. Step, NEW speed, Deflected(speed), NEW steering, Deflected(steering)
  PROVE  WellWalked(MakeStep(phase, Angles(phase, speed, steering), speed, steering), speed, steering)
<1> DEFINE r == MakeStep(phase, Angles(phase, speed, steering), speed, steering)
           next == NextPhase(phase, speed, steering)
           Was(d)  == Angle(LegPhase(phase, d, steering), speed)
           Will(d) == Angle(LegPhase(next, d, steering), speed)
<1>1. next \in 0 .. Step
  BY NextPhaseIs
<1>2. \A d \in Legs : r.pos[d] = Will(d) /\ r.cmd[d] = Command(d, Was(d), Will(d))
  BY DEF MakeStep, Angles
<1> HIDE DEF r
<1>3. ASSUME NEW d  PROVE IsAngle(Will(d))
  <2> HIDE DEF next
  <2>1. OnCircle(LegPhase(next, d, steering))
    BY <1>1, LegPhaseIs
  <2> QED
    BY <2>1, AngleIs
<1>4. ASSUME NEW d, Raw(next, d) >= 0  PROVE Will(d) \in DownEnd(speed) .. DownStart(speed)
  <2> HIDE DEF next
  <2>1. OnCircle(LegPhase(next, d, steering)) /\ LegPhase(next, d, steering) >= 0
    BY <1>1, <1>4, LegPhaseIs
  <2> QED
    BY <2>1, AngleIs
<1>5. \E tripod \in {{0, 3, 5}, {1, 2, 4}} : \A d \in tripod : d \in Legs /\ Raw(next, d) >= 0
  <2> HIDE DEF next
  <2>1. CASE next <= 10000
    <3>1. \A d \in {0, 3, 5} : d \in Legs /\ Raw(next, d) >= 0
      BY <1>1, <2>1, RawIs DEF Legs
    <3> QED
      BY <3>1
  <2>2. CASE next > 10000
    <3>1. \A d \in {1, 2, 4} : d \in Legs /\ d \notin {0, 3, 5}
      BY DEF Legs
    <3>2. \A d \in {1, 2, 4} : d \in Legs /\ Raw(next, d) >= 0
      BY <1>1, <2>2, <3>1, RawIs
    <3> QED
      BY <3>2
  <2>3. next <= 10000 \/ next > 10000
    BY <1>1, PhaseIs
  <2> QED
    BY <2>1, <2>2, <2>3
<1>6. \E tripod \in {{0, 3, 5}, {1, 2, 4}} :
        \A d \in tripod : r.pos[d] \in DownEnd(speed) .. DownStart(speed)
  <2>1. PICK tripod \in {{0, 3, 5}, {1, 2, 4}} : \A d \in tripod : d \in Legs /\ Raw(next, d) >= 0
    BY <1>5
  <2> HIDE DEF Will, next
  <2>2. \A d \in tripod : r.pos[d] \in DownEnd(speed) .. DownStart(speed)
    BY <1>2, <1>4, <2>1
  <2> QED
    BY <2>1, <2>2
<1>7. \A d \in Legs : r.cmd[d].position \in 0 .. 768
  <2> TAKE d \in Legs
  <2>1. Command(d, Was(d), Will(d)).position \in 0 .. 768
    BY <1>3, CommandIs
  <2> QED
    BY <1>2, <2>1, Zenon
<1>8. ASSUME speed >= 0 \/ steering = 0, NEW d \in Legs  PROVE r.cmd[d].speed < MaxSpeed
  <2>1. Between(Will(d), Was(d)) \in 0 .. 731
    BY <1>8, LegSteady
  <2>2. Command(d, Was(d), Will(d)).speed < MaxSpeed
    BY <1>3, <2>1, CommandIs
  <2> QED
    BY <1>2, <2>2
<1> QED
  BY <1>6, <1>7, <1>8 DEF WellWalked, r

-----------------------------------------------------------------------------
(* A result is that of the job.                                            *)
CodecInv ==
  /\ job \in Headers \cup Frames \cup Ticks
  /\ done => /\ job.what = "header" => result = [old |-> Iterate(job), rc |-> IterateRc(job)]
             /\ job.what = "frame" =>
                  LET frames == WfbWrite(TxTypes(job.drivers), job.useCts, job.len, job.addHeader)
                  IN  result = [i \in DOMAIN frames |-> [frame |-> frames[i], rx |-> RxPayload(frames[i], job.before)]]
             /\ job.what = "tick" =>
                  LET speed == Stick(job.speed)  steering == Stick(job.steering)
                  IN  result = MakeStep(job.phase, Angles(job.phase, speed, steering), speed, steering)

LEMMA CodecInvHolds == CodecSpec => []CodecInv
<1>1. CodecInit => CodecInv
  BY DEF CodecInit, CodecInv
<1>2. ASSUME CodecInv, [CodecNext]_codecVars  PROVE CodecInv'
  <2>1. CASE UNCHANGED codecVars
    BY <1>2, <2>1 DEF CodecInv, codecVars
  <2>2. ASSUME Compute(Walk)  PROVE CodecInv'
    <3>1. job' = job /\ job.what = "header" /\ result' = [old |-> Iterate(job), rc |-> IterateRc(job)]
      BY <2>2 DEF Compute, Walk
    <3> QED
      BY <1>2, <3>1 DEF CodecInv
  <2>3. ASSUME Compute(Carry)  PROVE CodecInv'
    <3>1. /\ job' = job /\ job.what = "frame"
          /\ LET frames == WfbWrite(TxTypes(job.drivers), job.useCts, job.len, job.addHeader)
             IN  result' = [i \in DOMAIN frames |-> [frame |-> frames[i], rx |-> RxPayload(frames[i], job.before)]]
      BY <2>3, Zenon DEF Compute, Carry
    <3> QED
      BY <1>2, <3>1 DEF CodecInv
  <2>4. ASSUME Compute(Tick)  PROVE CodecInv'
    <3>1. /\ job' = job /\ job.what = "tick"
          /\ LET speed == Stick(job.speed)  steering == Stick(job.steering)
             IN  result' = MakeStep(job.phase, Angles(job.phase, speed, steering), speed, steering)
      BY <2>4, Zenon DEF Compute, Tick
    <3> QED
      BY <1>2, <3>1 DEF CodecInv
  <2> QED
    BY <1>2, <2>1, <2>2, <2>3, <2>4 DEF CodecNext
<1> QED
  BY <1>1, <1>2, PTL DEF CodecSpec

LEMMA JobIs ==
  ASSUME CodecInv
  PROVE  /\ Done("header") => job \in HeaderSet
         /\ Done("frame") => job \in Frames
         /\ Done("tick") => job \in Ticks
  BY HeaderAssumption, FrameAssumption, TickAssumption DEF CodecInv, Done, HeaderSet

(* For every header, of any bitmap words, any length and whatever vendors, *)
(* both radiotap iterators of libwfb find the fields that it announces, in *)
(* order and each in its place, as far as they fit: the old one those of   *)
(* the first word, the new one those up to the field (18, or the namespace *)
(* that wfb_rx.c registers) at which it goes astray.                       *)
THEOREM FieldsFound == CodecSpec => []FieldsWherePut
<1>1. CodecInv => FieldsWherePut
  <2> SUFFICES ASSUME CodecInv, Done("header")
               PROVE  /\ FindsAll(job, result.old.found, job.words[1] \cap 0 .. 13)
                      /\ FindsEach(job, result.rc.found, Announced(job))
                      /\ StaysOn(job) => FindsAll(job, result.rc.found, Announced(job))
    BY Zenon DEF FieldsWherePut
  <2>1. job \in HeaderSet
    BY JobIs
  <2>2. result.old = Iterate(job) /\ result.rc = IterateRc(job)
    BY DEF CodecInv, Done
  <2> QED
    BY <2>1, <2>2, IterateFinds, IterateRcFinds, Zenon
<1> QED
  BY <1>1, CodecInvHolds, PTL

(* Whatever cards a packet goes out by, what each of them sends is opened  *)
(* behind its header: the packet, padded no further than to the minimum of *)
(* the card, if the packet is of a length that the buffers of all these    *)
(* cards hold.                                                             *)
THEOREM PayloadsOpened == CodecSpec => []PayloadFound
<1>1. CodecInv => PayloadFound
  <2> SUFFICES ASSUME CodecInv, Done("frame"), NEW i \in DOMAIN result
               PROVE  LET r     == result[i]
                          least == IF r.frame.kind = "short" THEN 18 ELSE 5
                          head  == IF job.addHeader THEN SeqHeader ELSE 0
                      IN  r.rx = <<IeeeLen(r.frame.kind), head + (IF job.len < least THEN least ELSE job.len)>>
    BY DEF PayloadFound
  <2> DEFINE frames == WfbWrite(TxTypes(job.drivers), job.useCts, job.len, job.addHeader)
  <2>1. /\ job.drivers \in Seq(STRING) /\ job.useCts \in BOOLEAN /\ job.addHeader \in BOOLEAN
        /\ job.len \in Nat /\ FitsBuffers(TxTypes(job.drivers), job.useCts, job.len, job.addHeader)
    <3>1. job \in Frames
      BY JobIs
    <3> QED
      BY <3>1, FrameAssumption
  <2>2. result = [j \in DOMAIN frames |-> [frame |-> frames[j], rx |-> RxPayload(frames[j], job.before)]]
    BY DEF CodecInv, Done
  <2>3. DOMAIN frames = 1 .. Len(job.drivers)
    BY DEF WfbWrite, TxTypes
  <2> HIDE DEF frames
  <2>4. i \in 1 .. Len(job.drivers) /\ i \in DOMAIN frames
    BY <2>2, <2>3
  <2>5. result[i].frame = frames[i] /\ result[i].rx = RxPayload(frames[i], job.before)
    BY <2>2, <2>4
  <2>6. Opened(frames[i].kind, RxPayload(frames[i], job.before), job.len, job.addHeader)
    BY <2>1, <2>4, FrameOpened DEF frames
  <2> QED
    BY <2>5, <2>6 DEF Opened
<1> QED
  BY <1>1, CodecInvHolds, PTL

(* At every phase and wherever the sticks are held, a whole tripod is on   *)
(* the ground, the drives are asked for angles they have, and no leg has   *)
(* further to go in a cycle than its drive can do, except in a turn walked *)
(* backwards.                                                              *)
THEOREM SteadyGait == CodecSpec => []WalksSteadily
<1>1. CodecInv => WalksSteadily
  <2> SUFFICES ASSUME CodecInv, Done("tick")
               PROVE  LET speed == Stick(job.speed)
                      IN  /\ \E tripod \in {{0, 3, 5}, {1, 2, 4}} :
                               \A d \in tripod : result.pos[d] \in DownEnd(speed) .. DownStart(speed)
                          /\ speed >= 0 \/ job.steering = 1500 => \A d \in Legs : result.cmd[d].speed < MaxSpeed
                          /\ \A d \in Legs : result.cmd[d].position \in 0 .. 768
    BY Zenon DEF WalksSteadily
  <2>1. job.phase \in 0 .. Step /\ job.speed \in Nat /\ job.steering \in Nat
    <3>1. job \in Ticks
      BY JobIs
    <3> QED
      BY <3>1, TickAssumption
  <2> DEFINE speed == Stick(job.speed)
             steering == Stick(job.steering)
  <2>2. Deflected(speed) /\ Deflected(steering) /\ (job.steering = 1500 => steering = 0)
    BY <2>1, StickIs
  <2>3. result = MakeStep(job.phase, Angles(job.phase, speed, steering), speed, steering)
    BY DEF CodecInv, Done
  <2> HIDE DEF speed, steering
  <2>4. WellWalked(result, speed, steering)
    <3>1. Deflected(speed) /\ Deflected(steering)
      BY <2>2
    <3> QED
      BY <2>1, <2>3, <3>1, StepIs, Zenon
  <2> QED
    BY <2>2, <2>4 DEF WellWalked, speed
<1> QED
  BY <1>1, CodecInvHolds, PTL
=============================================================================
