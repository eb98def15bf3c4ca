-------------------------- MODULE LogBufferProofs ---------------------------
(***************************************************************************)
(* Theorems about the log ring of liblog, for any size of the ring, any    *)
(* messages and any order in which the stores into the ring become         *)
(* visible: what is printed is what was put, in order, or an older record  *)
(* where head has overtaken one, until the printer is lapped or slips; and *)
(* it slips only on a message still being put, hidden, or overtaken.       *)
(***************************************************************************)
EXTENDS LogBuffer, NatLemmas

(* The record with ordinal n + 1 is put here.                              *)
Place(n) == ((Size - 2) + n) % Size

(* How many records the tail has passed.                                   *)
Consumed == IF cpc \in {"flag", "more", "step"} THEN Len(shown) - 1 ELSE Len(shown)

(* The last record filled in, and whether it ends a message.               *)
Last     == IF filled THEN put + 1 ELSE put
Complete == left = IF filled THEN 1 ELSE 0

Base ==
  /\ TypeOK
  /\ filled => left > 0
  /\ seen <= put
  /\ mine = Place(put) /\ head = Place(seen)

(* Only records of a slot are ever in it or on their way to it.            *)
Known(id, at) == id \in 1 .. Last /\ Place(id - 1) = at
Ages ==
  /\ \A i \in Index : records[i].id = 0 \/ Known(records[i].id, i)
  /\ \A s \in todo : Known(s.id, s.at)

(* The service is less than a ring ahead of the tail.                      *)
Counts ==
  /\ Consumed \in Nat /\ Consumed <= seen /\ put < Consumed + Size
  /\ cpc \in {"print", "flag", "more", "step"} => Consumed < seen
  /\ tail = Place(Consumed)

(* The slot of record v + 1 has its text, or its text is on its way; it    *)
(* will be marked END; nothing is on its way to it any more.               *)
Texted(v) ==
  /\ \A s \in todo : s.at = Place(v) => s.id = v + 1
  /\ \/ \E s \in todo : s.at = Place(v) /\ s.part = "text"
     \/ records[Place(v)].id = v + 1
Marked(v) ==
  /\ \A s \in todo : (s.at = Place(v) /\ s.part # "text") => s.end
  /\ \/ \E s \in todo : s.at = Place(v) /\ s.part # "text"
     \/ records[Place(v)].end
Settled(v) == \A s \in todo : s.at # Place(v)

Content ==
  /\ \A v \in Nat : (Consumed <= v /\ v < Last) =>
        Texted(v) /\ ((v + 1 = Last /\ Complete) => Marked(v))
  /\ ~swapped =>
       /\ \A v \in Nat : (Consumed <= v /\ v < seen) => Settled(v)
       /\ cpc = "more" => ~records[tail].end
       /\ (cpc = "again" /\ Consumed = put) => left > 0

Printed == \A n \in 1 .. Len(shown) : shown[n] = n \/ (swapped /\ Old(shown[n], n))

InOrder == ~lapped /\ ~slipped
IInv    == Base /\ Ages /\ (InOrder => Counts /\ Content /\ Printed)

-----------------------------------------------------------------------------
LEMMA SizeFacts == Size \in Nat \ {0} /\ Size - 2 \in Nat /\ Size > 1
  BY SizeAssumption

LEMMA PlaceType == ASSUME NEW n \in Nat PROVE Place(n) \in Index
<1>1. (Size - 2) + n \in Nat
  BY SizeFacts
<1> QED
  BY <1>1, SizeFacts, DivMod DEF Place, Index

LEMMA PlaceSucc == ASSUME NEW n \in Nat PROVE Succ(Place(n)) = Place(n + 1)
<1>1. (Size - 2) + n \in Nat /\ ((Size - 2) + n) + 1 = (Size - 2) + (n + 1)
  BY SizeFacts
<1> QED
  BY <1>1, SizeFacts, ModSucc DEF Place, Succ

(* Less than a ring apart is another place, a whole ring apart the same.   *)
LEMMA PlacesApart ==
  ASSUME NEW a \in Nat, NEW b \in Nat, a < b, b < a + Size
  PROVE  Place(a) # Place(b)
<1> DEFINE x == (Size - 2) + a
           y == (Size - 2) + b
<1>1. x \in Nat /\ y \in Nat /\ x < y /\ y < x + Size
  BY SizeFacts
<1> HIDE DEF x, y
<1>2. x % Size # y % Size
  BY <1>1, SizeFacts, ModDistinct
<1> QED
  BY <1>2 DEF x, y, Place

LEMMA PlaceRound == ASSUME NEW a \in Nat PROVE Place(a + Size) = Place(a)
<1> DEFINE x == (Size - 2) + a
           q == x \div Size
           r == x % Size
<1>1. x \in Nat /\ x + Size \in Nat /\ x + Size = (Size - 2) + (a + Size)
  BY SizeFacts
<1> HIDE DEF x
<1>2. q \in Nat /\ x = Size * q + r /\ r \in 0 .. Size - 1
  BY <1>1, SizeFacts, DivMod
<1> HIDE DEF q, r
<1>3. q + 1 \in Nat /\ x + Size = Size * (q + 1) + r
  BY <1>2, SizeFacts
<1>4. (Size * (q + 1) + r) % Size = r
  BY <1>2, <1>3, SizeFacts, RemainderUnique
<1> QED
  BY <1>1, <1>3, <1>4 DEF x, r, Place

(* The test of head against tail means what it should.                     *)
LEMMA TailMeetsHead ==
  ASSUME Base, Counts
  PROVE  head = tail <=> Consumed = seen
<1>1. seen \in Nat /\ put \in Nat /\ Consumed \in Nat /\ Consumed <= seen /\ seen < Consumed + Size
  BY SizeFacts DEF Base, TypeOK, Counts
<1>2. Consumed < seen => Place(Consumed) # Place(seen)
  BY <1>1, PlacesApart
<1> QED
  BY <1>1, <1>2 DEF Base, Counts

(* A record of the slot of record v + 1 is that one or a whole round off.  *)
LEMMA WholeRounds ==
  ASSUME NEW v \in Nat, NEW id \in Nat, id > 0, Place(id - 1) = Place(v), id <= v + Size
  PROVE  id = v + 1 \/ id + Size <= v + 1
<1>1. id - 1 \in Nat
  OBVIOUS
<1>2. CASE id - 1 < v
  <2>1. ~(v < (id - 1) + Size)
    BY <1>1, <1>2, PlacesApart
  <2> QED
    BY <2>1, SizeFacts
<1>3. CASE id - 1 > v
  BY <1>1, <1>3, PlacesApart, SizeFacts
<1> QED
  BY <1>2, <1>3

-----------------------------------------------------------------------------
LEMMA IInvInit == Init => IInv
<1> SUFFICES ASSUME Init  PROVE IInv
  OBVIOUS
<1>1. Size - 2 \in Index /\ Place(0) = Size - 2
  <2>1. Size - 2 = Size * 0 + (Size - 2) /\ Size - 2 \in 0 .. Size - 1
    BY SizeFacts
  <2>2. (Size - 2) % Size = Size - 2
    BY <2>1, SizeFacts, RemainderUnique
  <2> QED
    BY <2>1, <2>2, SizeFacts DEF Place, Index
<1>2. records \in [Index -> [id : Nat, end : BOOLEAN]] /\ \A i \in Index : records[i].id = 0
  BY DEF Init
<1>3. Base
  <2>1. shown \in Seq(Nat) /\ seen <= put
    BY DEF Init
  <2>2. mine = Place(put) /\ head = Place(seen)
    BY <1>1 DEF Init
  <2> QED
    BY <1>1, <1>2, <2>1, <2>2 DEF Init, Base, TypeOK
<1>4. Ages
  BY <1>2 DEF Init, Ages
<1>5. Counts /\ Content /\ Printed
  BY <1>1, SizeFacts DEF Init, Counts, Content, Printed, Consumed, Last
<1> QED
  BY <1>3, <1>4, <1>5 DEF IInv

(* The service. *)
LEMMA IInvPutBegin ==
  ASSUME IInv, NEW n \in 1 .. MaxRecs, PutBegin(n)
  PROVE  IInv'
<1>1. /\ left = 0 /\ left' = n /\ n > 0 /\ n \in Nat
      /\ UNCHANGED <<mine, todo, filled, put, lapped, head, records, seen, swapped,
                     tail, cpc, shown, slipped>>
  BY RecsAssumption DEF PutBegin, seenVars, printVars
<1>2. Base' /\ Ages'
  BY <1>1 DEF IInv, Base, Ages, Known, Last, TypeOK
<1>3. ~Complete'
  BY <1>1 DEF IInv, Base, TypeOK, Complete
<1>4. InOrder => Counts' /\ Content' /\ Printed'
  BY <1>1, <1>3 DEF IInv, Counts, Content, Printed, Consumed, Last, Texted, Settled
<1> QED
  BY <1>1, <1>2, <1>4 DEF IInv, InOrder

LEMMA IInvFillRecord == IInv /\ FillRecord => IInv'
<1> SUFFICES ASSUME IInv, FillRecord  PROVE IInv'
  OBVIOUS
<1> DEFINE new == [at : {mine}, part : Parts, id : {put + 1}, end : {left = 1}]
<1>1. /\ todo' = {s \in todo : s.at # mine} \cup new
      /\ ~filled /\ filled' = TRUE /\ left > 0
      /\ UNCHANGED <<mine, left, put, lapped, head, records, seen, swapped,
                     tail, cpc, shown, slipped>>
  BY DEF FillRecord, seenVars, printVars
<1>2. /\ \A s \in new : s.at = mine /\ s.id = put + 1 /\ s.end = (left = 1) /\ s.part \in Parts
      /\ [at |-> mine, part |-> "text", id |-> put + 1, end |-> left = 1] \in new
      /\ [at |-> mine, part |-> "log_continue", id |-> put + 1, end |-> left = 1] \in new
      /\ new \subseteq [at : Index, part : Parts, id : Nat, end : BOOLEAN]
  <2>1. mine \in Index /\ put + 1 \in Nat /\ (left = 1) \in BOOLEAN
    BY DEF IInv, Base, TypeOK
  <2>2. "text" \in Parts /\ "log_continue" \in Parts
    BY DEF Parts
  <2> QED
    BY <2>1, <2>2
<1> HIDE DEF new
<1>3. \E s \in new : s.at = mine /\ s.part = "text"
  BY <1>2
<1>4. \E s \in new : s.at = mine /\ s.part # "text"
  BY <1>2
<1>5. Base'
  BY <1>1, <1>2 DEF IInv, Base, TypeOK, Place
<1>6. put \in Nat /\ Last = put /\ Last' = put + 1 /\ mine = Place(put) /\ left \in Nat
  BY <1>1 DEF Last, IInv, Base, TypeOK
<1>7. Ages'
  <2>1. \A i \in Index : records'[i].id = 0 \/ Known(records[i].id, i)'
    BY <1>1, <1>6 DEF IInv, Ages, Known, Place
  <2>2. ASSUME NEW s \in todo'  PROVE Known(s.id, s.at)'
    <3>1. CASE s \in todo
      BY <3>1, <1>6 DEF IInv, Ages, Known, Place
    <3>2. CASE s \in new
      <4>1. s.id = put + 1 /\ s.at = Place(put) /\ (put + 1) - 1 = put
        BY <3>2, <1>2, <1>6
      <4> QED
        BY <4>1, <1>6 DEF Known, Place
    <3> QED
      BY <1>1, <3>1, <3>2
  <2> QED
    BY <1>1, <2>1, <2>2 DEF Ages
<1>8. ASSUME InOrder  PROVE Counts' /\ Content' /\ Printed'
  <2>1. Counts /\ Content /\ Printed /\ Base
    BY <1>8 DEF IInv
  <2>2. Counts' /\ Printed' /\ Consumed' = Consumed
    BY <1>1, <2>1 DEF Counts, Printed, Consumed, Place
  <2>3. ASSUME NEW v \in Nat, Consumed <= v, v < put
        PROVE  \A s : s.at = Place(v) => (s \in todo' <=> s \in todo)
    <3>1. Place(v) # mine
      BY <2>1, <2>3, <1>6, PlacesApart, SizeFacts DEF Counts
    <3> QED
      BY <1>1, <1>2, <3>1
  <2>4. ASSUME NEW v \in Nat, Consumed <= v, v < Last'
        PROVE  Texted(v)' /\ ((v + 1 = Last' /\ Complete') => Marked(v)')
    <3>1. CASE v < put
      <4>1. Texted(v)
        BY <3>1, <2>1, <2>4, <1>6 DEF Content
      <4>2. Texted(v)'
        BY <4>1, <3>1, <2>3, <2>4, <1>1 DEF Texted, Place
      <4> QED
        BY <4>2, <3>1, <1>6
    <3>2. CASE v = put
      <4>1. \A s \in todo' : s.at = Place(v) => s \in new
        BY <3>2, <1>1, <1>6
      <4>2. Texted(v)'
        BY <4>1, <3>2, <1>1, <1>2, <1>3, <1>6 DEF Texted, Place
      <4>3. Complete' => left = 1
        BY <1>1 DEF Complete
      <4>4. Complete' => Marked(v)'
        BY <4>1, <4>3, <3>2, <1>1, <1>2, <1>4, <1>6 DEF Marked, Place
      <4> QED
        BY <4>2, <4>4
    <3> QED
      BY <3>1, <3>2, <2>4, <1>6
  <2>5. ASSUME ~swapped, NEW v \in Nat, Consumed <= v, v < seen  PROVE Settled(v)'
    <3>1. v < put
      BY <2>1, <2>5, <1>6 DEF Base, TypeOK
    <3>2. Settled(v)
      BY <2>1, <2>5 DEF Content
    <3> QED
      BY <2>3, <2>5, <3>1, <3>2 DEF Settled, Place
  <2> QED
    BY <1>1, <2>1, <2>2, <2>4, <2>5 DEF Content
<1> QED
  BY <1>1, <1>5, <1>7, <1>8 DEF IInv, InOrder

LEMMA IInvAdvanceHead == IInv /\ AdvanceHead => IInv'
<1> SUFFICES ASSUME IInv, AdvanceHead  PROVE IInv'
  OBVIOUS
<1>1. /\ filled /\ mine' = Succ(mine) /\ filled' = FALSE /\ left' = left - 1
      /\ put' = put + 1 /\ lapped' = (lapped \/ mine' = tail)
      /\ UNCHANGED <<todo, head, records, seen, swapped, tail, cpc, shown, slipped>>
  BY DEF AdvanceHead, seenVars, printVars
<1>2. put \in Nat /\ seen \in Nat /\ left \in Nat /\ left > 0 /\ seen <= put
  BY <1>1 DEF IInv, Base, TypeOK
<1>3. mine' = Place(put')
  BY <1>1, <1>2, PlaceSucc DEF IInv, Base
<1>4. Base'
  <2>1. mine' \in Index
    BY <1>1, <1>2, <1>3, PlaceType
  <2>2. lapped' \in BOOLEAN
    BY <1>1 DEF IInv, Base, TypeOK
  <2> QED
    <3>1. left' \in Nat /\ put' \in Nat /\ seen' <= put'
      BY <1>1, <1>2
    <3>2. TypeOK'
      BY <1>1, <2>1, <2>2, <3>1 DEF IInv, Base, TypeOK
    <3>3. head' = Place(seen)
      BY <1>1 DEF IInv, Base
    <3> QED
      BY <1>1, <1>3, <3>1, <3>2, <3>3 DEF Base, Place
<1>5. Last' = Last /\ (Complete' <=> Complete)
  BY <1>1, <1>2 DEF Last, Complete
<1>6. Ages'
  BY <1>1, <1>5 DEF IInv, Ages, Known, Place
<1>7. ASSUME InOrder'  PROVE Counts' /\ Content' /\ Printed'
  <2>1. InOrder /\ Counts /\ Content /\ Printed /\ mine' # tail
    BY <1>1, <1>7 DEF IInv, InOrder
  <2>2. put' < Consumed + Size
    <3>1. put + 1 # Consumed + Size
      BY <1>1, <2>1, <1>3, PlaceRound DEF Counts
    <3> QED
      BY <1>1, <2>1, <1>2, <3>1, SizeFacts DEF Counts
  <2>3. Counts' /\ Printed' /\ Consumed' = Consumed
    BY <1>1, <2>1, <2>2 DEF Counts, Printed, Consumed, Place
  <2>4. Consumed' # put'
    BY <1>1, <1>2, <2>1, <2>3 DEF Counts
  <2> QED
    BY <1>1, <1>5, <2>1, <2>3, <2>4 DEF Content, Texted, Marked, Settled, Place
<1> QED
  BY <1>4, <1>6, <1>7 DEF IInv

-----------------------------------------------------------------------------
(* The memory. *)
LEMMA IInvStoreVisible ==
  ASSUME IInv, NEW s \in todo, StoreVisible(s)
  PROVE  IInv'
<1>1. /\ todo' = todo \ {s}
      /\ records' = IF s.part = "text" THEN [records EXCEPT ![s.at].id = s.id]
                                       ELSE [records EXCEPT ![s.at].end = s.end]
      /\ UNCHANGED <<mine, left, filled, put, lapped, head, seen, swapped, tail, cpc, shown, slipped>>
  BY DEF StoreVisible, printVars
<1>2. /\ s.at \in Index /\ s.part \in Parts /\ s.id \in Nat /\ s.end \in BOOLEAN
      /\ records \in [Index -> [id : Nat, end : BOOLEAN]]
  BY DEF IInv, Base, TypeOK
<1>3. /\ records' \in [Index -> [id : Nat, end : BOOLEAN]]
      /\ \A i \in Index \ {s.at} : records'[i] = records[i]
      /\ s.part = "text" => records'[s.at].id = s.id /\ records'[s.at].end = records[s.at].end
      /\ s.part # "text" => records'[s.at].id = records[s.at].id /\ records'[s.at].end = s.end
  BY <1>1, <1>2
<1>4. Base' /\ Last' = Last /\ Complete' = Complete
  BY <1>1, <1>3 DEF IInv, Base, TypeOK, Place, Last, Complete
<1>5. Ages'
  <2>1. \A i \in Index : records'[i].id = 0 \/ Known(records'[i].id, i)
    BY <1>2, <1>3 DEF IInv, Ages
  <2> QED
    BY <2>1, <1>1, <1>4 DEF IInv, Ages, Known, Place
<1>6. ASSUME InOrder  PROVE Counts' /\ Content' /\ Printed'
  <2>1. Counts /\ Content /\ Printed
    BY <1>6 DEF IInv
  <2>2. Counts' /\ Printed' /\ Consumed' = Consumed
    BY <1>1, <2>1 DEF Counts, Printed, Consumed, Place
  <2>3. ASSUME NEW v \in Nat, Texted(v)  PROVE Texted(v)'
    <3>1. CASE s.at = Place(v) /\ s.part = "text"
      BY <3>1, <2>3, <1>1, <1>3 DEF Texted, Place
    <3>2. CASE ~(s.at = Place(v) /\ s.part = "text")
      <4>1. records'[Place(v)].id = records[Place(v)].id
        BY <3>2, <1>2, <1>3, PlaceType
      <4> QED
        BY <4>1, <3>2, <2>3, <1>1 DEF Texted, Place
    <3> QED
      BY <3>1, <3>2
  <2>4. ASSUME NEW v \in Nat, Marked(v)  PROVE Marked(v)'
    <3>1. CASE s.at = Place(v) /\ s.part # "text"
      BY <3>1, <2>4, <1>1, <1>3 DEF Marked, Place
    <3>2. CASE ~(s.at = Place(v) /\ s.part # "text")
      <4>1. records'[Place(v)].end = records[Place(v)].end
        BY <3>2, <1>2, <1>3, PlaceType
      <4> QED
        BY <4>1, <3>2, <2>4, <1>1 DEF Marked, Place
    <3> QED
      BY <3>1, <3>2
  <2>5. \A v \in Nat : Settled(v) => Settled(v)'
    BY <1>1 DEF Settled, Place
  <2>6. (cpc = "more" /\ ~swapped) => records'[tail] = records[tail]
    <3> SUFFICES ASSUME cpc = "more", ~swapped  PROVE records'[tail] = records[tail]
      OBVIOUS
    <3>1. Settled(Consumed)
      BY <2>1 DEF Counts, Content
    <3>2. tail # s.at /\ tail \in Index
      BY <3>1, <2>1 DEF Settled, Counts, IInv, Base, TypeOK
    <3> QED
      BY <3>2, <1>3
  <2> QED
    BY <1>1, <1>4, <2>1, <2>2, <2>3, <2>4, <2>5, <2>6 DEF Content
<1> QED
  BY <1>1, <1>4, <1>5, <1>6 DEF IInv, InOrder

LEMMA IInvHeadVisible == IInv /\ HeadVisible => IInv'
<1> SUFFICES ASSUME IInv, HeadVisible  PROVE IInv'
  OBVIOUS
<1>1. /\ seen < put /\ head' = Succ(head) /\ seen' = seen + 1
      /\ swapped' = (swapped \/ \E s \in todo : s.at = head)
      /\ UNCHANGED <<records, mine, todo, left, filled, put, lapped, tail, cpc, shown, slipped>>
  BY DEF HeadVisible, putVars, printVars
<1>2. seen \in Nat /\ put \in Nat /\ head = Place(seen) /\ swapped \in BOOLEAN
  BY DEF IInv, Base, TypeOK
<1>3. head' = Place(seen')
  BY <1>1, <1>2, PlaceSucc
<1>4. Base'
  <2>1. head' \in Index
    BY <1>1, <1>2, <1>3, PlaceType
  <2>2. swapped' \in BOOLEAN
    BY <1>1, <1>2
  <2>3. mine' = Place(put') /\ seen' \in Nat /\ seen' <= put'
    BY <1>1, <1>2 DEF IInv, Base
  <2>4. TypeOK'
    BY <1>1, <2>1, <2>2, <2>3 DEF IInv, Base, TypeOK
  <2> QED
    BY <1>1, <1>3, <2>3, <2>4 DEF IInv, Base, Place
<1>5. Ages' /\ Last' = Last /\ Complete' = Complete
  BY <1>1 DEF IInv, Ages, Known, Place, Last, Complete
<1>6. ASSUME InOrder  PROVE Counts' /\ Content' /\ Printed'
  <2>1. Counts /\ Content /\ Printed
    BY <1>6 DEF IInv
  <2>2. Counts' /\ Consumed' = Consumed
    BY <1>1, <1>2, <2>1 DEF Counts, Consumed, Place
  <2>3. Printed'
    BY <1>1, <2>1 DEF Printed
  <2>4. ~swapped' => Settled(seen)
    BY <1>1, <1>2 DEF Settled
  <2>5. \A v \in Nat : v < seen' => v < seen \/ v = seen
    BY <1>1, <1>2
  <2>6. \A v \in Nat : (Texted(v) => Texted(v)') /\ (Marked(v) => Marked(v)') /\ (Settled(v) => Settled(v)')
    BY <1>1 DEF Texted, Marked, Settled, Place
  <2>7. ~swapped' => ~swapped
    BY <1>1, <1>2
  <2> QED
    BY <1>1, <1>5, <2>1, <2>2, <2>3, <2>4, <2>5, <2>6, <2>7 DEF Content
<1> QED
  BY <1>1, <1>4, <1>5, <1>6 DEF IInv, InOrder

-----------------------------------------------------------------------------
(* The printer. *)
LEMMA IInvStart == IInv /\ Start => IInv'
<1> SUFFICES ASSUME IInv, Start  PROVE IInv'
  OBVIOUS
<1>1. /\ cpc = "idle" /\ head # tail /\ cpc' = "print"
      /\ UNCHANGED <<tail, shown, slipped, mine, todo, left, filled, put, lapped,
                     head, records, seen, swapped>>
  BY DEF Start, putVars, seenVars
<1>2. Base' /\ Ages'
  BY <1>1 DEF IInv, Base, Ages, Known, Last, Place, TypeOK
<1>3. ASSUME InOrder  PROVE Counts' /\ Content' /\ Printed'
  <2>1. Consumed # seen /\ seen \in Nat /\ Counts /\ Content /\ Printed
    BY <1>1, <1>3, TailMeetsHead DEF IInv, Base, TypeOK
  <2>2. Consumed' = Consumed
    BY <1>1 DEF Consumed
  <2>3. Counts' /\ Printed'
    BY <1>1, <2>1, <2>2 DEF Counts, Printed, Place
  <2> QED
    BY <1>1, <2>1, <2>2, <2>3 DEF Content, Texted, Marked, Settled, Place, Last, Complete
<1> QED
  BY <1>1, <1>2, <1>3 DEF IInv, InOrder

LEMMA IInvShow == IInv /\ Show => IInv'
<1> SUFFICES ASSUME IInv, Show  PROVE IInv'
  OBVIOUS
<1>1. /\ cpc = "print" /\ cpc' = "flag"
      /\ shown' = IF lapped \/ slipped THEN shown ELSE Append(shown, records[tail].id)
      /\ UNCHANGED <<tail, slipped, mine, todo, left, filled, put, lapped,
                     head, records, seen, swapped>>
  BY DEF Show, putVars, seenVars
<1>2. records[tail].id \in Nat /\ shown \in Seq(Nat) /\ tail \in Index
  BY DEF IInv, Base, TypeOK
<1>3. Base' /\ Ages'
  <2>1. shown' \in Seq(Nat)
    BY <1>1, <1>2
  <2> QED
    BY <1>1, <2>1 DEF IInv, Base, Ages, Known, Last, Place, TypeOK
<1>4. ASSUME InOrder  PROVE Counts' /\ Content' /\ Printed'
  <2> DEFINE id == records[tail].id
             n  == Len(shown)
  <2>1. Counts /\ Content /\ Printed /\ Consumed = n /\ n \in Nat /\ n < seen /\ tail = Place(n)
    BY <1>1, <1>2, <1>4 DEF IInv, Consumed, Counts
  <2>2. shown' = Append(shown, id) /\ Len(shown') = n + 1 /\ shown'[n + 1] = id
        /\ \A m \in 1 .. n : shown'[m] = shown[m]
    BY <1>1, <1>2, <1>4 DEF InOrder
  <2>3. Consumed' = Consumed
    <3>1. Consumed' = Len(shown') - 1
      BY <1>1 DEF Consumed
    <3> HIDE DEF n
    <3> QED
      BY <2>1, <2>2, <3>1
  <2>4. Counts'
    BY <1>1, <2>1, <2>3 DEF Counts, Place
  <2>5. Content'
    BY <1>1, <2>1, <2>3 DEF Content, Texted, Marked, Settled, Place, Last, Complete
  <2>6. put \in Nat /\ seen \in Nat /\ seen <= put /\ put < n + Size /\ Last \in Nat /\ Last <= put + 1 /\ n < Last
    BY <2>1 DEF Counts, IInv, Base, TypeOK, Last
  <2>7. id = n + 1 \/ Old(id, n + 1)
    <3>1. CASE id = 0
      BY <3>1 DEF Old
    <3>2. CASE Known(id, tail)
      <4>1. id > 0 /\ id <= n + Size /\ Place(id - 1) = Place(n)
        BY <3>2, <2>1, <2>6, <1>2, SizeFacts DEF Known
      <4> QED
        BY <4>1, <2>1, <1>2, WholeRounds DEF Old
    <3> QED
      BY <3>1, <3>2, <1>2 DEF IInv, Ages
  <2>8. ~swapped => id = n + 1
    <3>1. ~swapped => Settled(n)
      BY <2>1 DEF Content
    <3>2. Texted(n)
      BY <2>1, <2>6 DEF Content
    <3> QED
      BY <3>1, <3>2, <2>1 DEF Settled, Texted
  <2>9. Printed'
    BY <1>1, <2>1, <2>2, <2>7, <2>8 DEF Printed
  <2> QED
    BY <2>4, <2>5, <2>9
<1> QED
  BY <1>1, <1>3, <1>4 DEF IInv, InOrder

LEMMA IInvTestEnd == IInv /\ TestEnd => IInv'
<1> SUFFICES ASSUME IInv, TestEnd  PROVE IInv'
  OBVIOUS
<1>1. /\ cpc = "flag" /\ cpc' = (IF records[tail].end THEN "step" ELSE "more")
      /\ UNCHANGED <<tail, shown, slipped, mine, todo, left, filled, put, lapped,
                     head, records, seen, swapped>>
  BY DEF TestEnd, putVars, seenVars
<1>2. Base' /\ Ages'
  BY <1>1 DEF IInv, Base, Ages, Known, Last, Place, TypeOK
<1>3. ASSUME InOrder  PROVE Counts' /\ Content' /\ Printed'
  <2>1. Consumed' = Consumed /\ Counts /\ Content /\ Printed
    BY <1>1, <1>3 DEF IInv, Consumed
  <2>2. Counts' /\ Printed'
    BY <1>1, <2>1 DEF Counts, Printed, Place
  <2> QED
    BY <1>1, <2>1, <2>2 DEF Content, Texted, Marked, Settled, Place, Last, Complete
<1> QED
  BY <1>1, <1>2, <1>3 DEF IInv, InOrder

(* The tail moves over the record printed, inside a message or after it.   *)
LEMMA IInvMoveTail == IInv /\ (NextRecord \/ StepTail) => IInv'
<1> SUFFICES ASSUME IInv, NextRecord \/ StepTail  PROVE IInv'
  OBVIOUS
<1>1. /\ (cpc = "more" /\ cpc' = "again") \/ (cpc = "step" /\ cpc' = "idle")
      /\ tail' = Succ(tail)
      /\ UNCHANGED <<shown, slipped, mine, todo, left, filled, put, lapped,
                     head, records, seen, swapped>>
  BY DEF NextRecord, StepTail, putVars, seenVars
<1>2. Base' /\ Ages'
  <2>1. tail' \in Index
    BY <1>1, SizeFacts, DivMod DEF IInv, Base, TypeOK, Succ, Index
  <2> QED
    BY <1>1, <2>1 DEF IInv, Base, Ages, Known, Last, Place, TypeOK
<1>3. ASSUME InOrder  PROVE Counts' /\ Content' /\ Printed'
  <2>1. Counts /\ Content /\ Printed /\ Base /\ Consumed < seen /\ seen <= put
        /\ seen \in Nat /\ put \in Nat /\ left \in Nat /\ Consumed \in Nat
    BY <1>1, <1>3 DEF IInv, Base, TypeOK, Counts
  <2>2. Consumed' = Consumed + 1
    BY <1>1, <2>1 DEF Consumed, Base, TypeOK
  <2>3. tail' = Place(Consumed')
    BY <1>1, <2>1, <2>2, PlaceSucc DEF Counts
  <2>4. Counts'
    BY <1>1, <2>1, <2>2, <2>3, SizeFacts DEF Counts, Place
  <2>5. Printed' /\ Last' = Last /\ Complete' = Complete
    BY <1>1, <2>1 DEF Printed, Last, Complete
  <2>6. \A v \in Nat : (Consumed' <= v /\ v < Last') =>
          Texted(v)' /\ ((v + 1 = Last' /\ Complete') => Marked(v)')
    BY <1>1, <2>1, <2>2, <2>5 DEF Content, Texted, Marked, Place
  <2>7. ASSUME ~swapped, cpc' = "again", Consumed' = put  PROVE left > 0
    <3> SUFFICES ASSUME left = 0  PROVE FALSE
      BY <2>1
    <3>1. Last = put /\ Complete /\ Consumed + 1 = Last /\ Consumed < Last
      BY <2>1, <2>2, <2>7 DEF Last, Complete, Base
    <3>2. Marked(Consumed) /\ Settled(Consumed)
      BY <3>1, <2>1, <2>7 DEF Content
    <3>3. records[tail].end
      BY <3>2, <2>1 DEF Marked, Settled, Counts
    <3>4. ~records[tail].end
      BY <1>1, <2>1, <2>7 DEF Content
    <3> QED
      BY <3>3, <3>4
  <2>8. ~swapped => \A v \in Nat : (Consumed' <= v /\ v < seen) => Settled(v)'
    BY <1>1, <2>1, <2>2 DEF Content, Settled, Place
  <2> QED
    BY <1>1, <2>4, <2>5, <2>6, <2>7, <2>8 DEF Content
<1> QED
  BY <1>1, <1>2, <1>3 DEF IInv, InOrder

LEMMA IInvTestMore == IInv /\ TestMore => IInv'
<1> SUFFICES ASSUME IInv, TestMore  PROVE IInv'
  OBVIOUS
<1>1. /\ cpc = "again"
      /\ \/ head # tail /\ cpc' = "print" /\ slipped' = slipped
         \/ head = tail /\ cpc' = "step" /\ slipped' = TRUE
      /\ UNCHANGED <<tail, shown, mine, todo, left, filled, put, lapped, head, records, seen, swapped>>
  BY DEF TestMore, putVars, seenVars
<1>2. Base' /\ Ages'
  BY <1>1 DEF IInv, Base, Ages, Known, Last, Place, TypeOK
<1>3. ASSUME InOrder'  PROVE Counts' /\ Content' /\ Printed'
  <2>1. InOrder /\ head # tail /\ cpc' = "print"
    BY <1>1, <1>3 DEF InOrder
  <2>2. Counts /\ Content /\ Printed /\ Consumed # seen /\ seen \in Nat
    BY <2>1, TailMeetsHead DEF IInv, Base, TypeOK
  <2>3. Consumed' = Consumed
    BY <1>1, <2>1 DEF Consumed
  <2>4. Counts' /\ Printed'
    BY <1>1, <2>1, <2>2, <2>3 DEF Counts, Printed, Place
  <2> QED
    BY <1>1, <2>1, <2>2, <2>3, <2>4 DEF Content, Texted, Marked, Settled, Place, Last, Complete
<1> QED
  BY <1>2, <1>3 DEF IInv

LEMMA IInvStep == IInv /\ [Next]_vars => IInv'
<1> SUFFICES ASSUME IInv, [Next]_vars  PROVE IInv'
  OBVIOUS
<1>1. CASE UNCHANGED vars
  <2>1. UNCHANGED <<mine, todo, left, filled, put, lapped, head, records, seen, swapped,
                    tail, cpc, shown, slipped>>
    BY <1>1 DEF vars, putVars, seenVars, printVars
  <2>2. Base' /\ Ages' /\ (InOrder <=> InOrder')
    BY <2>1 DEF IInv, Base, Ages, Known, Last, Place, TypeOK, InOrder
  <2>3. InOrder => Counts' /\ Content' /\ Printed'
    BY <2>1 DEF IInv, Counts, Content, Printed, Consumed, Texted, Marked, Settled, Place, Last, Complete
  <2> QED
    BY <2>2, <2>3 DEF IInv
<1> QED
  BY <1>1, IInvPutBegin, IInvFillRecord, IInvAdvanceHead, IInvStoreVisible, IInvHeadVisible,
     IInvStart, IInvShow, IInvTestEnd, IInvMoveTail, IInvTestMore DEF Next, Put, Memory, Printer

LEMMA Inductive == Spec => []IInv
  BY IInvInit, IInvStep, PTL DEF Spec

-----------------------------------------------------------------------------
(* A place is printed for every record, in the order they were put, until  *)
(* the printer is lapped or slips; it holds the record, or an older one    *)
(* once head has become visible before the record it publishes.            *)
THEOREM PrintedInOrder == Spec => []Fifo
<1>1. IInv => Fifo
  <2> SUFFICES ASSUME IInv, ~lapped, ~slipped  PROVE Fifo
    BY DEF Fifo
  <2>1. Counts /\ Base /\ Printed
    BY DEF IInv, InOrder
  <2>2. Len(shown) <= seen
    BY <2>1 DEF Base, TypeOK, Counts, Consumed
  <2>3. (cpc = "idle" /\ head = tail) => Len(shown) = seen
    BY <2>1, TailMeetsHead DEF Consumed
  <2> QED
    BY <2>1, <2>2, <2>3 DEF Fifo, Printed
<1> QED
  BY <1>1, Inductive, PTL

(* The printer slips only while the message is still being put or part of  *)
(* it still hidden, unless head has overtaken a record.                    *)
THEOREM SlipNeedsOpenMessage == Spec => SlipsOnlyMidMessage
<1>1. IInv /\ [Next]_vars =>
        [(slipped' # slipped /\ ~lapped /\ ~swapped) => (left > 0 \/ seen < put)]_vars
  <2> SUFFICES ASSUME IInv, [Next]_vars, slipped' # slipped, ~lapped, ~swapped
               PROVE  left > 0 \/ seen < put
    OBVIOUS
  <2>1. TestMore /\ head = tail /\ ~slipped
    BY DEF Next, Put, Memory, Printer, PutBegin, FillRecord, AdvanceHead, StoreVisible, HeadVisible,
           Start, Show, TestEnd, NextRecord, TestMore, StepTail, vars, putVars, seenVars, printVars,
           IInv, Base, TypeOK
  <2>2. Counts /\ Content /\ Base
    BY <2>1 DEF IInv, InOrder
  <2>3. Consumed = seen /\ seen \in Nat /\ put \in Nat /\ seen <= put
    BY <2>1, <2>2, TailMeetsHead DEF Base, TypeOK
  <2> QED
    BY <2>1, <2>2, <2>3 DEF TestMore, Content
<1> QED
  BY <1>1, Inductive, PTL DEF Spec, SlipsOnlyMidMessage
=============================================================================
