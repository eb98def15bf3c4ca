-------------------------- MODULE SharedMemProofs ---------------------------
(***************************************************************************)
(* Theorems about libsvc/sharedmem.c for every number of slots, readers    *)
(* and words, every point at which the index wraps and any number of       *)
(* writes and re-initialisations: what readers see while stores become     *)
(* visible in order (~swapped), and what an index that becomes visible     *)
(* before its copy can spoil.                                              *)
(***************************************************************************)
EXTENDS SharedMem, NatLemmas

(* The slot that version v of the present initialisation goes to.          *)
SlotOf(v) == Slot(StartIdx + (v - base))

(* The header counts the versions published since the initialisation.      *)
HeaderInv ==
  /\ base <= version
  /\ index = Wrap(StartIdx + (version - base))

(* A reader in mid-read points to the slot of the version it asked for.    *)
PointerInv ==
  \A r \in busy :
    /\ seen[r] <= version
    /\ born[r] <= base
    /\ born[r] = base => (base <= seen[r] /\ ptr[r] = SlotOf(seen[r]))

(* No word is of a version not yet begun.                                  *)
Begun ==
  /\ \A s \in Slots, w \in Words : mem[s][w] <= Started
  /\ \A r \in busy, w \in Words : got[r][w] <= Started

(* What holds in whatever order stores become visible.                     *)
BaseInv == TypeOK /\ HeaderInv /\ PointerInv /\ Begun

(* While stores become visible in order: each slot holds its version until *)
(* the writer comes round to it, and never anything older.                 *)
RingInv ==
  /\ wpc = "idle" => todo = {}
  /\ \A v \in Nat : (base < v /\ v <= version) =>
        \A w \in Words :
          /\ v <= mem[SlotOf(v)][w]
          /\ Started < v + Copies => mem[SlotOf(v)][w] = v
  /\ \A w \in Words \ todo :
        wpc = "copy" => mem[SlotOf(version + 1)][w] = version + 1

IInv == RingInv /\ Whole /\ NotStale

(* What a slot holds before version v is copied into it: the version one   *)
(* round older, or what was there when the segment was initialised.        *)
RoundBefore(v, x) == x + Copies = v \/ (v <= base + Copies /\ x <= base)

(* In whatever order stores become visible: a slot the writer has not come *)
(* round to holds its version, but for the words of the newest that are    *)
(* still on their way, and a slot not used since the initialisation holds  *)
(* nothing newer than that.                                                *)
LapInv ==
  /\ todo # {} => base < Started
  /\ \A v \in Nat : (base < v /\ v <= Started /\ Started < v + Copies) =>
        \A w \in Words : IF v = Started /\ w \in todo
                         THEN RoundBefore(v, mem[SlotOf(v)][w])
                         ELSE mem[SlotOf(v)][w] = v
  /\ \A v \in Nat : (Started < v /\ v <= base + Copies) =>
        \A w \in Words : mem[SlotOf(v)][w] <= base
  /\ OneLapTear

-----------------------------------------------------------------------------
LEMMA RingSize == Copies \in Nat \ {0} /\ Laps * Copies \in Nat \ {0}
<1>1. Copies \in Nat \ {0}
  BY CopiesAssumption
<1> QED
  BY <1>1, LapsAssumption, ModMod

(* The slot of a counter does not depend on where the index wraps.         *)
LEMMA SlotOfWrap ==
  ASSUME NEW x \in Nat
  PROVE  /\ Wrap(x) \in 0 .. (Laps * Copies - 1)
         /\ Slot(Wrap(x)) = Slot(x)
         /\ Slot(x) \in Slots
<1>1. Wrap(x) \in 0 .. (Laps * Copies - 1)
  BY RingSize, DivMod DEF Wrap
<1>2. Slot(Wrap(x)) = Slot(x)
  <2>1. (x % (Laps * Copies)) % Copies = x % Copies
    BY RingSize, LapsAssumption, ModMod
  <2> QED
    BY <2>1 DEF Slot, Wrap
<1>3. Slot(x) \in Slots
  BY CopiesAssumption, DivMod DEF Slot, Slots
<1> QED
  BY <1>1, <1>2, <1>3

LEMMA WrapSucc ==
  ASSUME NEW x \in Nat
  PROVE  Wrap(Wrap(x) + 1) = Wrap(x + 1)
  BY RingSize, ModSucc DEF Wrap

(* Versions less than Copies apart are in different slots.                 *)
LEMMA SlotsApart ==
  ASSUME TypeOK, NEW v \in Nat, NEW u \in Nat, base <= v, v < u, u < v + Copies
  PROVE  SlotOf(v) # SlotOf(u)
<1> DEFINE x == StartIdx + (v - base)
           y == StartIdx + (u - base)
<1>1. x \in Nat /\ y \in Nat /\ x < y /\ y < x + Copies
  BY StartAssumption, RingSize, CopiesAssumption DEF TypeOK
<1> HIDE DEF x, y
<1>2. x % Copies # y % Copies
  BY <1>1, RingSize, ModDistinct
<1> QED
  BY <1>2 DEF x, y, SlotOf, Slot

(* Versions Copies apart are in the same slot.                             *)
LEMMA SlotRound ==
  ASSUME TypeOK, NEW v \in Nat, base <= v
  PROVE  SlotOf(v + Copies) = SlotOf(v)
<1> DEFINE x == StartIdx + (v - base)
<1>1. x \in Nat /\ x + Copies = StartIdx + ((v + Copies) - base)
  BY StartAssumption, RingSize DEF TypeOK
<1>2. SlotOf(v) = Slot(x) /\ SlotOf(v + Copies) = Slot(x + Copies)
  BY <1>1 DEF SlotOf
<1> HIDE DEF x
<1>3. (x + Copies) % Copies = x % Copies
  BY <1>1, RingSize, ModRound
<1> QED
  BY <1>2, <1>3 DEF Slot

LEMMA SlotOfType ==
  ASSUME TypeOK, NEW v \in Nat, base <= v
  PROVE  SlotOf(v) \in Slots
<1>1. StartIdx + (v - base) \in Nat
  BY StartAssumption, RingSize DEF TypeOK
<1> QED
  BY <1>1, SlotOfWrap DEF SlotOf

(* Where the header sends readers and the writer.                          *)
LEMMA HeaderSlots ==
  ASSUME TypeOK, HeaderInv
  PROVE  /\ Slot(index) = SlotOf(version)
         /\ Wrap(index + 1) = Wrap(StartIdx + ((version + 1) - base))
         /\ Slot(Wrap(index + 1)) = SlotOf(version + 1)
<1> DEFINE x == StartIdx + (version - base)
<1>1. x \in Nat /\ x + 1 \in Nat /\ x + 1 = StartIdx + ((version + 1) - base)
  BY StartAssumption, RingSize DEF TypeOK, HeaderInv
<1>2. index = Wrap(x)
  BY DEF HeaderInv
<1> HIDE DEF x
<1>3. Slot(index) = Slot(x)
  BY <1>1, <1>2, SlotOfWrap
<1>4. Wrap(index + 1) = Wrap(x + 1)
  BY <1>1, <1>2, WrapSucc
<1>5. Slot(Wrap(index + 1)) = Slot(x + 1)
  BY <1>1, <1>4, SlotOfWrap
<1>6. SlotOf(version) = Slot(x)
  BY DEF SlotOf, x
<1>7. SlotOf(version + 1) = Slot(x + 1)
  BY <1>1 DEF SlotOf
<1> QED
  BY <1>1, <1>3, <1>4, <1>5, <1>6, <1>7

-----------------------------------------------------------------------------
LEMMA TypeInit == Init => TypeOK
<1> SUFFICES ASSUME Init PROVE TypeOK
  OBVIOUS
<1>1. 0 \in Slots
  BY CopiesAssumption DEF Slots
<1>2. swapped \in BOOLEAN /\ wpc \in {"idle", "copy"}
  BY DEF Init
<1>3. todo \in SUBSET Words /\ busy \in SUBSET Readers
  BY DEF Init
<1>4. index \in 0 .. (Laps * Copies - 1)
  BY StartAssumption DEF Init
<1>5. /\ mem \in [Slots -> [Words -> Nat]]
      /\ ptr \in [Readers -> Slots]
      /\ got \in [Readers -> [Words -> Nat \cup {NotRead}]]
      /\ view \in [Readers -> [Words -> Nat]]
  BY <1>1 DEF Init, Blank, NotRead
<1>6. /\ version \in Nat /\ base \in Nat /\ inits \in Nat
      /\ seen \in [Readers -> Nat] /\ born \in [Readers -> Nat]
  BY DEF Init
<1> QED
  BY <1>2, <1>3, <1>4, <1>5, <1>6, Zenon DEF TypeOK

LEMMA TypeStep == TypeOK /\ [Next]_vars => TypeOK'
<1> SUFFICES ASSUME TypeOK, [Next]_vars PROVE TypeOK'
  OBVIOUS
<1> USE DEF TypeOK, memVars, readVars
<1>0. index \in Nat /\ index + 1 \in Nat
  BY RingSize
<1>1. CASE MapInit
  BY <1>1, StartAssumption DEF MapInit, Started
<1>2. CASE WriteBegin
  BY <1>2 DEF WriteBegin
<1>3. ASSUME NEW w \in Words, StoreWord(w) PROVE TypeOK'
  <2>1. Target \in Slots /\ Started \in Nat
    BY <1>0, RingSize, SlotOfWrap DEF Target, Started
  <2> QED
    BY <1>3, <2>1 DEF StoreWord
<1>4. CASE Publish
  <2>1. index' \in 0 .. (Laps * Copies - 1)
    BY <1>0, <1>4, SlotOfWrap DEF Publish
  <2> QED
    BY <1>4, <2>1 DEF Publish
<1>5. ASSUME NEW r \in Readers, MapRead(r) PROVE TypeOK'
  <2>1. Slot(index) \in Slots
    BY <1>0, SlotOfWrap
  <2> QED
    BY <1>5, <2>1 DEF MapRead, Blank, NotRead
<1>6. ASSUME NEW r \in Readers, NEW w \in Words, LoadWord(r, w) PROVE TypeOK'
  BY <1>6 DEF LoadWord
<1>7. ASSUME NEW r \in Readers, ReadDone(r) PROVE TypeOK'
  <2>1. \A w \in Words : got[r][w] \in Nat
    BY <1>7 DEF ReadDone
  <2>2. got[r] \in [Words -> Nat]
    BY <2>1
  <2> QED
    BY <1>7, <2>2 DEF ReadDone
<1>8. CASE UNCHANGED vars
  BY <1>8 DEF vars
<1> QED
  BY <1>1, <1>2, <1>3, <1>4, <1>5, <1>6, <1>7, <1>8 DEF Next, Write, Read

(* Type correctness, with or without ordered stores.                       *)
THEOREM TypeCorrect == Spec => []TypeOK
  BY TypeInit, TypeStep, PTL DEF Spec

-----------------------------------------------------------------------------
(* Steps that leave the header alone leave every version its slot.         *)
LEMMA SlotsStay ==
  ASSUME UNCHANGED base
  PROVE  \A v : SlotOf(v)' = SlotOf(v)
  BY DEF SlotOf, Slot

LEMMA StartWrapped == Wrap(StartIdx) = StartIdx
<1>1. StartIdx = (Laps * Copies) * 0 + StartIdx
  BY RingSize, StartAssumption
<1> QED
  BY <1>1, RingSize, StartAssumption, RemainderUnique DEF Wrap

LEMMA BaseInit == Init => BaseInv
<1> SUFFICES ASSUME Init PROVE BaseInv
  OBVIOUS
<1>1. TypeOK
  BY TypeInit
<1>2. StartIdx + (version - base) = StartIdx
  BY RingSize, StartAssumption DEF Init
<1>3. HeaderInv
  BY <1>2, StartWrapped DEF Init, HeaderInv
<1>4. PointerInv /\ Begun
  BY DEF Init, PointerInv, Begun, Started
<1> QED
  BY <1>1, <1>3, <1>4 DEF BaseInv

LEMMA BaseStep ==
  ASSUME BaseInv, [Next]_vars
  PROVE  BaseInv'
<1> TypeOK /\ TypeOK' /\ HeaderInv /\ PointerInv /\ Begun
  BY TypeStep DEF BaseInv
<1> USE DEF memVars, readVars
<1>0. Started \in Nat /\ version <= Started /\ base <= version
  BY DEF Started, TypeOK, HeaderInv
<1>1. CASE MapInit
  <2>1. /\ Started' = Started /\ version' = Started /\ base' = Started
        /\ index' = StartIdx /\ busy' \subseteq busy
        /\ UNCHANGED <<mem, ptr, got, seen, born>>
    BY <1>1 DEF MapInit, Started
  <2>2. StartIdx + (version' - base') = StartIdx
    BY <1>0, <2>1, RingSize, StartAssumption
  <2>3. HeaderInv'
    BY <1>0, <2>1, <2>2, StartWrapped DEF HeaderInv, Wrap
  <2>4. ASSUME NEW r \in busy'
        PROVE  /\ seen[r] <= Started /\ born[r] <= Started
               /\ born[r] = Started => /\ Started <= seen[r]
                                       /\ ptr[r] = SlotOf(seen[r])'
    <3>1. /\ seen[r] <= version /\ born[r] <= base
          /\ born[r] = base => (base <= seen[r] /\ ptr[r] = SlotOf(seen[r]))
      BY <2>1 DEF PointerInv
    <3>2. seen[r] \in Nat /\ born[r] \in Nat /\ version \in Nat /\ base \in Nat
      BY <2>1 DEF TypeOK
    <3>3. born[r] = Started => base' = base
      BY <1>0, <2>1, <3>1, <3>2
    <3>4. born[r] = Started => SlotOf(seen[r])' = SlotOf(seen[r])
      BY <2>1, <3>3 DEF SlotOf, Slot
    <3> QED
      BY <1>0, <2>1, <3>1, <3>2, <3>3, <3>4
  <2>5. PointerInv'
    BY <2>1, <2>4 DEF PointerInv
  <2> QED
    BY <2>1, <2>3, <2>5 DEF BaseInv, Begun
<1>2. CASE WriteBegin
  <2>1. Started' = Started + 1 /\ \A v : SlotOf(v)' = SlotOf(v)
    BY <1>2, SlotsStay DEF WriteBegin, Started
  <2>2. /\ \A r \in busy, w \in Words : got[r][w] \in Int
        /\ \A s \in Slots, w \in Words : mem[s][w] \in Int
    BY DEF TypeOK, NotRead
  <2>3. Begun'
    BY <1>0, <1>2, <2>1, <2>2 DEF WriteBegin, Begun
  <2> QED
    BY <1>2, <2>1, <2>3 DEF WriteBegin, BaseInv, HeaderInv, PointerInv, Wrap
<1>3. ASSUME NEW w \in Words, StoreWord(w) PROVE BaseInv'
  <2>1. Started' = Started /\ \A v : SlotOf(v)' = SlotOf(v)
    BY <1>3, SlotsStay DEF StoreWord, Started
  <2>2. \A s \in Slots, x \in Words : mem'[s][x] \in {mem[s][x], Started}
    BY <1>3 DEF StoreWord, TypeOK
  <2>3. \A s \in Slots, x \in Words : mem'[s][x] <= Started
    BY <1>0, <2>2 DEF Begun
  <2> QED
    BY <1>3, <2>1, <2>3 DEF StoreWord, BaseInv, Begun, HeaderInv, PointerInv, Wrap
<1>4. CASE Publish
  <2>1. Started' = Started /\ \A v : SlotOf(v)' = SlotOf(v)
    BY <1>4, SlotsStay DEF Publish, Started
  <2>2. HeaderInv'
    BY <1>4, HeaderSlots DEF Publish, HeaderInv, TypeOK, Wrap
  <2>3. PointerInv'
    BY <1>4, <2>1 DEF Publish, PointerInv, TypeOK
  <2> QED
    BY <1>4, <2>1, <2>2, <2>3 DEF Publish, BaseInv, Begun
<1>5. ASSUME NEW r \in Readers, MapRead(r) PROVE BaseInv'
  <2>1. Started' = Started /\ \A v : SlotOf(v)' = SlotOf(v)
    BY <1>5, SlotsStay DEF MapRead, Started
  <2>2. \A q \in busy' : q # r => /\ q \in busy /\ got'[q] = got[q] /\ seen'[q] = seen[q]
                                 /\ born'[q] = born[q] /\ ptr'[q] = ptr[q]
    BY <1>5 DEF MapRead, TypeOK
  <2>3. /\ seen'[r] = version /\ born'[r] = base /\ ptr'[r] = SlotOf(version)
        /\ \A w \in Words : got'[r][w] = NotRead
    BY <1>5, HeaderSlots DEF MapRead, TypeOK, Blank
  <2>4. Begun'
    BY <1>0, <1>5, <2>1, <2>2, <2>3 DEF MapRead, Begun, NotRead
  <2>5. PointerInv'
    <3> SUFFICES ASSUME NEW q \in busy'
                 PROVE  /\ seen'[q] <= version' /\ born'[q] <= base'
                        /\ born'[q] = base' => (base' <= seen'[q] /\ ptr'[q] = SlotOf(seen[q])')
      BY DEF PointerInv
    <3>1. /\ version' = version /\ base' = base /\ version \in Nat /\ base \in Nat
          /\ SlotOf(seen[q])' = SlotOf(seen'[q])
      BY <1>5 DEF MapRead, TypeOK, SlotOf, Slot
    <3>2. CASE q = r
      BY <1>0, <2>1, <2>3, <3>1, <3>2
    <3>3. CASE q # r
      BY <2>1, <2>2, <3>1, <3>3 DEF PointerInv
    <3> QED
      BY <3>2, <3>3
  <2> QED
    BY <1>5, <2>4, <2>5 DEF MapRead, BaseInv, HeaderInv, Wrap
<1>6. ASSUME NEW r \in Readers, NEW w \in Words, LoadWord(r, w) PROVE BaseInv'
  <2>1. Started' = Started /\ \A v : SlotOf(v)' = SlotOf(v)
    BY <1>6, SlotsStay DEF LoadWord, Started
  <2>2. \A q \in busy, x \in Words : got'[q][x] \in {got[q][x], mem[ptr[r]][w]}
    BY <1>6 DEF LoadWord, TypeOK
  <2>3. mem[ptr[r]][w] <= Started
    BY DEF Begun, TypeOK
  <2>4. Begun'
    BY <1>6, <2>1, <2>2, <2>3 DEF LoadWord, Begun
  <2> QED
    BY <1>6, <2>1, <2>4 DEF LoadWord, BaseInv, HeaderInv, PointerInv, Wrap
<1>7. ASSUME UNCHANGED <<memVars, ptr, got, seen, born>>, busy' \subseteq busy PROVE BaseInv'
  <2>1. Started' = Started /\ \A v : SlotOf(v)' = SlotOf(v)
    BY <1>7, SlotsStay DEF Started
  <2> QED
    BY <1>7, <2>1 DEF BaseInv, HeaderInv, PointerInv, Begun, Wrap
<1>8. ASSUME NEW r \in Readers, ReadDone(r) PROVE BaseInv'
  BY <1>7, <1>8 DEF ReadDone
<1>9. CASE UNCHANGED vars
  BY <1>7, <1>9 DEF vars
<1> QED
  BY <1>1, <1>2, <1>3, <1>4, <1>5, <1>6, <1>8, <1>9 DEF Next, Write, Read

-----------------------------------------------------------------------------
LEMMA IInvInit == Init => IInv
  BY DEF Init, IInv, RingInv, Whole, NotStale, Started

(* The writer's steps keep the invariant.                                  *)
LEMMA IInvWriteBegin ==
  ASSUME BaseInv, IInv, WriteBegin
  PROVE  IInv'
<1> USE DEF BaseInv, IInv, WriteBegin, memVars, readVars
<1>1. Started = version /\ Started' = version + 1
  BY DEF Started
<1>2. RingInv'
  BY <1>1, SlotsStay, CopiesAssumption DEF RingInv, TypeOK
<1>3. Whole'
  <2>1. /\ version \in Nat /\ seen \in [Readers -> Nat] /\ busy \in SUBSET Readers
        /\ UNCHANGED <<base, seen, born, got, busy>>
    BY DEF TypeOK
  <2>2. \A r \in busy : Safe(r)' => Safe(r)
    BY ONLY <1>1, <2>1, CopiesAssumption DEF Safe, Current
  <2> QED
    BY <2>1, <2>2 DEF Whole
<1>4. NotStale'
  BY <1>1 DEF NotStale, Current, TypeOK
<1> QED
  BY <1>2, <1>3, <1>4

LEMMA IInvStoreWord ==
  ASSUME BaseInv, IInv, NEW w \in Words, StoreWord(w)
  PROVE  IInv'
<1> USE DEF BaseInv, IInv, StoreWord, readVars
<1>1. wpc = "copy" /\ Started = version + 1 /\ Started' = version + 1
  BY DEF RingInv, TypeOK, Started
<1>2. /\ Target = SlotOf(version + 1)
      /\ Target \in Slots
      /\ mem' = [mem EXCEPT ![Target][w] = version + 1]
  <2>1. version + 1 \in Nat /\ base <= version + 1
    BY DEF TypeOK, HeaderInv
  <2> QED
    BY <1>1, <2>1, HeaderSlots, SlotOfType DEF Target
<1>3. RingInv'
  <2>1. \A v : SlotOf(v)' = SlotOf(v)
    BY SlotsStay
  <2>2. \A s \in Slots, x \in Words :
           mem'[s][x] = IF s = Target /\ x = w THEN version + 1 ELSE mem[s][x]
    BY <1>2 DEF TypeOK
  <2>4. ASSUME NEW v \in Nat, base < v, v <= version, NEW x \in Words
        PROVE  /\ v <= mem'[SlotOf(v)][x]
               /\ Started' < v + Copies => mem'[SlotOf(v)][x] = v
    <3>1. SlotOf(v) \in Slots
      BY <2>4, SlotOfType DEF TypeOK
    <3>2. Started' < v + Copies => SlotOf(v) # Target
      <4> SUFFICES ASSUME Started' < v + Copies PROVE SlotOf(v) # Target
        OBVIOUS
      <4>1. version + 1 \in Nat /\ base <= v /\ v < version + 1 /\ version + 1 < v + Copies
        BY <1>1, <2>4 DEF TypeOK
      <4> QED
        BY <4>1, <1>2, SlotsApart
    <3>3. /\ v <= mem[SlotOf(v)][x]
          /\ Started < v + Copies => mem[SlotOf(v)][x] = v
      BY <2>4 DEF RingInv
    <3> QED
      BY <1>1, <2>2, <2>4, <3>1, <3>2, <3>3 DEF TypeOK
  <2>5. ASSUME NEW x \in Words \ todo'
        PROVE  mem'[SlotOf(version + 1)][x] = version + 1
    BY <1>1, <1>2, <2>2 DEF RingInv
  <2> QED
    BY <1>1, <2>1, <2>4, <2>5 DEF RingInv
<1>4. Whole' /\ NotStale'
  BY <1>1 DEF Whole, NotStale, Safe, Current
<1> QED
  BY <1>3, <1>4

LEMMA IInvPublish ==
  ASSUME BaseInv, IInv, Publish, ~swapped'
  PROVE  IInv'
<1> USE DEF BaseInv, IInv, Publish, readVars
<1>0. todo = {}
  OBVIOUS
<1>1. Started = version + 1 /\ Started' = version + 1
  BY DEF Started
<1>2. RingInv'
  <2>1. \A v : SlotOf(v)' = SlotOf(v)
    BY SlotsStay
  <2>2. \A x \in Words : mem[SlotOf(version + 1)][x] = version + 1
    BY <1>0 DEF RingInv
  <2>3. ASSUME NEW v \in Nat, base < v, v <= version + 1, NEW x \in Words
        PROVE  /\ v <= mem[SlotOf(v)][x]
               /\ Started' < v + Copies => mem[SlotOf(v)][x] = v
    <3>1. CASE v = version + 1
      BY <2>2, <3>1
    <3>2. CASE v <= version
      BY <1>1, <2>3, <3>2 DEF RingInv
    <3> QED
      BY <2>3, <3>1, <3>2 DEF TypeOK
  <2> QED
    BY <1>0, <2>1, <2>3 DEF RingInv
<1>3. Whole' /\ NotStale'
  BY <1>1 DEF Whole, NotStale, Safe, Current
<1> QED
  BY <1>2, <1>3

LEMMA IInvMapInit ==
  ASSUME BaseInv, IInv, MapInit
  PROVE  IInv'
<1> USE DEF BaseInv, IInv, MapInit
<1>1. /\ Started' = Started /\ version' = Started /\ base' = Started
      /\ version <= Started /\ Started \in Nat
  BY DEF Started, TypeOK
<1>2. RingInv'
  BY <1>1 DEF RingInv
<1>3. \A r \in busy' : ~Current(r)'
  BY <1>1 DEF Current, PointerInv, TypeOK
<1> QED
  BY <1>2, <1>3 DEF Whole, NotStale, Safe

(* The readers' steps keep the invariant.                                  *)
LEMMA IInvMapRead ==
  ASSUME BaseInv, IInv, NEW r \in Readers, MapRead(r)
  PROVE  IInv'
<1> USE DEF BaseInv, IInv, MapRead, memVars
<1>1. Started' = Started /\ \A v : SlotOf(v)' = SlotOf(v)
  BY SlotsStay DEF Started
<1>2. RingInv'
  BY <1>1 DEF RingInv
<1>3. \A w \in Words : got'[r][w] = NotRead
  BY DEF TypeOK, Blank
<1>4. \A q \in busy' : q # r => /\ q \in busy /\ got'[q] = got[q]
                               /\ seen'[q] = seen[q] /\ born'[q] = born[q]
  BY DEF TypeOK
<1>5. Whole'
  BY <1>1, <1>3, <1>4 DEF Whole, Safe, Current
<1>6. NotStale'
  BY <1>1, <1>3, <1>4 DEF NotStale, Current
<1> QED
  BY <1>2, <1>5, <1>6

LEMMA IInvLoadWord ==
  ASSUME BaseInv, IInv, NEW r \in Readers, NEW w \in Words, LoadWord(r, w)
  PROVE  IInv'
<1> USE DEF BaseInv, IInv, LoadWord, memVars
<1>1. Started' = Started /\ \A v : SlotOf(v)' = SlotOf(v)
  BY SlotsStay DEF Started
<1>2. RingInv'
  BY <1>1 DEF RingInv
<1>3. \A q \in Readers, x \in Words :
         got'[q][x] = IF q = r /\ x = w THEN mem[ptr[r]][w] ELSE got[q][x]
  BY DEF TypeOK
<1>4. /\ mem[ptr[r]][w] \in Nat
      /\ mem[ptr[r]][w] <= Started
  BY DEF Begun, TypeOK
<1>5. Current(r) => /\ seen[r] <= mem[ptr[r]][w]
                    /\ Safe(r) => mem[ptr[r]][w] = seen[r]
  <2> SUFFICES ASSUME Current(r)
               PROVE  /\ seen[r] <= mem[ptr[r]][w]
                      /\ Safe(r) => mem[ptr[r]][w] = seen[r]
    OBVIOUS
  <2>1. /\ base < seen[r] /\ seen[r] <= version /\ seen[r] \in Nat
        /\ ptr[r] = SlotOf(seen[r])
    BY DEF Current, PointerInv, TypeOK
  <2> QED
    BY <2>1 DEF RingInv, Safe
<1>6. \A q \in Readers : Current(q)' = Current(q) /\ Safe(q)' = Safe(q)
  BY <1>1 DEF Current, Safe
<1>7. Whole'
  <2> SUFFICES ASSUME NEW q \in busy, Safe(q), NEW x \in Words
               PROVE  got'[q][x] \in {NotRead, seen[q]}
    BY <1>6 DEF Whole, TypeOK
  <2>1. q \in Readers /\ Current(q)
    BY DEF Safe, TypeOK
  <2>2. got[q][x] \in {NotRead, seen[q]}
    BY DEF Whole
  <2> QED
    BY <1>3, <1>5, <2>1, <2>2
<1>8. NotStale'
  BY <1>1, <1>3, <1>4, <1>5, <1>6 DEF NotStale, TypeOK, Started
<1> QED
  BY <1>2, <1>7, <1>8

LEMMA IInvQuiet ==
  ASSUME BaseInv, IInv, UNCHANGED <<memVars, ptr, got, seen, born>>, busy' \subseteq busy
  PROVE  IInv'
<1> USE DEF BaseInv, IInv, memVars
<1>1. Started' = Started /\ \A v : SlotOf(v)' = SlotOf(v)
  BY SlotsStay DEF Started
<1>2. RingInv'
  BY <1>1 DEF RingInv
<1>3. Whole' /\ NotStale'
  BY <1>1 DEF Whole, NotStale, Safe, Current
<1> QED
  BY <1>2, <1>3

LEMMA IInvStep ==
  ASSUME BaseInv, IInv, [Next]_vars, ~swapped'
  PROVE  IInv'
<1> BaseInv'
  BY BaseStep
<1>1. CASE MapInit
  BY <1>1, IInvMapInit
<1>2. CASE WriteBegin
  BY <1>2, IInvWriteBegin
<1>3. ASSUME NEW w \in Words, StoreWord(w) PROVE IInv'
  BY <1>3, IInvStoreWord
<1>4. CASE Publish
  BY <1>4, IInvPublish
<1>5. ASSUME NEW r \in Readers, MapRead(r) PROVE IInv'
  BY <1>5, IInvMapRead
<1>6. ASSUME NEW r \in Readers, NEW w \in Words, LoadWord(r, w) PROVE IInv'
  BY <1>6, IInvLoadWord
<1>7. ASSUME NEW r \in Readers, ReadDone(r) PROVE IInv'
  <2>1. UNCHANGED <<memVars, ptr, got, seen, born>> /\ busy' \subseteq busy
    BY <1>7 DEF ReadDone
  <2> QED
    BY <2>1, IInvQuiet
<1>8. CASE UNCHANGED vars
  <2>1. UNCHANGED <<memVars, ptr, got, seen, born>> /\ busy' \subseteq busy
    BY <1>8 DEF vars, readVars
  <2> QED
    BY <2>1, IInvQuiet
<1> QED
  BY <1>1, <1>2, <1>3, <1>4, <1>5, <1>6, <1>7, <1>8 DEF Next, Write, Read

(* An index that has overtaken its copy is never forgotten.                *)
LEMMA SwappedStays ==
  ASSUME TypeOK, [Next]_vars, swapped
  PROVE  swapped'
<1> USE DEF memVars, readVars
<1>1. CASE MapInit
  BY <1>1 DEF MapInit
<1>2. CASE Write
  BY <1>2 DEF Write, WriteBegin, StoreWord, Publish
<1>3. ASSUME NEW r \in Readers, Read(r) PROVE swapped'
  BY <1>3 DEF Read, MapRead, LoadWord, ReadDone
<1>4. CASE UNCHANGED vars
  BY <1>4 DEF vars
<1> QED
  BY <1>1, <1>2, <1>3, <1>4 DEF Next

-----------------------------------------------------------------------------
(* Stores in any order.                                                    *)
LEMMA LapInit == Init => LapInv
<1> SUFFICES ASSUME Init PROVE LapInv
  OBVIOUS
<1>1. Started = 0 /\ base = 0 /\ todo = {} /\ busy = {} /\ TypeOK
  BY TypeInit DEF Init, Started
<1>2. \A v \in Nat, w \in Words : mem[SlotOf(v)][w] = 0
  BY <1>1, SlotOfType DEF Init
<1> QED
  BY <1>1, <1>2 DEF LapInv, OneLapTear

(* The slot the writer turns to holds the version one round older, or was  *)
(* not used since the initialisation.                                      *)
LEMMA LapWriteBegin ==
  ASSUME BaseInv, LapInv, WriteBegin
  PROVE  LapInv'
<1> USE DEF WriteBegin, memVars, readVars
<1> DEFINE new == version + 1
<1>0. /\ TypeOK /\ version \in Nat /\ base \in Nat /\ base <= version /\ new \in Nat
      /\ Copies \in Nat /\ Copies > 1
  BY CopiesAssumption DEF BaseInv, TypeOK, HeaderInv
<1>1. /\ Started = version /\ Started' = version + 1 /\ base' = base /\ mem' = mem
      /\ todo = {} /\ todo' = Words
      /\ \A v : SlotOf(v)' = SlotOf(v)
  BY SlotsStay DEF Started
<1>2. ASSUME NEW w \in Words PROVE RoundBefore(new, mem[SlotOf(new)][w])
  <2>1. CASE new <= base + Copies
    BY <1>0, <1>1, <2>1 DEF LapInv, RoundBefore
  <2>2. CASE ~(new <= base + Copies)
    <3> DEFINE old == new - Copies
    <3>1. /\ old \in Nat /\ base < old /\ old <= version /\ version < old + Copies
          /\ old + Copies = new
      BY <1>0, <2>2
    <3>2. SlotOf(new) = SlotOf(old)
      BY <1>0, <3>1, SlotRound
    <3>3. mem[SlotOf(old)][w] = old
      BY <1>1, <3>1 DEF LapInv
    <3> QED
      BY <3>1, <3>2, <3>3 DEF RoundBefore
  <2> QED
    BY <2>1, <2>2
<1>3. ASSUME NEW v \in Nat, base < v, v <= new, new < v + Copies, NEW w \in Words
      PROVE  IF v = new /\ w \in Words THEN RoundBefore(v, mem[SlotOf(v)][w])
                                       ELSE mem[SlotOf(v)][w] = v
  <2>1. v # new => v <= version /\ version < v + Copies
    BY <1>0, <1>3
  <2> QED
    BY <1>1, <1>2, <1>3, <2>1 DEF LapInv
<1>4. ASSUME NEW v \in Nat, new < v, v <= base + Copies, NEW w \in Words
      PROVE  mem[SlotOf(v)][w] <= base
  <2>1. version < v
    BY <1>0, <1>4
  <2> QED
    BY <1>1, <1>4, <2>1 DEF LapInv
<1>5. OneLapTear'
  <2>1. \A r \in busy : seen[r] \in Nat
    BY DEF BaseInv, TypeOK
  <2>2. \A r \in busy : Safe(r)' => Safe(r)
    BY <1>0, <1>1, <2>1 DEF Safe, Current
  <2> QED
    BY <1>1, <2>2 DEF LapInv, OneLapTear
<1> QED
  BY <1>0, <1>1, <1>3, <1>4, <1>5 DEF LapInv, RoundBefore

LEMMA LapStoreWord ==
  ASSUME BaseInv, LapInv, NEW w \in Words, StoreWord(w)
  PROVE  LapInv'
<1> USE DEF StoreWord, memVars, readVars
<1>0. /\ TypeOK /\ HeaderInv /\ version \in Nat /\ base \in Nat /\ base <= version
      /\ Started \in Nat /\ Copies \in Nat
  BY CopiesAssumption DEF BaseInv, TypeOK, HeaderInv, Started
<1>1. /\ Started' = Started /\ base' = base /\ todo' = todo \ {w} /\ base < Started
      /\ \A v : SlotOf(v)' = SlotOf(v)
  BY SlotsStay DEF Started, LapInv
<1>2. Target = SlotOf(Started) /\ Target \in Slots
  BY <1>0, <1>1, HeaderSlots, SlotOfType DEF Target, Started
<1>3. \A s \in Slots, x \in Words :
         mem'[s][x] = IF s = Target /\ x = w THEN Started ELSE mem[s][x]
  BY <1>0, <1>2 DEF TypeOK
<1>4. ASSUME NEW v \in Nat, base < v, v <= Started, Started < v + Copies, NEW x \in Words
      PROVE  IF v = Started /\ x \in todo' THEN RoundBefore(v, mem'[SlotOf(v)][x])
                                           ELSE mem'[SlotOf(v)][x] = v
  <2>1. SlotOf(v) \in Slots
    BY <1>0, <1>4, SlotOfType
  <2>2. v # Started => SlotOf(v) # Target
    BY <1>0, <1>2, <1>4, SlotsApart
  <2>3. IF v = Started /\ x \in todo THEN RoundBefore(v, mem[SlotOf(v)][x])
                                     ELSE mem[SlotOf(v)][x] = v
    BY <1>4 DEF LapInv
  <2> QED
    BY <1>1, <1>2, <1>3, <2>1, <2>2, <2>3
<1>5. ASSUME NEW v \in Nat, Started < v, v <= base + Copies, NEW x \in Words
      PROVE  mem'[SlotOf(v)][x] <= base
  <2>1. SlotOf(v) \in Slots
    BY <1>0, <1>1, <1>5, SlotOfType
  <2>2. SlotOf(v) # Target
    <3>1. base <= Started /\ v < Started + Copies
      BY <1>0, <1>1, <1>5
    <3> QED
      BY <1>0, <1>2, <1>5, <3>1, SlotsApart
  <2> QED
    BY <1>3, <1>5, <2>1, <2>2 DEF LapInv
<1>6. OneLapTear'
  BY <1>1 DEF LapInv, OneLapTear, Safe, Current
<1> QED
  BY <1>1, <1>4, <1>5, <1>6 DEF LapInv, RoundBefore

(* A reader loads what LapInv says of the slot.                            *)
LEMMA LapLoadWord ==
  ASSUME BaseInv, LapInv, NEW r \in Readers, NEW w \in Words, LoadWord(r, w)
  PROVE  LapInv'
<1> USE DEF LoadWord, memVars
<1>1. /\ Started' = Started /\ UNCHANGED <<base, mem, todo, busy, seen, born>>
      /\ \A v : SlotOf(v)' = SlotOf(v)
  BY SlotsStay DEF Started
<1>2. \A q \in Readers, x \in Words :
         got'[q][x] = IF q = r /\ x = w THEN mem[ptr[r]][w] ELSE got[q][x]
  BY DEF BaseInv, TypeOK
<1>3. Safe(r) => LET x == mem[ptr[r]][w]
                 IN  x = seen[r] \/ RoundBefore(seen[r], x)
  <2> SUFFICES ASSUME Safe(r)
               PROVE  LET x == mem[ptr[r]][w] IN x = seen[r] \/ RoundBefore(seen[r], x)
    OBVIOUS
  <2>1. /\ base < seen[r] /\ seen[r] <= version /\ seen[r] \in Nat /\ version \in Nat
        /\ ptr[r] = SlotOf(seen[r]) /\ Started < seen[r] + Copies
    BY DEF Safe, Current, BaseInv, PointerInv, TypeOK
  <2>2. seen[r] <= Started
    BY <2>1 DEF Started
  <2> QED
    BY <2>1, <2>2 DEF LapInv
<1>4. \A q \in busy : Safe(q)' = Safe(q)
  BY <1>1 DEF Safe, Current
<1>5. OneLapTear'
  <2> SUFFICES ASSUME NEW q \in busy, Safe(q), NEW x \in Words
               PROVE  got'[q][x] \in {NotRead, seen[q]} \/ RoundBefore(seen[q], got'[q][x])
    BY <1>1, <1>4 DEF OneLapTear, RoundBefore
  <2>1. got[q][x] \in {NotRead, seen[q]} \/ RoundBefore(seen[q], got[q][x])
    BY DEF LapInv, OneLapTear, RoundBefore
  <2> QED
    BY <1>2, <1>3, <2>1 DEF BaseInv, TypeOK
<1> QED
  BY <1>1, <1>5 DEF LapInv, RoundBefore

LEMMA LapStep ==
  ASSUME BaseInv, LapInv, [Next]_vars
  PROVE  LapInv'
<1> USE DEF memVars, readVars
<1>1. CASE MapInit
  <2>1. /\ Started' = Started /\ base' = Started /\ todo' = {} /\ busy' \subseteq busy
        /\ UNCHANGED <<mem, seen, born>> /\ version <= Started /\ Started \in Nat
    BY <1>1 DEF MapInit, Started, BaseInv, TypeOK
  <2>2. \A r \in busy' : ~Current(r)'
    BY <2>1 DEF Current, BaseInv, PointerInv, TypeOK
  <2>3. \A v \in Nat : Started < v => SlotOf(v)' \in Slots
    <3> TAKE v \in Nat
    <3>1. Started < v => StartIdx + (v - base') \in Nat
      BY <2>1, StartAssumption, RingSize
    <3> QED
      BY <3>1, SlotOfWrap DEF SlotOf, Slot
  <2> QED
    BY <2>1, <2>2, <2>3 DEF LapInv, BaseInv, Begun, OneLapTear, Safe
<1>2. CASE WriteBegin
  BY <1>2, LapWriteBegin
<1>3. ASSUME NEW w \in Words, StoreWord(w) PROVE LapInv'
  BY <1>3, LapStoreWord
<1>4. ASSUME Started' = Started, UNCHANGED <<mem, todo, base, got, seen, born>>, busy' \subseteq busy
      PROVE  LapInv'
  <2>1. \A v : SlotOf(v)' = SlotOf(v)
    BY <1>4, SlotsStay
  <2> QED
    BY <1>4, <2>1 DEF LapInv, RoundBefore, OneLapTear, Safe, Current
<1>5. CASE Publish
  BY <1>4, <1>5 DEF Publish, Started
<1>6. ASSUME NEW r \in Readers, MapRead(r) PROVE LapInv'
  <2>1. /\ Started' = Started /\ UNCHANGED <<mem, todo, base>>
        /\ \A v : SlotOf(v)' = SlotOf(v)
    BY <1>6, SlotsStay DEF MapRead, Started
  <2>2. \A q \in busy' : q # r => /\ q \in busy /\ got'[q] = got[q]
                                 /\ seen'[q] = seen[q] /\ born'[q] = born[q]
    BY <1>6 DEF MapRead, BaseInv, TypeOK
  <2>3. \A w \in Words : got'[r][w] = NotRead
    BY <1>6 DEF MapRead, BaseInv, TypeOK, Blank
  <2>4. OneLapTear'
    BY <2>1, <2>2, <2>3 DEF LapInv, OneLapTear, Safe, Current
  <2> QED
    BY <2>1, <2>4 DEF LapInv, RoundBefore
<1>7. ASSUME NEW r \in Readers, NEW w \in Words, LoadWord(r, w) PROVE LapInv'
  BY <1>7, LapLoadWord
<1>8. ASSUME NEW r \in Readers, ReadDone(r) PROVE LapInv'
  BY <1>4, <1>8 DEF ReadDone, Started
<1>9. CASE UNCHANGED vars
  BY <1>4, <1>9 DEF vars, Started
<1> QED
  BY <1>1, <1>2, <1>3, <1>5, <1>6, <1>7, <1>8, <1>9 DEF Next, Write, Read

-----------------------------------------------------------------------------
LEMMA Inductive == Spec => [](BaseInv /\ LapInv /\ (~swapped => IInv))
<1>1. Init => BaseInv /\ LapInv /\ (~swapped => IInv)
  BY BaseInit, LapInit, IInvInit
<1>2. BaseInv /\ LapInv /\ (~swapped => IInv) /\ [Next]_vars
        => (BaseInv /\ LapInv /\ (~swapped => IInv))'
  <2> SUFFICES ASSUME BaseInv, LapInv, ~swapped => IInv, [Next]_vars
               PROVE  BaseInv' /\ LapInv' /\ (~swapped' => IInv')
    OBVIOUS
  <2>1. BaseInv' /\ LapInv'
    BY BaseStep, LapStep
  <2>2. swapped => swapped'
    BY SwappedStays DEF BaseInv
  <2> QED
    BY <2>1, <2>2, IInvStep
<1> QED
  BY <1>1, <1>2, PTL DEF Spec

(* A reader that the writer has not lapped loads one version, whole.       *)
THEOREM ReadersSeeOneVersion == Spec => []NoTearing
<1>1. (~swapped => IInv) => NoTearing
  BY DEF IInv, NoTearing
<1> QED
  BY <1>1, Inductive, PTL

(* Lapped or not, a reader loads nothing older than it asked for, as long  *)
(* as no index store has overtaken its copy.                               *)
THEOREM ReadersSeeNothingOlder == Spec => []NothingOlder
<1>1. (~swapped => IInv) => NothingOlder
  BY DEF IInv, NothingOlder
<1> QED
  BY <1>1, Inductive, PTL

(* With stores in any order, as on the robot's ARM: what a reader that the *)
(* writer has not lapped finds torn is of one round before.                *)
THEOREM TornByOneRound == Spec => []OneLapTear
<1>1. LapInv => OneLapTear
  BY DEF LapInv
<1> QED
  BY <1>1, Inductive, PTL

-----------------------------------------------------------------------------
(* The segment implements the abstract register of SnapshotRegister.       *)
THEOREM SegmentIsRegister == Spec => Implements
<1>1. Init => Register!Init
  BY DEF Init, Register!Init, Started
<1>2. BaseInv /\ (~swapped => IInv) /\ [Next]_vars => [Register!Next]_(Register!avars)
  <2> SUFFICES ASSUME BaseInv, ~swapped => IInv, [Next]_vars
               PROVE  Register!Next \/ UNCHANGED Register!avars
    OBVIOUS
  <2> USE DEF memVars, readVars, Register!avars
  <2>t. TypeOK /\ version \in Nat /\ swapped \in BOOLEAN
    BY DEF BaseInv, TypeOK
  <2>1. CASE MapInit
    <3>1. Register!Reset
      BY <2>1 DEF MapInit, Register!Reset, Started
    <3> QED
      BY <3>1 DEF Register!Next
  <2>2. CASE WriteBegin
    <3>1. Register!Begin
      BY <2>2 DEF WriteBegin, Register!Begin, Started
    <3> QED
      BY <3>1 DEF Register!Next
  <2>3. ASSUME NEW w \in Words, StoreWord(w) PROVE UNCHANGED Register!avars
    BY <2>3 DEF StoreWord, Started
  <2>4. CASE Publish
    <3>0. swapped' \in {swapped, TRUE}
      <4>1. swapped' = (swapped \/ todo # {})
        BY <2>4 DEF Publish
      <4> QED
        BY <2>t, <4>1, Zenon
    <3>1. Register!Commit
      BY <2>4, <2>t, <3>0 DEF Publish, Register!Commit, Started
    <3> QED
      BY <3>1 DEF Register!Next
  <2>5. ASSUME NEW r \in Readers, MapRead(r) PROVE Register!Next
    <3>1. Register!Ask(r)
      BY <2>5 DEF MapRead, Register!Ask, Started
    <3> QED
      BY <3>1 DEF Register!Next
  <2>6. ASSUME NEW r \in Readers, NEW w \in Words, LoadWord(r, w)
        PROVE  UNCHANGED Register!avars
    BY <2>6 DEF LoadWord, Started
  <2>7. ASSUME NEW r \in Readers, ReadDone(r) PROVE Register!Next
    <3>1. /\ r \in busy
          /\ view' = [view EXCEPT ![r] = got[r]]
          /\ \A w \in Words : got[r][w] # NotRead
      BY <2>7 DEF ReadDone
    <3>2. got[r] \in [Words -> 0 .. Started]
      BY <3>1, <2>t DEF BaseInv, Begun, TypeOK, Started
    <3>3. (~swapped /\ Register!Current(r)) => \A w \in Words : got[r][w] >= seen[r]
      BY <3>1, <3>2, <2>t DEF IInv, NotStale, Current, Register!Current, TypeOK
    <3>4. (~swapped /\ Register!Safe(r)) => \A w \in Words : got[r][w] = seen[r]
      BY <3>1 DEF IInv, Whole, Safe, Current, Register!Safe, Register!Current
    <3>5. UNCHANGED <<version, Started, swapped, base, seen, born>> /\ busy' = busy \ {r}
      BY <2>7 DEF ReadDone, Started
    <3>6. Register!Obtain(r)
      BY <3>1, <3>2, <3>3, <3>4, <3>5 DEF Register!Obtain
    <3> QED
      BY <3>6 DEF Register!Next
  <2>8. CASE UNCHANGED vars
    BY <2>8 DEF vars, Started
  <2> QED
    BY <2>1, <2>2, <2>3, <2>4, <2>5, <2>6, <2>7, <2>8 DEF Next, Write, Read
<1> QED
  BY <1>1, <1>2, Inductive, PTL DEF Spec, Implements, Register!Spec
=============================================================================
