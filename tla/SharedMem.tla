------------------------------ MODULE SharedMem -----------------------------
(***************************************************************************)
(* libsvc/sharedmem.c: a named segment with one writer and any number of   *)
(* readers.  The header holds a uint32 index; version n of the record is   *)
(* copied into slot index % SHM_COPIES and then index is stored.  There is *)
(* no lock.  shm_map_read returns a pointer INTO the slot, so a reader     *)
(* loads the fields later, one by one, while the writer goes on.           *)
(*                                                                         *)
(* The payload is abstracted to the number of the write it comes from: a   *)
(* word of the segment holds the version that last stored it.              *)
(***************************************************************************)
EXTENDS Integers

CONSTANTS
  Readers,    (* reader processes: motion, telemetry, qgc_forward ...      *)
  Words,      (* machine words of the record, stored and loaded singly     *)
  Copies,     (* SHM_COPIES                                                *)
  Laps,       (* 2^32 \div SHM_COPIES: slots rounds until the index wraps  *)
  StartIdx,   (* SHM_START_IDX                                             *)
  WeakStores, (* TRUE: the CPU may make the index store visible before the *)
              (* copy (ARM; there is no barrier in shm_map_write)          *)
  MaxWrites,  (* bound on the writes of a behaviour                        *)
  MaxInits    (* bound on the re-initialisations of a behaviour            *)

ASSUME CopiesAssumption == Copies \in Nat /\ Copies > 1
ASSUME LapsAssumption   == Laps \in Nat \ {0}
ASSUME StartAssumption  == StartIdx \in 0 .. (Laps * Copies - 1)
ASSUME StoresAssumption == WeakStores \in BOOLEAN
ASSUME BoundAssumption  == MaxWrites \in Nat /\ MaxInits \in Nat

VARIABLES
  index,    (* hdr->index, a uint32                                        *)
  mem,      (* mem[s][w]: the version of word w in slot s                  *)
  todo,     (* words of the current memcpy not yet visible in memory       *)
  wpc,      (* the writer is in shm_map_write ("copy") or not ("idle")     *)
  ptr,      (* ptr[r]: the slot reader r got a pointer to                  *)
  got,      (* got[r][w]: what r has loaded through the pointer so far     *)
  busy,     (* readers between shm_map_read and their last field           *)
  (* History: they record what happened and guard nothing but the bounds.  *)
  swapped,  (* an index store has overtaken the copy it announces          *)
  version,  (* number of the last write published or cut short             *)
  base,     (* the value of version at the last shm_map_init               *)
  inits,    (* re-initialisations so far                                   *)
  seen,     (* seen[r]: version published when r called shm_map_read       *)
  born,     (* born[r]: base when r called shm_map_read                    *)
  view      (* view[r]: the words r loaded in its last complete read       *)

memVars  == <<index, mem, todo, wpc, swapped, version, base, inits>>
readVars == <<ptr, got, busy, seen, born, view>>
vars     == <<memVars, readVars>>

Slots   == 0 .. Copies - 1
NotRead == -1
Blank   == [w \in Words |-> NotRead]

Wrap(i) == i % (Laps * Copies)

Slot(i) == i % Copies

(* The version in the writer's hands, and the slot it is copied to.        *)
Started == IF wpc = "copy" THEN version + 1 ELSE version

Target  == IF wpc = "copy" THEN Slot(Wrap(index + 1)) ELSE Slot(index)

-----------------------------------------------------------------------------
(* A segment freshly created by shm_open and ftruncate is all zeros.       *)
Init ==
  /\ index = StartIdx
  /\ mem = [s \in Slots |-> [w \in Words |-> 0]]
  /\ todo = {} /\ wpc = "idle"
  /\ ptr = [r \in Readers |-> 0]
  /\ got = [r \in Readers |-> Blank]
  /\ busy = {}
  /\ swapped = FALSE
  /\ version = 0 /\ base = 0 /\ inits = 0
  /\ seen = [r \in Readers |-> 0]
  /\ born = [r \in Readers |-> 0]
  /\ view = [r \in Readers |-> [w \in Words |-> 0]]

(* shm_map_init over an existing segment: the program is started again     *)
(* (alive = {}), or the writer's own process initialises a segment that    *)
(* readers opened before.  The header is reset, the slots are not cleared; *)
(* a write cut short keeps its number, for its words stay in the slot.     *)
(* (Stores the writer has made are visible by then.)                       *)
MapInit ==
  /\ inits < MaxInits
  /\ wpc = "copy" \/ todo = {}
  /\ inits' = inits + 1
  /\ index' = StartIdx
  /\ wpc' = "idle" /\ todo' = {}
  /\ version' = Started
  /\ base' = Started
  /\ \E alive \in SUBSET Readers : busy' = busy \cap alive
  /\ UNCHANGED <<mem, swapped, ptr, got, seen, born, view>>

(* shm_map_write: enter, read the index and start the memcpy.              *)
WriteBegin ==
  /\ wpc = "idle" /\ todo = {}
  /\ version < MaxWrites
  /\ wpc' = "copy"
  /\ todo' = Words
  /\ UNCHANGED <<index, mem, swapped, version, base, inits, readVars>>

(* One word of the memcpy becomes visible.                                 *)
StoreWord(w) ==
  /\ w \in todo
  /\ todo' = todo \ {w}
  /\ mem' = [mem EXCEPT ![Target][w] = Started]
  /\ UNCHANGED <<index, wpc, swapped, version, base, inits, readVars>>

(* Mutants of Publish: the index is stored before the copy is made, it is  *)
(* advanced twice, it is not stored.                                       *)
PublishEarly ==
  /\ wpc = "copy"
  /\ index' = Wrap(index + 1)
  /\ wpc' = "idle"
  /\ version' = version + 1
  /\ UNCHANGED <<mem, todo, swapped, base, inits, readVars>>

PublishTwice ==
  /\ wpc = "copy" /\ todo = {}
  /\ index' = Wrap(index + 2)
  /\ wpc' = "idle"
  /\ version' = version + 1
  /\ UNCHANGED <<mem, todo, swapped, base, inits, readVars>>

PublishNothing ==
  /\ wpc = "copy" /\ todo = {}
  /\ wpc' = "idle"
  /\ version' = version + 1
  /\ UNCHANGED <<index, mem, todo, swapped, base, inits, readVars>>

(* hdr->index = index.                                                     *)
Publish ==
  /\ wpc = "copy"
  /\ todo = {} \/ WeakStores
  /\ index' = Wrap(index + 1)
  /\ wpc' = "idle"
  /\ swapped' = (swapped \/ todo # {})
  /\ version' = version + 1
  /\ UNCHANGED <<mem, todo, base, inits, readVars>>

(* Mutant of MapRead: the slot after the published one.                    *)
MapReadNext(r) ==
  /\ r \notin busy
  /\ busy' = busy \cup {r}
  /\ ptr' = [ptr EXCEPT ![r] = Slot(index + 1)]
  /\ got' = [got EXCEPT ![r] = Blank]
  /\ seen' = [seen EXCEPT ![r] = version]
  /\ born' = [born EXCEPT ![r] = base]
  /\ UNCHANGED <<memVars, view>>

(* shm_map_read: load the index, return a pointer to the slot.             *)
MapRead(r) ==
  /\ r \notin busy
  /\ busy' = busy \cup {r}
  /\ ptr' = [ptr EXCEPT ![r] = Slot(index)]
  /\ got' = [got EXCEPT ![r] = Blank]
  /\ seen' = [seen EXCEPT ![r] = version]
  /\ born' = [born EXCEPT ![r] = base]
  /\ UNCHANGED <<memVars, view>>

(* The caller loads a field through the pointer.                           *)
LoadWord(r, w) ==
  /\ r \in busy
  /\ got[r][w] = NotRead
  /\ got' = [got EXCEPT ![r][w] = mem[ptr[r]][w]]
  /\ UNCHANGED <<memVars, ptr, busy, seen, born, view>>

(* The caller has loaded every field and uses what it has.                 *)
ReadDone(r) ==
  /\ r \in busy
  /\ \A w \in Words : got[r][w] # NotRead
  /\ busy' = busy \ {r}
  /\ view' = [view EXCEPT ![r] = got[r]]
  /\ UNCHANGED <<memVars, ptr, got, seen, born>>

Write   == WriteBegin \/ (\E w \in Words : StoreWord(w)) \/ Publish
Read(r) == MapRead(r) \/ (\E w \in Words : LoadWord(r, w)) \/ ReadDone(r)

Next == MapInit \/ Write \/ \E r \in Readers : Read(r)

Spec == Init /\ [][Next]_vars

(* Both sides run in timer-driven or blocking loops of their own process;  *)
(* neither ever waits for the other.                                       *)
Fairness == WF_vars(Write) /\ \A r \in Readers : WF_vars(Read(r))
FairSpec == Spec /\ Fairness

-----------------------------------------------------------------------------
TypeOK ==
  /\ index \in 0 .. (Laps * Copies - 1)
  /\ mem \in [Slots -> [Words -> Nat]]
  /\ todo \in SUBSET Words
  /\ wpc \in {"idle", "copy"} /\ swapped \in BOOLEAN
  /\ ptr \in [Readers -> Slots]
  /\ got \in [Readers -> [Words -> Nat \cup {NotRead}]]
  /\ busy \in SUBSET Readers
  /\ version \in Nat /\ base \in Nat /\ inits \in Nat
  /\ seen \in [Readers -> Nat]
  /\ born \in [Readers -> Nat]
  /\ view \in [Readers -> [Words -> Nat]]

(* A reader holds a published version of the present initialisation, and   *)
(* the writer has begun fewer than Copies versions beyond it.              *)
Current(r) == seen[r] > base /\ born[r] = base
Safe(r)    == Current(r) /\ Started < seen[r] + Copies

(* No torn record: every word a safe reader has loaded through the zero-   *)
(* copy pointer of shm_map_read belongs to the version that was latest     *)
(* when it called, whatever the interleaving and wherever the uint32 index *)
(* wraps -- as long as the CPU has not let an index overtake its copy.     *)
Whole ==
  \A r \in busy : Safe(r) =>
     \A w \in Words : got[r][w] \in {NotRead, seen[r]}

NoTearing == ~swapped => Whole

(* With stores reordered by the CPU a record can be torn, but only between *)
(* the version asked for and what the slot held one round (Copies          *)
(* versions) before: never by a version published after the call.          *)
OneLapTear ==
  \A r \in busy : Safe(r) =>
     \A w \in Words :
        \/ got[r][w] \in {NotRead, seen[r]}
        \/ got[r][w] + Copies = seen[r]
        \/ seen[r] <= base + Copies /\ got[r][w] <= base

(* Overtaken or not, a reader never loads a word older than the version    *)
(* that was latest when it called shm_map_read (while stores are visible   *)
(* in order); what it may see instead is a later version, even one not yet *)
(* published.                                                              *)
NotStale ==
  \A r \in busy : Current(r) =>
     \A w \in Words : got[r][w] # NotRead => got[r][w] \in seen[r] .. Started

NothingOlder == ~swapped => NotStale

(* Every publication reaches every reader: its view is eventually at least *)
(* as recent in all words, unless the segment is initialised first.        *)
Delivered ==
  \A v \in 1 .. MaxWrites : \A r \in Readers :
     (version = v) ~> (base >= v \/ \A w \in Words : view[r][w] >= v)

(* The segment implements the abstract register.                           *)
Register == INSTANCE SnapshotRegister WITH started <- Started, snap <- seen
Implements == Register!Spec
=============================================================================
