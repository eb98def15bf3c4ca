------------------------------ MODULE LogBuffer -----------------------------
(***************************************************************************)
(* liblog: each service owns a ring of LOG_BUFFER_SIZE records in shared   *)
(* memory.  The service (log_put_record) is the only one to move head, the *)
(* main process (log_print) the only one to move tail; there is no lock,   *)
(* no test for a full ring, and a message longer than LOG_ITEM_MAXMSG is   *)
(* published record by record, all but the last marked CONTINUE.           *)
(*                                                                         *)
(* Nor is there a barrier between the stores into a record and the store   *)
(* of head: on the ARM this runs on the printer may see them in any order  *)
(* (stores to one place become visible in theirs).  The printer being the  *)
(* only one who looks, stores that linger also stand for its early loads.  *)
(*                                                                         *)
(* The text is abstracted to the ordinal of the record: 1, 2, 3, ...       *)
(* It stands for level, date, length and text, which linger together.      *)
(***************************************************************************)
EXTENDS Integers, Sequences, FiniteSets

CONSTANTS
  Size,      (* LOG_BUFFER_SIZE                                            *)
  MaxRecs,   (* the most records one message takes (512 / 32 in the code)  *)
  MaxPuts,   (* bound on the records put in a behaviour                    *)
  MaxLate    (* bound on the records the printer sees only in part         *)

ASSUME SizeAssumption  == Size \in Nat /\ Size > 1
ASSUME RecsAssumption  == MaxRecs \in Nat \ {0}
ASSUME PutsAssumption  == MaxPuts \in Nat /\ MaxLate \in Nat

VARIABLES
  mine,        (* log->head as the service itself sees it                  *)
  head, tail,  (* log->head as the printer sees it, log->tail              *)
  records,     (* log->records: [id, end], end for LOG_ITEM_END            *)
  todo,        (* stores into records the printer does not see yet         *)
  left,        (* records of the current message still to be published     *)
  filled,      (* the record at mine has been filled in                    *)
  cpc,         (* where log_print is                                       *)
  (* History: *)
  put,         (* ordinal of the last record published                     *)
  seen,        (* ordinal of the last record the printer's head covers     *)
  shown,       (* ordinals printed before the first slip or lap, in order  *)
  slipped,     (* log_print has run out of records inside a message        *)
  lapped,      (* head has come round to tail: Size records unprinted      *)
  swapped      (* head has become visible before the record it publishes   *)

putVars   == <<mine, todo, left, filled, put, lapped>>
seenVars  == <<head, records, seen, swapped>>
printVars == <<tail, cpc, shown, slipped>>
vars      == <<putVars, seenVars, printVars>>

Index   == 0 .. Size - 1

Succ(i) == (i + 1) % Size

Parts   == {"text", "log_continue"}

(* log_create resets head and tail; records of an earlier run stay.        *)
Init ==
  /\ mine = Size - 2 /\ head = Size - 2 /\ tail = Size - 2
  /\ records \in [Index -> [id : {0}, end : BOOLEAN]] /\ todo = {}
  /\ left = 0 /\ filled = FALSE /\ put = 0 /\ seen = 0
  /\ cpc = "idle"
  /\ shown = <<>> /\ slipped = FALSE /\ lapped = FALSE /\ swapped = FALSE

-----------------------------------------------------------------------------
(* log_put_record: a message of n records.                                 *)
PutBegin(n) ==
  /\ left = 0
  /\ put + n <= MaxPuts
  /\ left' = n
  /\ UNCHANGED <<mine, todo, filled, put, lapped, seenVars, printVars>>

(* What a full round of the ring left invisible in the slot is never seen. *)
FillRecord ==
  /\ left > 0 /\ ~filled
  /\ Cardinality({s.at : s \in todo}) < MaxLate
  /\ todo' = {s \in todo : s.at # mine} \cup
             [at : {mine}, part : Parts, id : {put + 1}, end : {left = 1}]
  /\ filled' = TRUE
  /\ UNCHANGED <<mine, left, put, lapped, seenVars, printVars>>

(* Mutant of AdvanceHead: a record may be published before it is filled.   *)
AdvanceHeadEarly ==
  /\ left > 0
  /\ mine' = Succ(mine)
  /\ filled' = FALSE
  /\ left' = left - 1
  /\ put' = put + 1
  /\ lapped' = (lapped \/ mine' = tail)
  /\ UNCHANGED <<todo, seenVars, printVars>>

AdvanceHead ==
  /\ filled
  /\ mine' = Succ(mine)
  /\ filled' = FALSE
  /\ left' = left - 1
  /\ put' = put + 1
  /\ lapped' = (lapped \/ mine' = tail)
  /\ UNCHANGED <<todo, seenVars, printVars>>

(* The memory: a store into a record reaches the printer ...               *)
StoreVisible(s) ==
  /\ todo' = todo \ {s}
  /\ records' = IF s.part = "text" THEN [records EXCEPT ![s.at].id = s.id]
                                   ELSE [records EXCEPT ![s.at].end = s.end]
  /\ UNCHANGED <<mine, left, filled, put, lapped, head, seen, swapped, printVars>>

(* ... and so does a store of head, before the record or after it.         *)
HeadVisible ==
  /\ seen < put
  /\ head' = Succ(head)
  /\ seen' = seen + 1
  /\ swapped' = (swapped \/ \E s \in todo : s.at = head)
  /\ UNCHANGED <<records, putVars, printVars>>

-----------------------------------------------------------------------------
(* log_print, called by main_cycle every 50 ms: the outer loop's test.     *)
Start ==
  /\ cpc = "idle"
  /\ head # tail
  /\ cpc' = "print"
  /\ UNCHANGED <<tail, shown, slipped, putVars, seenVars>>

(* fwrite(record->msg ...)                                                 *)
Show ==
  /\ cpc = "print"
  /\ cpc' = "flag"
  /\ shown' = IF lapped \/ slipped THEN shown ELSE Append(shown, records[tail].id)
  /\ UNCHANGED <<tail, slipped, putVars, seenVars>>

(* Mutant of TestEnd: the break is missing.                                *)
TestEndDropped ==
  /\ cpc = "flag"
  /\ cpc' = "more"
  /\ UNCHANGED <<tail, shown, slipped, putVars, seenVars>>

(* if (record->log_continue == LOG_ITEM_END) break                         *)
TestEnd ==
  /\ cpc = "flag"
  /\ cpc' = IF records[tail].end THEN "step" ELSE "more"
  /\ UNCHANGED <<tail, shown, slipped, putVars, seenVars>>

(* the tail moves on inside the message ...                                *)
NextRecord ==
  /\ cpc = "more"
  /\ tail' = Succ(tail)
  /\ cpc' = "again"
  /\ UNCHANGED <<shown, slipped, putVars, seenVars>>

(* ... and the inner loop goes on only if there is another record.         *)
TestMore ==
  /\ cpc = "again"
  /\ IF head # tail THEN cpc' = "print" /\ UNCHANGED slipped
                    ELSE cpc' = "step" /\ slipped' = TRUE
  /\ UNCHANGED <<tail, shown, putVars, seenVars>>

(* Mutant of StepTail: the tail stays on the record printed.               *)
StepTailMissing ==
  /\ cpc = "step"
  /\ cpc' = "idle"
  /\ UNCHANGED <<tail, shown, slipped, putVars, seenVars>>

(* log->tail = (log->tail + 1U) % LOG_BUFFER_SIZE after the inner loop.    *)
StepTail ==
  /\ cpc = "step"
  /\ tail' = Succ(tail)
  /\ cpc' = "idle"
  /\ UNCHANGED <<shown, slipped, putVars, seenVars>>

Put     == (\E n \in 1 .. MaxRecs : PutBegin(n)) \/ FillRecord \/ AdvanceHead
Printer == Start \/ Show \/ TestEnd \/ NextRecord \/ TestMore \/ StepTail

Memory  == (\E s \in todo : StoreVisible(s)) \/ HeadVisible

Next == Put \/ Memory \/ Printer

Spec == Init /\ [][Next]_vars

(* main_cycle calls log_print in an endless loop, and a service does not   *)
(* stop inside log_put_record.  It need not log anything more.  No store    *)
(* stays invisible for ever.                                               *)
Fairness == WF_vars(Printer) /\ WF_vars(FillRecord \/ AdvanceHead) /\ WF_vars(Memory)
FairSpec == Spec /\ Fairness

-----------------------------------------------------------------------------
TypeOK ==
  /\ mine \in Index /\ head \in Index /\ tail \in Index
  /\ records \in [Index -> [id : Nat, end : BOOLEAN]]
  /\ todo \subseteq [at : Index, part : Parts, id : Nat, end : BOOLEAN]
  /\ left \in Nat /\ filled \in BOOLEAN /\ put \in Nat /\ seen \in Nat
  /\ cpc \in {"idle", "print", "flag", "more", "again", "step"}
  /\ shown \in Seq(Nat)
  /\ slipped \in BOOLEAN /\ lapped \in BOOLEAN /\ swapped \in BOOLEAN

(* What may stand in the slot of record n instead of it: an older record   *)
(* of this slot, whole rounds of the ring old, or one of an earlier run.   *)
Old(id, n) == id = 0 \/ id + Size <= n

(* Until the service outruns the printer by a whole ring, or the printer   *)
(* catches the service between two records of a message (and then steps    *)
(* over the next record), a place is printed for every record put, in the  *)
(* order they were put, none skipped or repeated; it holds that record     *)
(* or, once head has overtaken the record it publishes, an older one.  At  *)
(* rest nothing is left unprinted.                                         *)
Fifo == (~lapped /\ ~slipped) =>
           /\ Len(shown) <= seen
           /\ \A n \in 1 .. Len(shown) : shown[n] = n \/ (swapped /\ Old(shown[n], n))
           /\ (cpc = "idle" /\ head = tail) => Len(shown) = seen

(* Even after a slip, which puts tail one past head, the printer comes to  *)
(* rest at the service's head once the service stops logging.              *)
Drains == <>[](cpc = "idle" /\ mine = tail)

(* The printer slips only on a message that is still being put or still    *)
(* hidden from it, unless head has overtaken a record: it takes one that   *)
(* is all there from end to end.                                           *)
SlipsOnlyMidMessage ==
  [][(slipped' # slipped /\ ~lapped /\ ~swapped) => (left > 0 \/ seen < put)]_vars
=============================================================================
