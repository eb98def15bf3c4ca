-------------------------- MODULE SnapshotRegister --------------------------
(***************************************************************************)
(* What a shared-memory segment of libsvc promises to its users, without   *)
(* the header, the ring of slots or the word-by-word copies: one writer    *)
(* publishes versions 1, 2, 3, ... of a record of Words, each in one step, *)
(* and a reader obtains the version that was latest when it asked for its  *)
(* pointer -- provided it finishes before the writer has begun Copies      *)
(* further versions.  A reader that is overtaken may see any mixture of    *)
(* this version and later ones.  All bets are off once the machine has     *)
(* made an index visible before the copy it announces.                     *)
(***************************************************************************)
EXTENDS Integers

CONSTANTS
  Readers,  (* processes that read the segment                            *)
  Words,    (* the words of the published record                          *)
  Copies    (* how many versions the segment holds at a time              *)

VARIABLES
  version,  (* the last version published, or abandoned by a Reset        *)
  started,  (* the last version the writer began: version or version + 1  *)
  swapped,  (* a version was published before it was complete             *)
  base,     (* the version at the last (re-)initialisation                *)
  snap,     (* snap[r]: the version reader r asked for                    *)
  born,     (* born[r]: the initialisation under which it asked           *)
  busy,     (* the readers in the middle of a read                        *)
  view      (* view[r]: the record reader r obtained by its last read     *)

avars == <<version, started, swapped, base, snap, born, busy, view>>

(* A reader is safe while its version is a published one of the present    *)
(* initialisation and the writer has not come round to its slot.           *)
Current(r) == snap[r] > base /\ born[r] = base
Safe(r)    == Current(r) /\ started < snap[r] + Copies

Init ==
  /\ version = 0 /\ started = 0 /\ base = 0
  /\ swapped = FALSE
  /\ snap = [r \in Readers |-> 0]
  /\ born = [r \in Readers |-> 0]
  /\ busy = {}
  /\ view = [r \in Readers |-> [w \in Words |-> 0]]

Begin ==
  /\ started = version
  /\ started' = version + 1
  /\ UNCHANGED <<version, swapped, base, snap, born, busy, view>>

Commit ==
  /\ started = version + 1
  /\ version' = started
  /\ swapped' \in {swapped, TRUE}
  /\ UNCHANGED <<started, base, snap, born, busy, view>>

Reset ==
  /\ \E alive \in SUBSET Readers : busy' = busy \cap alive
  /\ version' = started
  /\ base' = started
  /\ UNCHANGED <<started, swapped, snap, born, view>>

Ask(r) ==
  /\ r \notin busy
  /\ busy' = busy \cup {r}
  /\ snap' = [snap EXCEPT ![r] = version]
  /\ born' = [born EXCEPT ![r] = base]
  /\ UNCHANGED <<version, started, swapped, base, view>>

Obtain(r) ==
  /\ r \in busy
  /\ busy' = busy \ {r}
  /\ \E rec \in [Words -> 0 .. started] :
       /\ (~swapped /\ Current(r)) => \A w \in Words : rec[w] >= snap[r]
       /\ (~swapped /\ Safe(r)) => \A w \in Words : rec[w] = snap[r]
       /\ view' = [view EXCEPT ![r] = rec]
  /\ UNCHANGED <<version, started, swapped, base, snap, born>>

Next == \/ Begin \/ Commit \/ Reset
        \/ \E r \in Readers : Ask(r) \/ Obtain(r)

Spec == Init /\ [][Next]_avars
=============================================================================
