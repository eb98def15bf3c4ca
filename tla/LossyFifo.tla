------------------------------ MODULE LossyFifo ------------------------------
(***************************************************************************)
(* What the video link promises its player: of each block the sender       *)
(* broadcasts it gets at most one copy, in the order they were sent, with  *)
(* nothing in it but the pieces of that block, each in its place or        *)
(* missing.  Whole blocks may be missing too.  Only when the receiver      *)
(* hears something more than Gap blocks old does it begin again from       *)
(* there.  Nothing is promised after the sender's numbers have begun anew. *)
(***************************************************************************)
EXTENDS Integers, Sequences

CONSTANTS
  Pieces,  (* pieces of a block                                            *)
  Gap,     (* how far back the receiver must be thrown to begin again      *)
  None     (* a piece that is missing                                      *)

VARIABLES
  blocks,  (* the blocks broadcast, numbered from 0                        *)
  hand,    (* number of the block the receiver collects, -1 at first       *)
  passed,  (* what the player got, block by block                          *)
  numbers  (* TRUE while the sender's numbers have not begun anew          *)

vars == <<blocks, hand, passed, numbers>>

Damaged(block) == {d \in [1 .. Pieces -> {None} \cup {block[i] : i \in 1 .. Pieces}] :
                     \A i \in 1 .. Pieces : d[i] \in {None, block[i]}}

Init == blocks = <<>> /\ hand = -1 /\ passed = <<>> /\ numbers = TRUE

Broadcast ==
  /\ Len(blocks') = Len(blocks) + 1
  /\ SubSeq(blocks', 1, Len(blocks)) = blocks
  /\ UNCHANGED <<hand, passed, numbers>>

(* The receiver leaves the block in hand for a later one and passes it on. *)
Advance ==
  /\ hand' \in hand + 1 .. Len(blocks) - 1
  /\ IF hand = -1 THEN passed' = passed
     ELSE \E d \in Damaged(blocks[hand + 1]) : passed' = Append(passed, d)
  /\ UNCHANGED <<blocks, numbers>>

(* The receiver throws the block in hand away for a much older one.        *)
GoBack ==
  /\ hand' \in 0 .. Len(blocks) - 1 /\ hand' + Gap < hand
  /\ UNCHANGED <<blocks, passed, numbers>>

Next == \/ numbers /\ numbers' /\ (Broadcast \/ Advance \/ GoBack)
        \/ ~numbers'

Spec == Init /\ [][Next]_vars
=============================================================================
