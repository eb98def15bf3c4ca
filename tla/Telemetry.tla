----------------------------- MODULE Telemetry ------------------------------
(***************************************************************************)
(* The telemetry downlink.  rhex_telemetry_main numbers its packets from 0 *)
(* and broadcasts them; process_packet (rhex_ground/rhex_telemetry_rx.c)   *)
(* takes each from whichever wifi card heard it, drops what it knows from  *)
(* the ring of the last BUF_SZ numbers, and sends the rest to QOpenHD by   *)
(* UDP.  The ground's own rhex_tx_rc_main broadcasts the remote control's  *)
(* packets on the same port 1, numbered from 0 too, and process_packet,    *)
(* which looks at nothing but the number, takes them for telemetry.  A     *)
(* card keeps the order of the air but is up to Skew packets behind it.    *)
(*                                                                         *)
(* A packet is known by its ordinal in air; its content is not modelled.   *)
(***************************************************************************)
EXTENDS Integers, Sequences, FiniteSets

CONSTANTS
  Cards,        (* the wifi cards of the ground station                    *)
  BufSize,      (* BUF_SZ: 100                                             *)
  SeqMod,       (* 2^32                                                    *)
  Skew,         (* the most packets a card is behind the air               *)
  Lossy,        (* TRUE: packets may be lost, for each card separately     *)
  SendFails,    (* TRUE: sendto may fail                                   *)
  MaxPhantoms,  (* bound on the reads that find nothing after select()     *)
  MaxPackets,   (* bound on the packets of telemetry                       *)
  MaxRc,        (* bound on the packets of the remote control              *)
  MaxRestarts   (* bound on restarts of the robot                          *)

TelemetryAssumption ==
  /\ BufSize \in Nat /\ BufSize > 2 /\ SeqMod \in Nat \ {0}
  /\ Skew \in Nat \ {0} /\ Lossy \in BOOLEAN /\ SendFails \in BOOLEAN
  /\ MaxPackets \in Nat /\ MaxRc \in 0 .. SeqMod - 1 /\ MaxRestarts \in Nat /\ MaxPhantoms \in Nat

VARIABLES
  seqno,     (* rhex_telemetry_main's seqno                                *)
  rcSeqno,   (* rhex_tx_rc_main's seqno                                    *)
  air,       (* packets broadcast: [seq, from]                             *)
  heard,     (* heard[c]: how much of air card c is past                   *)
  buffer,    (* buffer[i].seq: numbers of forwarded packets                *)
  bufPos,    (* buf_pos                                                    *)
  (* History: *)
  run,       (* restarts of the robot so far                               *)
  phantoms,  (* reads that found nothing                                   *)
  out,       (* ordinals of the packets sent to QOpenHD, in order          *)
  withheld   (* ordinals dropped by a card though never forwarded          *)

ring == <<buffer, bufPos>>
vars == <<seqno, rcSeqno, air, heard, ring, run, phantoms, out, withheld>>

(* telemetry_rx_main: the ring starts full of zeros.                       *)
Init ==
  /\ seqno = 0 /\ rcSeqno = 0 /\ air = <<>>
  /\ heard = [c \in Cards |-> 0]
  /\ buffer = [i \in 0 .. BufSize - 1 |-> 0]
  /\ bufPos = BufSize - 2
  /\ run = 0 /\ phantoms = 0 /\ out = <<>> /\ withheld = {}

(* wfb_tx_send puts a packet of a sender on the air.                       *)
Broadcast(n, sender) ==
  /\ \A c \in Cards : Len(air) - heard[c] < Skew
  /\ air' = Append(air, [seq |-> n, from |-> sender])
  /\ UNCHANGED <<heard, ring, run, phantoms, out, withheld>>

(* wfb_tx_send(&telemetry_tx, seqno++, ...) every 100 ms.                  *)
Send ==
  /\ Len(air) - rcSeqno < MaxPackets
  /\ Broadcast(seqno, "robot")
  /\ seqno' = (seqno + 1) % SeqMod
  /\ UNCHANGED rcSeqno

(* wfb_tx_send(&rc_tx, seqno++, ...) for a datagram of the remote control. *)
SendRc ==
  /\ rcSeqno < MaxRc
  /\ Broadcast(rcSeqno, "ground")
  /\ rcSeqno' = (rcSeqno + 1) % SeqMod
  /\ UNCHANGED seqno

(* Mutant of Known: the search ends at buf_pos.                            *)
KnownBelowPos(seq) == \E i \in 0 .. bufPos - 1 : buffer[i] = seq

Known(seq) == \E i \in DOMAIN buffer : buffer[i] = seq

(* "received old seqno": lastseq is 0 and stays 0.                         *)
Old(seq) == seq > (SeqMod - 1) \div 2

Forwarded == {out[i] : i \in 1 .. Len(out)}

NextPos(p) == IF p + 1 >= BufSize THEN 0 ELSE p + 1

Remember(seq) ==
  /\ buffer' = [buffer EXCEPT ![bufPos] = seq]
  /\ bufPos' = NextPos(bufPos)

(* process_packet for the next packet of card c; a packet QOpenHD did not  *)
(* get is not remembered either.                                           *)
Process(c) ==
  /\ heard[c] < Len(air)
  /\ heard' = [heard EXCEPT ![c] = @ + 1]
  /\ LET n   == heard[c] + 1
         seq == air[n].seq
     IN  IF Known(seq) \/ Old(seq)
         THEN /\ withheld' = IF n \in Forwarded THEN withheld ELSE withheld \cup {n}
              /\ UNCHANGED <<ring, out>>
         ELSE \/ SendFails /\ UNCHANGED <<ring, out, withheld>>
              \/ Remember(seq) /\ out' = Append(out, n) /\ UNCHANGED withheld
  /\ UNCHANGED <<seqno, rcSeqno, air, run, phantoms>>

(* wfb_rx_packet_interface finds no packet after select() and returns 1    *)
(* all the same: process_packet takes the zeroed buffer for an empty       *)
(* packet numbered 0, sends an empty datagram and remembers the 0.         *)
EmptyRead ==
  /\ phantoms < MaxPhantoms
  /\ phantoms' = phantoms + 1
  /\ IF Known(0) THEN UNCHANGED ring ELSE Remember(0)
  /\ UNCHANGED <<seqno, rcSeqno, air, heard, run, out, withheld>>

Miss(c) ==
  /\ Lossy
  /\ heard[c] < Len(air)
  /\ heard' = [heard EXCEPT ![c] = @ + 1]
  /\ UNCHANGED <<seqno, rcSeqno, air, ring, run, phantoms, out, withheld>>

(* The robot is started again, which takes longer than a card is behind.   *)
Restart ==
  /\ run < MaxRestarts
  /\ \A c \in Cards : \A n \in heard[c] + 1 .. Len(air) : air[n].from = "ground"
  /\ run' = run + 1
  /\ seqno' = 0
  /\ UNCHANGED <<rcSeqno, air, heard, ring, phantoms, out, withheld>>

Next ==
  \/ Send \/ SendRc \/ Restart \/ EmptyRead
  \/ \E c \in Cards : Process(c) \/ Miss(c)

Spec == Init /\ [][Next]_vars

-----------------------------------------------------------------------------
TypeOK ==
  /\ seqno \in 0 .. SeqMod - 1 /\ rcSeqno \in 0 .. SeqMod - 1
  /\ heard \in [Cards -> 0 .. Len(air)]
  /\ buffer \in [0 .. BufSize - 1 -> 0 .. SeqMod - 1]
  /\ bufPos \in 0 .. BufSize - 1
  /\ run \in 0 .. MaxRestarts /\ phantoms \in 0 .. MaxPhantoms

(* Telemetry dropped as already received though it was not, but for the    *)
(* packet numbered 0 of each run and those whose number a packet of the    *)
(* remote control has had.                                                 *)
HeldBack ==
  {n \in withheld : air[n].from = "robot" /\ air[n].seq # 0 /\ air[n].seq >= rcSeqno}

(* QOpenHD gets no packet twice, however many cards hear it, as long as no  *)
(* card is more than half a ring behind another: not a whole ring, for     *)
(* packets that only the late card heard, and an empty read, push out      *)
(* newer numbers too.  And until half of all numbers are used, what is     *)
(* held back is, after a restart of the robot, at most one packet for each *)
(* number the ring held.  (The remote control may hold back all telemetry: *)
(* the bound does not count what has a number below its own.)              *)
PassedOnOnce ==
  /\ 2 * Skew <= BufSize => \A i, j \in 1 .. Len(out) : out[i] = out[j] => i = j
  /\ Len(air) <= SeqMod \div 2 => Cardinality(HeldBack) <= run * BufSize
=============================================================================
