------------------------------- MODULE RcLink -------------------------------
(***************************************************************************)
(* The remote control, from the ground station to the legs.                *)
(*   rhex_ground/rhex_tx_rc.c  numbers what QOpenHD sends it and broadcasts *)
(*   libwfb/wfb_rx.c           wfb_rx_packet: one packet of one wifi card  *)
(*   rhex_air/control/rhex_rc.c  unpacks it into the segment shm_rc        *)
(*   Motion                    reads the segment every 10 ms               *)
(* The radio loses packets for each card separately.  Cards keep the order *)
(* of the air but not each other's pace.                                   *)
(***************************************************************************)
EXTENDS Integers, Sequences

CONSTANTS
  Drives,       (* as in Motion                                            *)
  Cards,        (* the wifi cards of the robot                             *)
  TxPort,       (* the port rhex_tx_rc_main gives wfb_tx_init: 1           *)
  RxPort,       (* the port rc_main gives wfb_rx_init: 30                  *)
  SeqMod,       (* 2^32                                                    *)
  Lossy,        (* TRUE: packets may be lost                               *)
  MaxPhantoms,  (* bound on the reads that find nothing after select()     *)
  MaxPackets,   (* bound on the packets broadcast                          *)
  MaxGroundRestarts, MaxAirRestarts   (* bounds on restarts                *)

ASSUME PortAssumption  == TxPort \in Nat /\ RxPort \in Nat
ASSUME SeqAssumption   == SeqMod \in Nat \ {0}
ASSUME BoundAssumption == /\ Lossy \in BOOLEAN /\ MaxPhantoms \in Nat
                          /\ MaxPackets \in Nat /\ MaxGroundRestarts \in Nat
                          /\ MaxAirRestarts \in Nat

VARIABLES
  state, tgt, ready, rc, asked, inbox, last, order,   (* Motion            *)
  seqno,      (* rhex_tx_rc_main's seqno                                   *)
  air,        (* packets broadcast: [seq, cmd]                             *)
  heard,      (* heard[c]: how much of air card c is past                  *)
  got,        (* history: got[c], the last packet card c did hear          *)
  restarts,   (* history: restarts so far                                  *)
  phantoms    (* history: empty reads so far                               *)

M == INSTANCE Motion

motionVars == <<state, tgt, ready, asked, inbox, last, order>>
vars == <<motionVars, rc, seqno, air, heard, got, restarts, phantoms>>

Released == [walk |-> FALSE, park |-> FALSE]

Init ==
  /\ M!Init
  /\ seqno = 0 /\ air = <<>>
  /\ heard = [c \in Cards |-> 0] /\ got = [c \in Cards |-> 0]
  /\ restarts = [ground |-> 0, air |-> 0] /\ phantoms = 0

(* rhex_tx_rc_main: a datagram of QOpenHD goes out with the next number.   *)
Send(cmd) ==
  /\ Len(air) < MaxPackets
  /\ air' = Append(air, [seq |-> seqno, cmd |-> cmd])
  /\ seqno' = (seqno + 1) % SeqMod
  /\ UNCHANGED <<motionVars, rc, heard, got, restarts, phantoms>>

(* Mutant of Accepts: a number must be above the last one, which is 0.     *)
AcceptsNewer(seq) == seq > 0 /\ seq < (SeqMod - 1) \div 2

(* rc_main's test of the number: last_seqno is 0 and stays 0.              *)
Accepts(seq) == seq < (SeqMod - 1) \div 2

(* A packet on the wrong port is dropped by the card's filter.             *)
OnPort == TxPort = RxPort

(* wfb_rx_packet reads a packet of card c, and rc_main publishes it.       *)
Receive(c) ==
  /\ heard[c] < Len(air)
  /\ heard' = [heard EXCEPT ![c] = @ + 1]
  /\ got' = [got EXCEPT ![c] = heard[c] + 1]
  /\ LET p == air[heard[c] + 1]
     IN  rc' = IF OnPort /\ Accepts(p.seq) THEN p.cmd ELSE rc
  /\ UNCHANGED <<motionVars, seqno, air, restarts, phantoms>>

Miss(c) ==
  /\ Lossy
  /\ heard[c] < Len(air)
  /\ heard' = [heard EXCEPT ![c] = @ + 1]
  /\ UNCHANGED <<motionVars, rc, seqno, air, got, restarts, phantoms>>

(* Mutant of EmptyRead: the buffer of the packet is not cleared first.     *)
EmptyReadGarbage ==
  /\ phantoms < MaxPhantoms
  /\ phantoms' = phantoms + 1
  /\ rc' \in M!Buttons
  /\ UNCHANGED <<motionVars, seqno, air, heard, got, restarts>>

(* pcap_next_ex finds no packet, wfb_rx_packet returns 1 all the same, and *)
(* rc_main takes its zeroed buffer for a packet with no button pressed.    *)
EmptyRead ==
  /\ phantoms < MaxPhantoms
  /\ phantoms' = phantoms + 1
  /\ rc' = Released
  /\ UNCHANGED <<motionVars, seqno, air, heard, got, restarts>>

(* One step of the robot's motion service, or of its leg drives.           *)
Move == (M!Cycle \/ M!Bus) /\ UNCHANGED <<seqno, air, heard, got, restarts, phantoms>>

(* The ground station is started again and numbers from 0.                 *)
GroundRestart ==
  /\ restarts.ground < MaxGroundRestarts
  /\ restarts' = [restarts EXCEPT !.ground = @ + 1]
  /\ seqno' = 0
  /\ UNCHANGED <<motionVars, rc, air, heard, got, phantoms>>

(* The robot's program is started again.  shm_map_init resets the index of *)
(* shm_rc but not its slots: the record may be any that an earlier run put *)
(* there.                                                                  *)
AirRestart ==
  /\ restarts.air < MaxAirRestarts
  /\ restarts' = [restarts EXCEPT !.air = @ + 1]
  /\ M!Restart
  /\ heard' = [c \in Cards |-> Len(air)]
  /\ rc' \in {Released} \cup {air[n].cmd : n \in {k \in 1 .. Len(air) :
                                              OnPort /\ \E c \in Cards : k <= heard[c]}}
  /\ UNCHANGED <<seqno, air, got, phantoms>>

Ground == (\E cmd \in M!Buttons : Send(cmd)) \/ GroundRestart
Radio  == (\E c \in Cards : Receive(c) \/ Miss(c)) \/ EmptyRead
Next   == Ground \/ Radio \/ Move \/ AirRestart

Spec == Init /\ [][Next]_vars

(* rc_main reads what there is, from whichever card, every 30 ms.          *)
Fairness == WF_vars(\E c \in Cards : Receive(c))
FairSpec == Spec /\ Fairness

-----------------------------------------------------------------------------
TypeOK ==
  /\ M!TypeOK
  /\ seqno \in 0 .. SeqMod - 1
  /\ heard \in [Cards -> 0 .. Len(air)]
  /\ \A c \in Cards : got[c] \in 0 .. heard[c]
  /\ restarts \in [ground : 0 .. MaxGroundRestarts, air : 0 .. MaxAirRestarts]
  /\ phantoms \in 0 .. MaxPhantoms

(* The robot walks or parks only on an order the operator really gave, at  *)
(* some time: no loss, repetition, reordering, empty read or restart turns *)
(* into one.  (After a restart of the robot it may be an old order.)       *)
OnlyOnOrders ==
  /\ state = "walking" => \E n \in 1 .. Len(air) : air[n].cmd.walk /\ ~air[n].cmd.park
  /\ state = "parking" => \E n \in 1 .. Len(air) : air[n].cmd.park

(* The operator has the last word: when he stops sending, the record is    *)
(* the last packet broadcast if every card hears it, also if his station   *)
(* was restarted meanwhile and numbers from 0 again, unless a read finds   *)
(* nothing or the robot is restarted.  ("QOpenHD -> RC ->                  *)
(* motion_controller", src/diagram: wifi carries "control commands, RC" to *)
(* the robot.)                                                             *)
LastCommandArrives ==
  \A cmd \in M!Buttons :
    (Len(air) = MaxPackets /\ air[MaxPackets].cmd = cmd)
      ~> \/ rc = cmd
         \/ \E c \in Cards : heard[c] = MaxPackets /\ got[c] # MaxPackets
         \/ phantoms > 0 \/ restarts.air > 0
=============================================================================
