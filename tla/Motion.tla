------------------------------- MODULE Motion -------------------------------
(***************************************************************************)
(* rhex_air/control/motion.c: every 10 ms do_motion takes at most one CAN  *)
(* message from the leg drives, reads the remote control record from its   *)
(* shared memory segment and, once all the legs have reported, sends them  *)
(* commands.  Each drive board moves two legs.  Any write to the bus may   *)
(* fail, and nobody looks at the result of send_can_msg.                   *)
(*                                                                         *)
(* The record is abstracted to its two buttons; the stick positions, and   *)
(* the leg angles make_step computes from them, are in module Gait.        *)
(***************************************************************************)
EXTENDS Integers

CONSTANT Drives   (* the drive boards, CAN addresses 1, 2 and 3            *)

VARIABLES
  state,    (* motion_state                                                *)
  tgt,      (* tgt_motion_state                                            *)
  ready,    (* drives whose legs are DRV_STATE_READY                       *)
  rc,       (* the record in segment shm_rc: [walk, park], btn[0], btn[1]  *)
  asked,    (* drives whose request of start_msg they have not answered    *)
  inbox,    (* answers on their way: [drive, kind]                         *)
  (* History: *)
  last,     (* last[d]: the kind of command the legs of drive d last got,  *)
            (* or "mixed": not every leg got the last one sent             *)
  order     (* the last button do_motion has seen since all were ready     *)

vars == <<state, tgt, ready, rc, asked, inbox, last, order>>

Buttons == [walk : BOOLEAN, park : BOOLEAN]
Answers == [drive : Drives, kind : {"status", "stood"}]

(* Mutant of AllReady: one drive is enough.                                *)
AnyReady(drives) == drives # {}

AllReady(drives) == drives = Drives

(* motion_init, and start_msg: GET_STATUS to every drive it can write to.  *)
(* Calibration is never asked for: no assignment makes it the target state.*)
Init ==
  /\ state = "off" /\ tgt = "off"
  /\ ready = {}
  /\ asked \in SUBSET Drives
  /\ inbox = {}
  /\ rc = [walk |-> FALSE, park |-> FALSE]
  /\ last = [d \in Drives |-> "none"]
  /\ order = "none"

-----------------------------------------------------------------------------
(* rc_main publishes a record.                                             *)
SetRc(b) ==
  /\ rc' = b
  /\ UNCHANGED <<state, tgt, ready, asked, inbox, last, order>>

(* A drive that has power answers start_msg.                               *)
Answer(d) ==
  /\ d \in asked
  /\ asked' = asked \ {d}
  /\ inbox' = inbox \cup {[drive |-> d, kind |-> "status"]}
  /\ UNCHANGED <<state, tgt, ready, rc, last, order>>

(* ... and reports when its legs stand.                                    *)
ReportStood(d) ==
  /\ last[d] \in {"stand", "mixed"}
  /\ inbox' = inbox \cup {[drive |-> d, kind |-> "stood"]}
  /\ UNCHANGED <<state, tgt, ready, rc, asked, last, order>>

(* A command for all the legs, where some frames for the drives of lost    *)
(* cannot be written.                                                      *)
Sent(cmd, lost) == [d \in Drives |-> IF d \in lost THEN "mixed" ELSE cmd]

(* parse_msg: what the message leaves behind.  The answer that completes   *)
(* the set resets the state machine and sends one slow step.               *)
Parsed(ms, lost) ==
  LET rdy  == ready \cup {m.drive : m \in ms}
      full == AllReady(rdy) /\ \E m \in ms : m.kind = "status"
  IN  [ready |-> rdy,
       state |-> IF full THEN "off" ELSE state,
       tgt   |-> IF full THEN "off" ELSE tgt,
       order |-> IF full THEN "none" ELSE order,
       last  |-> IF full THEN Sent("step", lost) ELSE last]

(* Mutants of Target: walking wins; the buttons are swapped.               *)
TargetWalkWins(was) == IF rc.walk THEN "walking" ELSE IF rc.park THEN "parking" ELSE was
TargetSwapped(was)  == IF rc.walk THEN "parking" ELSE IF rc.park THEN "walking" ELSE was

(* The buttons: parking wins.                                              *)
Target(was) == IF rc.park THEN "parking" ELSE IF rc.walk THEN "walking" ELSE was

(* The change of state.                                                    *)
Enter(was, goal) == IF goal = "off" THEN was ELSE goal

(* The commands of this cycle: parking_all on the change to parking,       *)
(* make_step in every cycle of walking.                                    *)
Commands(p, new, lost) ==
  IF new = "parking" /\ p.state # "parking" THEN Sent("stand", lost)
  ELSE IF new = "walking" THEN Sent("step", lost) ELSE p.last

(* do_motion, with the messages ms read from the bus: none or one.         *)
DoMotion(ms, lost) ==
  LET p     == Parsed(ms, lost)
      goal  == Target(p.tgt)
      ok    == AllReady(p.ready)
      new   == IF ok /\ goal # p.state THEN Enter(p.state, goal) ELSE p.state
  IN  /\ inbox' = inbox \ ms
      /\ ready' = p.ready
      /\ tgt' = goal
      /\ state' = new
      /\ last' = IF ok THEN Commands(p, new, lost) ELSE p.last
      /\ order' = IF rc.park THEN "parking" ELSE IF rc.walk THEN "walking" ELSE p.order
      /\ UNCHANGED <<rc, asked>>

(* read_can_msg finds a message, or none has come in yet.                  *)
Take  == \E m \in inbox, lost \in SUBSET Drives : DoMotion({m}, lost)
Cycle == (\E lost \in SUBSET Drives : DoMotion({}, lost)) \/ Take

(* The program is started again, and so does all of the above but rc.      *)
Restart ==
  /\ state' = "off" /\ tgt' = "off"
  /\ ready' = {}
  /\ asked' \in SUBSET Drives
  /\ inbox' = {}
  /\ last' = [d \in Drives |-> "none"]
  /\ order' = "none"

Bus == \E d \in Drives : Answer(d) \/ ReportStood(d)

Next == Cycle \/ Bus \/ (\E b \in Buttons : SetRc(b))

Spec == Init /\ [][Next]_vars

(* do_motion runs every 10 ms, an answer arrives and is read, and a drive   *)
(* that has power answers.                                                 *)
Fairness == WF_vars(Cycle) /\ WF_vars(Take) /\ \A d \in Drives : WF_vars(Answer(d))
FairSpec == Spec /\ Fairness

-----------------------------------------------------------------------------
TypeOK ==
  /\ state \in {"off", "parking", "walking"}
  /\ tgt \in {"off", "parking", "walking"}
  /\ ready \in SUBSET Drives /\ asked \in SUBSET Drives
  /\ rc \in Buttons
  /\ inbox \in SUBSET Answers
  /\ last \in [Drives -> {"none", "stand", "step", "mixed"}]
  /\ order \in {"none", "parking", "walking"}

(* No leg is moved before every drive has reported, however the answers    *)
(* are late or missing and whatever is pressed meanwhile; and from then on *)
(* no leg is left out: all that the frames reached do what the state says, *)
(* a parked robot has none still stepping, a walking one none standing.    *)
LegsTogether ==
  /\ (\E d \in Drives : last[d] # "none") => ready = Drives /\ asked = {}
  /\ (\E d \in Drives : last[d] # "none") => \A d \in Drives : last[d] # "none"
  /\ state = "parking" => \A d \in Drives : last[d] \in {"stand", "mixed"}
  /\ state = "walking" => \A d \in Drives : last[d] \in {"step", "mixed"}

(* Walking and parking are always on an order given since the last drive   *)
(* reported: an earlier one is forgotten, and the newer order wins.        *)
ObeysLastOrder ==
  state # "off" => state = order

(* Drives that start_msg could not write to.                               *)
NotAsked == Drives \ (asked \cup ready \cup {m.drive : m \in inbox})

(* A button held down takes effect once the drives have answered, and for  *)
(* good, if every one was asked; that frames are lost on the bus changes   *)
(* nothing.                                                                *)
WalkIsObeyed ==
  (<>[](rc.walk /\ ~rc.park)) => <>[](state = "walking" \/ NotAsked # {})
=============================================================================
