--------------------------- MODULE ServicesProofs ---------------------------
(***************************************************************************)
(* Theorems about the components that MCServices brings together, for any  *)
(* sizes, numbers and sets: the legs, the control connections, the link    *)
(* status, the setup of the wifi cards, the telemetry and the GPS reader.  *)
(* Each part has the same form: what is invariant, that the component's    *)
(* steps keep it, and the theorem.                                         *)
(***************************************************************************)
EXTENDS MCServices, NatLemmas, FiniteSetTheorems, FunctionTheorems

(* A step of the whole is one of a component, or none, for each of them.   *)
LEMMA Together ==
  /\ Init => /\ Legs!Init /\ Gps!Init /\ Cam!Init /\ Control!Init
             /\ Tele!Init /\ Setup!Init /\ Link!Init
  /\ [Next]_vars =>
       /\ [Legs!Next]_motionVars /\ [Gps!Next]_gpsVars /\ [Cam!Next]_cameraVars
       /\ [Control!Next]_controlVars /\ [Tele!Next]_teleVars
       /\ [Setup!Next]_wifiVars /\ [Link!Next]_linkVars
<1>1. Init => /\ Legs!Init /\ Gps!Init /\ Cam!Init /\ Control!Init
              /\ Tele!Init /\ Setup!Init /\ Link!Init
  BY DEF Init
<1> SUFFICES ASSUME [Next]_vars
             PROVE  /\ [Legs!Next]_motionVars /\ [Gps!Next]_gpsVars /\ [Cam!Next]_cameraVars
                    /\ [Control!Next]_controlVars /\ [Tele!Next]_teleVars
                    /\ [Setup!Next]_wifiVars /\ [Link!Next]_linkVars
  BY <1>1
<1> USE DEF Alone, airVars, groundVars
<1>2. CASE UNCHANGED vars
  BY <1>2 DEF vars
<1>3. CASE MotionNext
  BY <1>3 DEF MotionNext, Moves
<1>4. CASE GpsNext
  BY <1>4 DEF GpsNext, Locates
<1>5. CASE CameraNext
  BY <1>5 DEF CameraNext, Films
<1>6. CASE PlayerNext
  BY <1>6 DEF PlayerNext, Plays
<1>7. CASE ControlNext
  BY <1>7 DEF ControlNext, Controls
<1>8. CASE TelemetryNext
  BY <1>8 DEF TelemetryNext, Reports
<1>9. CASE SetupNext
  BY <1>9 DEF SetupNext, SetsUp
<1>10. CASE LinkNext
  BY <1>10 DEF LinkNext, Links
<1> QED
  BY <1>2, <1>3, <1>4, <1>5, <1>6, <1>7, <1>8, <1>9, <1>10 DEF Next

-----------------------------------------------------------------------------
(* rhex_air/control/motion.c, for any set of drives, and whichever frames  *)
(* cannot be written.                                                      *)

(* Who has reported: a drive that has not answered is not ready, its       *)
(* answer is on its way at most once, and nobody reports to stand, moves   *)
(* or leaves "off" before the set is complete.                             *)
ReportInv ==
  /\ \A d \in asked : d \notin legsReady
  /\ \A m \in answers : m.kind = "status" => m.drive \notin asked \cup legsReady
  /\ \A m \in answers : m.kind = "stood" => legsReady = Drives
  /\ (\E d \in Drives : last[d] # "none") => legsReady = Drives
  /\ state # "off" => legsReady = Drives

(* The target is the last order.                                           *)
TargetInv == order = (IF tgt = "off" THEN "none" ELSE tgt)

(* Once a command was sent every leg has got one, or not got the last; and *)
(* in a state that moves, the command of that state.                       *)
CommandInv ==
  /\ (\E d \in Drives : last[d] # "none") => \A d \in Drives : last[d] # "none"
  /\ state = "parking" => \A d \in Drives : last[d] \in {"stand", "mixed"}
  /\ state = "walking" => \A d \in Drives : last[d] \in {"step", "mixed"}

LegsInv == Legs!TypeOK /\ ReportInv /\ TargetInv /\ CommandInv /\ Legs!ObeysLastOrder

LEMMA LegsInvInit == Legs!Init => LegsInv
  BY DEF Legs!Init, LegsInv, Legs!TypeOK, ReportInv, TargetInv, CommandInv, Legs!ObeysLastOrder, Legs!Buttons, Legs!Answers

(* What parse_msg leaves: either this message completes the set, and all   *)
(* starts anew with one slow step, or nothing but the drive is noted.      *)
LEMMA ParsedCases ==
  ASSUME Legs!TypeOK, ReportInv, NEW ms \in SUBSET answers, NEW lost
  PROVE  LET p == Legs!Parsed(ms, lost)
         IN  /\ p.ready \in SUBSET Drives /\ legsReady \subseteq p.ready
             /\ p.ready = legsReady \cup {m.drive : m \in ms}
             /\ \/ /\ p.ready = Drives
                   /\ p.state = "off" /\ p.tgt = "off" /\ p.order = "none"
                   /\ p.last = Legs!Sent("step", lost)
                \/ /\ p.state = state /\ p.tgt = tgt /\ p.order = order /\ p.last = last
<1>1. \A m \in ms : m.drive \in Drives
  BY DEF Legs!TypeOK, Legs!Answers
<1> QED
  BY <1>1 DEF Legs!Parsed, Legs!AllReady, Legs!TypeOK

(* The same with the definitions of do_motion folded away: what one cycle  *)
(* does, from the state parse_msg leaves.                                  *)
LEMMA LegsInvDoMotion ==
  ASSUME LegsInv, NEW ms \in SUBSET answers, NEW lost, Legs!DoMotion(ms, lost)
  PROVE  LegsInv'
<1> DEFINE p    == Legs!Parsed(ms, lost)
           goal == Legs!Target(p.tgt)
           ok   == Legs!AllReady(p.ready)
           new  == IF ok /\ goal # p.state THEN Legs!Enter(p.state, goal) ELSE p.state
<1>a. /\ answers' = answers \ ms /\ legsReady' = p.ready /\ tgt' = goal /\ state' = new
      /\ last' = (IF ok THEN Legs!Commands(p, new, lost) ELSE p.last)
      /\ order' = (IF rc.park THEN "parking" ELSE IF rc.walk THEN "walking" ELSE p.order)
      /\ rc' = rc /\ asked' = asked
  BY DEF Legs!DoMotion
<1>b. /\ p.ready \in SUBSET Drives /\ legsReady \subseteq p.ready
      /\ p.ready = legsReady \cup {m.drive : m \in ms}
      /\ \/ /\ p.ready = Drives
            /\ p.state = "off" /\ p.tgt = "off" /\ p.order = "none"
            /\ p.last = Legs!Sent("step", lost)
         \/ /\ p.state = state /\ p.tgt = tgt /\ p.order = order /\ p.last = last
  BY ParsedCases DEF LegsInv
<1>c. ok <=> p.ready = Drives
  BY DEF Legs!AllReady
<1>d. goal = (IF rc.park THEN "parking" ELSE IF rc.walk THEN "walking" ELSE p.tgt)
  BY DEF Legs!Target
<1>e. p.state # "off" => legsReady = Drives /\ ok
  BY <1>b, <1>c DEF LegsInv, ReportInv
<1>f. /\ p.state \in {"off", "parking", "walking"} /\ p.tgt \in {"off", "parking", "walking"}
      /\ p.order = (IF p.tgt = "off" THEN "none" ELSE p.tgt)
      /\ p.state # "off" => p.state = p.order
  BY <1>b DEF LegsInv, Legs!TypeOK, TargetInv, Legs!ObeysLastOrder
<1>s. \A cmd \in {"stand", "step"} :
        /\ Legs!Sent(cmd, lost) \in [Drives -> {"stand", "step", "mixed"}]
        /\ \A d \in Drives : Legs!Sent(cmd, lost)[d] \in {cmd, "mixed"}
  BY DEF Legs!Sent
<1>g. /\ p.last \in [Drives -> {"none", "stand", "step", "mixed"}]
      /\ (\E d \in Drives : p.last[d] # "none") => \A d \in Drives : p.last[d] # "none"
      /\ p.state = "parking" => \A d \in Drives : p.last[d] \in {"stand", "mixed"}
      /\ p.state = "walking" => \A d \in Drives : p.last[d] \in {"step", "mixed"}
      /\ (\E d \in Drives : p.last[d] # "none") => p.ready = Drives
  <2>1. CASE p.last = last /\ p.state = state /\ legsReady \subseteq p.ready /\ p.ready \in SUBSET Drives
    BY <2>1 DEF LegsInv, Legs!TypeOK, CommandInv, ReportInv
  <2>2. CASE p.last = Legs!Sent("step", lost) /\ p.state = "off" /\ p.ready = Drives
    <3> HIDE DEF p
    <3>1. p.last \in [Drives -> {"stand", "step", "mixed"}]
      BY <2>2, <1>s
    <3> QED
      BY <2>2, <3>1
  <2> HIDE DEF p
  <2> QED
    BY <1>b, <2>1, <2>2
<1>h. new = (IF ok /\ goal # "off" THEN goal ELSE p.state)
  BY DEF Legs!Enter
<1>i. Legs!Commands(p, new, lost) = IF new = "parking" /\ p.state # "parking" THEN Legs!Sent("stand", lost)
                               ELSE IF new = "walking" THEN Legs!Sent("step", lost) ELSE p.last
  BY DEF Legs!Commands
<1> HIDE DEF p, goal, ok, new
<1>1. TargetInv'
  BY <1>a, <1>d, <1>f DEF TargetInv
<1>2. Legs!ObeysLastOrder'
  BY <1>a, <1>d, <1>e, <1>f, <1>h DEF Legs!ObeysLastOrder
<1>3. goal \in {"off", "parking", "walking"} /\ new \in {"off", "parking", "walking"}
  BY <1>d, <1>f, <1>h
<1>4. last' \in [Drives -> {"none", "stand", "step", "mixed"}]
  <2>1. \/ last' = p.last
        \/ last' \in [Drives -> {"stand", "step", "mixed"}]
    BY <1>a, <1>i, <1>s
  <2> QED
    BY <2>1, <1>g
<1>5. Legs!TypeOK'
  <2>1. order' \in {"none", "parking", "walking"}
    BY <1>a, <1>f
  <2> QED
    BY <1>a, <1>b, <1>3, <1>4, <2>1 DEF LegsInv, Legs!TypeOK
<1>6. CommandInv'
  BY <1>a, <1>c, <1>e, <1>g, <1>h, <1>i, <1>s, <1>3 DEF CommandInv
<1>7. ReportInv'
  <2>1. \A d \in asked' : d \notin legsReady'
    <3> SUFFICES ASSUME NEW d \in asked, d \in p.ready  PROVE FALSE
      BY <1>a
    <3>1. PICK m \in ms : m.drive = d
      BY <1>b DEF LegsInv, ReportInv
    <3>2. m.kind = "status" \/ m.kind = "stood"
      BY DEF LegsInv, Legs!TypeOK, Legs!Answers
    <3> QED
      BY <3>1, <3>2 DEF LegsInv, ReportInv, Legs!TypeOK
  <2>2. ASSUME NEW m \in answers', m.kind = "status"  PROVE m.drive \notin asked' \cup legsReady'
    <3>1. m \in answers /\ m \notin ms /\ m.drive \notin asked /\ m.drive \notin legsReady
      BY <1>a, <2>2 DEF LegsInv, ReportInv
    <3>2. ASSUME m.drive \in p.ready  PROVE FALSE
      <4>1. PICK n \in ms : n.drive = m.drive
        BY <3>1, <3>2, <1>b
      <4>2. n \in answers /\ n \in Legs!Answers /\ m \in Legs!Answers
        BY <3>1 DEF LegsInv, Legs!TypeOK
      <4>3. n.kind = "stood"
        BY <4>1, <4>2, <3>1, <2>2 DEF Legs!Answers
      <4> QED
        BY <4>2, <4>3, <3>1 DEF LegsInv, ReportInv, Legs!Answers
    <3> QED
      BY <1>a, <3>1, <3>2
  <2>3. ASSUME NEW m \in answers', m.kind = "stood"  PROVE legsReady' = Drives
    BY <1>a, <1>b, <2>3 DEF LegsInv, ReportInv
  <2>4. (\E d \in Drives : last'[d] # "none") => legsReady' = Drives
    BY <1>a, <1>c, <1>g
  <2>5. state' # "off" => legsReady' = Drives
    BY <1>a, <1>c, <1>e, <1>h
  <2> QED
    BY <2>1, <2>2, <2>3, <2>4, <2>5 DEF ReportInv
<1> QED
  BY <1>1, <1>2, <1>5, <1>6, <1>7 DEF LegsInv

LEMMA LegsInvAnswer ==
  ASSUME LegsInv, NEW d \in Drives, Legs!Answer(d)
  PROVE  LegsInv'
<1> DEFINE ans == [drive |-> d, kind |-> "status"]
<1>1. Legs!TypeOK'
  BY DEF Legs!Answer, LegsInv, Legs!TypeOK, Legs!Answers
<1>2. ReportInv'
  <2>1. d \in asked /\ d \notin legsReady
    BY DEF Legs!Answer, LegsInv, ReportInv
  <2>2. answers' = answers \cup {ans} /\ asked' = asked \ {d} /\ UNCHANGED <<legsReady, last, state>>
    BY DEF Legs!Answer
  <2> QED
    BY <2>1, <2>2 DEF LegsInv, ReportInv
<1> QED
  BY <1>1, <1>2 DEF LegsInv, Legs!Answer, TargetInv, CommandInv, Legs!ObeysLastOrder

LEMMA LegsInvReportStood ==
  ASSUME LegsInv, NEW d \in Drives, Legs!ReportStood(d)
  PROVE  LegsInv'
<1>1. Legs!TypeOK'
  BY DEF Legs!ReportStood, LegsInv, Legs!TypeOK, Legs!Answers
<1>2. ReportInv'
  <2>1. legsReady = Drives
    BY DEF Legs!ReportStood, LegsInv, ReportInv
  <2> QED
    BY <2>1 DEF Legs!ReportStood, LegsInv, ReportInv
<1> QED
  BY <1>1, <1>2 DEF LegsInv, Legs!ReportStood, TargetInv, CommandInv, Legs!ObeysLastOrder

LEMMA LegsInvStep == LegsInv /\ [Legs!Next]_motionVars => LegsInv'
<1> SUFFICES ASSUME LegsInv, [Legs!Next]_motionVars  PROVE LegsInv'
  OBVIOUS
<1>1. ASSUME NEW lost, Legs!DoMotion({}, lost)  PROVE LegsInv'
  BY <1>1, LegsInvDoMotion
<1>2. ASSUME NEW m \in answers, NEW lost, Legs!DoMotion({m}, lost)  PROVE LegsInv'
  BY <1>2, LegsInvDoMotion
<1>3. ASSUME NEW b \in Legs!Buttons, Legs!SetRc(b)  PROVE LegsInv'
  BY <1>3 DEF Legs!SetRc, LegsInv, Legs!TypeOK, ReportInv, TargetInv, CommandInv, Legs!ObeysLastOrder
<1>4. CASE UNCHANGED motionVars
  BY <1>4 DEF motionVars, LegsInv, Legs!TypeOK, ReportInv, TargetInv, CommandInv, Legs!ObeysLastOrder
<1> QED
  BY <1>1, <1>2, <1>3, <1>4, LegsInvAnswer, LegsInvReportStood DEF Legs!Next, Legs!Cycle, Legs!Take, Legs!Bus


LEMMA LegsInductive == Spec => []LegsInv
  BY Together, LegsInvInit, LegsInvStep, PTL DEF Spec

(* do_motion moves no leg before every drive has reported, and then none   *)
(* is left out or does anything but what the state says, whichever frames  *)
(* could not be written.                                                   *)
THEOREM MoveTogether == Spec => []LegsTogether
<1>1. LegsInv => LegsTogether
  BY DEF LegsInv, Legs!TypeOK, ReportInv, CommandInv, LegsTogether, Legs!LegsTogether
<1> QED
  BY <1>1, LegsInductive, PTL

(* The robot walks or parks only on the last button seen.                  *)
THEOREM LastOrderObeyed == Spec => []ObeysLastOrder
<1>1. LegsInv => ObeysLastOrder
  BY DEF LegsInv, ObeysLastOrder
<1> QED
  BY <1>1, LegsInductive, PTL

-----------------------------------------------------------------------------
(* rhex_ground/rhex_control.c, for any number of connections and slots.    *)

ControlTypes ==
  /\ peer \in [Control!Conns -> {"away", "up", "deaf", "left", "reset", "gone"}]
  /\ slot \in [1 .. Slots -> Control!Conns \cup {Control!Free}]
  /\ queue \in Seq(Control!Conns)
  /\ inbox \in [Control!Conns -> Seq({"order", "other"})]
  /\ orders \in [Control!Conns -> Nat] /\ alone \in [Control!Conns -> Nat]
  /\ acks \in [Control!Conns -> Nat] /\ late \subseteq Control!Conns
  /\ ready \subseteq Control!Used

InSlot(c)  == \E i \in 1 .. Slots : slot[i] = c
InQueue(c) == \E k \in 1 .. Len(queue) : queue[k] = c

(* A connection is in one place of the queue or in one slot, and whoever   *)
(* has not connected in none.                                              *)
SlotInv ==
  /\ \A i, j \in 1 .. Slots : slot[i] = slot[j] /\ slot[i] # Control!Free => i = j
  /\ \A k, l \in 1 .. Len(queue) : queue[k] = queue[l] => k = l
  /\ \A i \in 1 .. Slots : \A k \in 1 .. Len(queue) : slot[i] # queue[k]
  /\ \A c \in Control!Conns : peer[c] = "away" => ~InSlot(c) /\ ~InQueue(c)
  /\ ~spilled => \A c \in Control!Open : InSlot(c) \/ InQueue(c)

(* What one that has not connected has neither sent nor been sent.         *)
SilentInv ==
  \A c \in Control!Conns :
    peer[c] = "away" => inbox[c] = <<>> /\ alone[c] = 0 /\ acks[c] = 0

(* An order still to be answered, an answer being written, one too many.   *)
Due(c)   == IF inbox[c] # <<>> /\ Head(inbox[c]) = "order" THEN 1 ELSE 0
Hung(c)  == IF writes = c THEN 1 ELSE 0
Extra(c) == IF c \in late THEN 1 ELSE 0

AnswerInv ==
  /\ IF pc = "write" THEN writes \in Control!Conns ELSE writes = Control!Free
  /\ \A c \in late : peer[c] = "gone"
  /\ \A c \in Control!Conns :
       /\ acks[c] + Due(c) + Hung(c) <= orders[c] + Extra(c)
       /\ c \in Control!Open => alone[c] <= acks[c] + Due(c) + Hung(c)

ControlInv == ControlTypes /\ SlotInv /\ SilentInv /\ AnswerInv

LEMMA ControlInvInit == Control!Init => ControlInv
<1> SUFFICES ASSUME Control!Init  PROVE ControlInv
  OBVIOUS
<1> USE DEF Control!Init, Control!Conns, Control!Free
<1>1. ControlTypes
  BY DEF ControlTypes
<1>2. SlotInv /\ SilentInv
  BY ServicesAssumption DEF SlotInv, SilentInv, InSlot, InQueue, Control!Open, Control!ControlAssumption
<1>3. AnswerInv
  <2>1. \A c \in Control!Conns : orders[c] = 0 /\ alone[c] = 0 /\ acks[c] = 0 /\ inbox[c] = <<>>
    OBVIOUS
  <2>2. \A c \in Control!Conns : Due(c) = 0 /\ Hung(c) = 0 /\ Extra(c) = 0
    BY <2>1 DEF Due, Hung, Extra
  <2> QED
    BY <2>1, <2>2 DEF AnswerInv
<1> QED
  BY <1>1, <1>2, <1>3 DEF ControlInv

(* __builtin_ctz(~cmask) finds a slot that is free, if there is one.       *)
LEMMA FreeSlotFree ==
  ASSUME Control!Used # 1 .. Slots
  PROVE  Control!FreeSlot \in 1 .. Slots /\ slot[Control!FreeSlot] = Control!Free
<1> DEFINE F == {i \in 1 .. Slots : slot[i] = Control!Free}
<1>1. F \in SUBSET Nat /\ F # {}
  BY DEF Control!Used
<1>2. PICK i \in F : \A j \in F : i <= j
  BY <1>1, Least
<1>3. i \in 1 .. Slots /\ slot[i] = Control!Free /\ \A j \in 1 .. i - 1 : slot[j] # Control!Free
  BY <1>2, ServicesAssumption DEF Control!ControlAssumption
<1> QED
  BY <1>3 DEF Control!FreeSlot

LEMMA PeerSteps ==
  ASSUME ControlInv, NEW c \in Control!Conns, Control!Peer(c)
  PROVE  ControlInv'
<1> USE DEF ControlInv
<1>1. CASE Control!Connect(c)
  <2> USE <1>1 DEF Control!Connect
  <2>0. /\ peer[c] = "away" /\ peer' = [peer EXCEPT ![c] = "up"] /\ queue' = Append(queue, c)
        /\ UNCHANGED <<inbox, slot, ready, pc, spilled, orders, alone, writes, acks, late>>
    BY DEF Control!peerVars, Control!ackVars
  <2>1. ControlTypes'
    BY <2>0 DEF ControlTypes, Control!Used
  <2>2. /\ Len(queue') = Len(queue) + 1 /\ Len(queue) \in Nat
        /\ \A k \in 1 .. Len(queue) : queue'[k] = queue[k]
        /\ queue'[Len(queue) + 1] = c
    BY <2>0 DEF ControlTypes
  <2>3. SlotInv'
    <3>1. \A b : InSlot(b)' = InSlot(b) /\ (InQueue(b)' <=> InQueue(b) \/ b = c)
      <4>1. \A b : InQueue(b)' => InQueue(b) \/ b = c
        BY <2>2 DEF InQueue
      <4>2. \A b : InQueue(b) => InQueue(b)'
        BY <2>2 DEF InQueue
      <4>3. InQueue(c)'
        BY <2>2 DEF InQueue
      <4>4. \A b : InSlot(b)' = InSlot(b)
        BY <2>0 DEF InSlot
      <4> QED
        BY <4>1, <4>2, <4>3, <4>4, Zenon
    <3>2. \A b \in Control!Conns : b # c => peer'[b] = peer[b]
      BY <2>0 DEF ControlTypes
    <3>3. peer'[c] = "up" /\ ~InSlot(c) /\ ~InQueue(c)
      BY <2>0 DEF ControlTypes, SlotInv
    <3>4. \A k, l \in 1 .. Len(queue') : queue'[k] = queue'[l] => k = l
      <4>1. \A k \in 1 .. Len(queue) : queue[k] # c
        BY <3>3 DEF InQueue
      <4> QED
        BY <2>2, <4>1 DEF SlotInv
    <3>5. \A i \in 1 .. Slots : \A k \in 1 .. Len(queue') : slot'[i] # queue'[k]
      <4>1. \A i \in 1 .. Slots : slot[i] # c
        BY <3>3 DEF InSlot
      <4> QED
        BY <2>0, <2>2, <4>1 DEF SlotInv
    <3>6. \A b \in Control!Conns : peer'[b] = "away" => ~InSlot(b)' /\ ~InQueue(b)'
      BY <3>1, <3>2, <3>3 DEF SlotInv
    <3>7. ~spilled' => \A b \in Control!Open' : (InSlot(b) \/ InQueue(b))'
      BY <2>0, <3>1, <3>2 DEF SlotInv, Control!Open
    <3> QED
      BY <2>0, <3>4, <3>5, <3>6, <3>7 DEF SlotInv
  <2>4. SilentInv'
    BY <2>0 DEF SilentInv, ControlTypes
  <2>5. AnswerInv'
    <3>1. \A b \in Control!Conns : Due(b)' = Due(b) /\ Hung(b)' = Hung(b) /\ Extra(b)' = Extra(b)
      BY <2>0 DEF Due, Hung, Extra
    <3>2. c \notin late /\ alone[c] = 0
      BY <2>0 DEF AnswerInv, SilentInv
    <3>3. \A b \in Control!Conns : b \in Control!Open' => b = c \/ b \in Control!Open
      BY <2>0 DEF Control!Open, ControlTypes
    <3>4. \A b \in late : peer'[b] = "gone"
      BY <2>0, <3>2 DEF AnswerInv, ControlTypes
    <3>5. acks[c] \in Nat /\ Due(c) \in Nat /\ Hung(c) \in Nat
      BY DEF ControlTypes, Due, Hung
    <3> QED
      BY <2>0, <3>1, <3>2, <3>3, <3>4, <3>5 DEF AnswerInv
  <2> QED
    BY <2>1, <2>3, <2>4, <2>5
<1>2. CASE Control!Send(c)
  <2>0. PICK m \in {"order", "other"} :
          /\ inbox' = [inbox EXCEPT ![c] = Append(@, m)]
          /\ orders' = [orders EXCEPT ![c] = IF m = "order" THEN @ + 1 ELSE @]
          /\ alone' = [alone EXCEPT ![c] = IF m = "order" /\ inbox[c] = <<>> THEN @ + 1 ELSE @]
    BY <1>2 DEF Control!Send
  <2>1. /\ c \in Control!Open
        /\ UNCHANGED <<peer, queue, slot, ready, pc, spilled, writes, acks, late>>
    BY <1>2 DEF Control!Send, Control!ackVars
  <2>2. ControlTypes'
    <3>1. inbox' \in [Control!Conns -> Seq({"order", "other"})]
      BY <2>0 DEF ControlTypes
    <3>2. orders' \in [Control!Conns -> Nat] /\ alone' \in [Control!Conns -> Nat]
      BY <2>0 DEF ControlTypes
    <3> QED
      BY <2>1, <3>1, <3>2 DEF ControlTypes, Control!Used
  <2>3. SlotInv' /\ SilentInv'
    BY <2>0, <2>1 DEF SlotInv, SilentInv, InSlot, InQueue, Control!Open
  <2>4. /\ inbox'[c] # <<>>
        /\ Head(inbox'[c]) = IF inbox[c] = <<>> THEN m ELSE Head(inbox[c])
    BY <2>0 DEF ControlTypes
  <2>5. AnswerInv'
    <3>1. \A b \in Control!Conns : Hung(b)' = Hung(b) /\ Extra(b)' = Extra(b) /\ Hung(b) \in Nat /\ Extra(b) \in Nat
      BY <2>1 DEF Hung, Extra
    <3>2. \A b \in Control!Conns \ {c} : Due(b)' = Due(b) /\ orders'[b] = orders[b] /\ alone'[b] = alone[b]
      BY <2>0 DEF ControlTypes, Due
    <3> SUFFICES \A b \in Control!Conns :
                    /\ acks[b] + Due(b)' + Hung(b) <= orders'[b] + Extra(b)
                    /\ b \in Control!Open => alone'[b] <= acks[b] + Due(b)' + Hung(b)
      BY <2>1, <3>1 DEF AnswerInv, Control!Open
    <3>0. \A b \in Control!Conns :
            /\ acks[b] \in Nat /\ orders[b] \in Nat /\ alone[b] \in Nat /\ Due(b) \in Nat
            /\ acks[b] + Due(b) + Hung(b) <= orders[b] + Extra(b)
            /\ b \in Control!Open => alone[b] <= acks[b] + Due(b) + Hung(b)
      BY DEF AnswerInv, ControlTypes, Due
    <3>3. CASE m = "order" /\ inbox[c] = <<>>
      <4>1. Due(c) = 0 /\ Due(c)' = 1 /\ orders'[c] = orders[c] + 1 /\ alone'[c] = alone[c] + 1
        BY <2>0, <2>4, <3>3 DEF ControlTypes, Due
      <4> QED
        BY <3>0, <3>1, <3>2, <4>1
    <3>4. CASE ~(m = "order" /\ inbox[c] = <<>>)
      <4>1. Due(c)' = Due(c) /\ orders'[c] >= orders[c] /\ orders'[c] \in Nat /\ alone'[c] = alone[c] /\ Due(c) \in Nat
        BY <2>0, <2>4, <3>4 DEF ControlTypes, Due
      <4> QED
        BY <3>0, <3>1, <3>2, <4>1
    <3> QED
      BY <3>3, <3>4
  <2> QED
    BY <2>2, <2>3, <2>5
<1>3. CASE Control!Deafen(c) \/ Control!Leave(c) \/ Control!Reset(c)
  <2>1. /\ \/ peer' = [peer EXCEPT ![c] = "left"]
           \/ peer' = [peer EXCEPT ![c] = "reset"]
           \/ peer' = [peer EXCEPT ![c] = "deaf"]
        /\ c \in Control!Open
        /\ UNCHANGED <<inbox, queue, slot, ready, pc, spilled, orders, alone, writes, acks, late>>
    BY <1>3 DEF Control!Deafen, Control!Leave, Control!Reset, Control!Open, Control!peerVars, Control!ackVars
  <2>2. ControlTypes'
    BY <2>1 DEF ControlTypes, Control!Used
  <2>3. /\ \A b \in Control!Conns : peer'[b] = "away" => peer[b] = "away"
        /\ \A b \in Control!Open' : b \in Control!Open
        /\ \A b \in late : peer'[b] = "gone"
    BY <2>1 DEF ControlTypes, Control!Open, AnswerInv
  <2> HIDE DEF ControlInv
  <2>4. SlotInv'
    <3>1. ~spilled => \A b \in Control!Open' : InSlot(b) \/ InQueue(b)
      BY <2>3 DEF ControlInv, SlotInv
    <3>2. \A b \in Control!Conns : peer'[b] = "away" => ~InSlot(b) /\ ~InQueue(b)
      BY <2>3 DEF ControlInv, SlotInv
    <3> QED
      BY <2>1, <3>1, <3>2 DEF ControlInv, SlotInv, InSlot, InQueue
  <2>5. SilentInv'
    <3>1. \A b \in Control!Conns :
            peer'[b] = "away" => inbox[b] = <<>> /\ alone[b] = 0 /\ acks[b] = 0
      BY <2>3 DEF ControlInv, SilentInv
    <3> QED
      BY <2>1, <3>1 DEF SilentInv
  <2>6. AnswerInv'
    <3>1. \A b \in Control!Conns : Due(b)' = Due(b) /\ Hung(b)' = Hung(b) /\ Extra(b)' = Extra(b)
      BY <2>1 DEF Due, Hung, Extra
    <3> QED
      BY <2>1, <2>3, <3>1 DEF ControlInv, AnswerInv
  <2> QED
    BY <2>2, <2>4, <2>5, <2>6 DEF ControlInv
<1> QED
  BY <1>1, <1>2, <1>3 DEF Control!Peer

LEMMA AcceptStep ==
  ASSUME ControlInv, Control!Accept
  PROVE  ControlInv'
<1>1. /\ UNCHANGED <<peer, inbox, ready, orders, alone, writes, acks, late>>
      /\ pc # "write" /\ pc' # "write"
  BY DEF Control!Accept, Control!peerVars, Control!ackVars
<1>2. SilentInv' /\ AnswerInv'
  BY <1>1 DEF ControlInv, SilentInv, AnswerInv, Due, Hung, Extra, Control!Open
<1>3. CASE queue = <<>>
  BY <1>1, <1>2, <1>3
     DEF Control!Accept, ControlInv, ControlTypes, SlotInv, InSlot, InQueue, Control!Used, Control!Open
<1>4. ASSUME queue # <<>>  PROVE ControlTypes' /\ SlotInv'
  <2>1. /\ queue' = Tail(queue) /\ Len(queue) \in Nat \ {0} /\ Len(queue') = Len(queue) - 1
        /\ \A k \in 1 .. Len(queue) - 1 : queue'[k] = queue[k + 1]
        /\ Head(queue) = queue[1] /\ queue[1] \in Control!Conns /\ queue' \in Seq(Control!Conns)
    <3>1. queue' = Tail(queue)
      BY <1>4 DEF Control!Accept
    <3>2. queue \in Seq(Control!Conns)
      BY DEF ControlInv, ControlTypes
    <3> HIDE DEF ControlInv
    <3> QED
      BY <1>4, <3>1, <3>2
  <2>2. CASE Control!Used = 1 .. Slots
    <3>1. spilled' = TRUE /\ slot' = slot
      BY <1>4, <2>2 DEF Control!Accept
    <3>2. ControlTypes'
      BY <1>1, <2>1, <3>1 DEF ControlInv, ControlTypes, Control!Used
    <3>3. SlotInv'
      BY <1>1, <2>1, <3>1 DEF ControlInv, SlotInv, InSlot, InQueue, Control!Open
    <3> QED
      BY <3>2, <3>3
  <2>3. CASE Control!Used # 1 .. Slots
    <3> DEFINE f == Control!FreeSlot
    <3>1. f \in 1 .. Slots /\ slot[f] = Control!Free
      BY <2>3, FreeSlotFree
    <3>2. slot' = [slot EXCEPT ![f] = queue[1]] /\ spilled' = spilled
      BY <1>4, <2>1, <2>3 DEF Control!Accept, Control!StoreSlot
    <3> HIDE DEF f
    <3>3. ControlTypes'
      BY <1>1, <2>1, <3>1, <3>2 DEF ControlInv, ControlTypes, Control!Used, Control!Free, Control!Conns
    <3>4. \A i \in 1 .. Slots : slot'[i] = IF i = f THEN queue[1] ELSE slot[i]
      BY <3>1, <3>2 DEF ControlInv, ControlTypes
    <3>5. \A c : InSlot(c) \/ InQueue(c) => (InSlot(c) \/ InQueue(c))' \/ c = Control!Free
      <4> SUFFICES ASSUME NEW c, InSlot(c) \/ InQueue(c), c # Control!Free
                   PROVE  (InSlot(c) \/ InQueue(c))'
        OBVIOUS
      <4>1. CASE InSlot(c)
        BY <4>1, <3>1, <3>4 DEF InSlot
      <4>2. CASE InQueue(c)
        <5>1. PICK k \in 1 .. Len(queue) : queue[k] = c
          BY <4>2 DEF InQueue
        <5>2. CASE k = 1
          BY <5>1, <5>2, <3>1, <3>4 DEF InSlot
        <5>3. CASE k # 1
          <6>1. k - 1 \in 1 .. Len(queue') /\ queue'[k - 1] = c
            BY <5>1, <5>3, <2>1
          <6> QED
            BY <6>1 DEF InQueue
        <5> QED
          BY <5>2, <5>3
      <4> QED
        BY <4>1, <4>2
    <3>6. \A c : (InSlot(c) \/ InQueue(c))' => InSlot(c) \/ InQueue(c)
      BY <2>1, <3>4 DEF InSlot, InQueue
    <3>7. SlotInv'
      <4>1. \A c \in Control!Conns : c # Control!Free
        BY DEF Control!Conns, Control!Free
      <4>2. \A i, j \in 1 .. Slots : slot'[i] = slot'[j] /\ slot'[i] # Control!Free => i = j
        BY <2>1, <3>4 DEF ControlInv, SlotInv
      <4>3. \A k, l \in 1 .. Len(queue') : queue'[k] = queue'[l] => k = l
        BY <2>1 DEF ControlInv, SlotInv
      <4>4. \A i \in 1 .. Slots : \A k \in 1 .. Len(queue') : slot'[i] # queue'[k]
        BY <2>1, <3>4 DEF ControlInv, SlotInv
      <4>5. \A c \in Control!Conns : peer'[c] = "away" => ~InSlot(c)' /\ ~InQueue(c)'
        BY <1>1, <3>6 DEF ControlInv, SlotInv
      <4>6. ~spilled' => \A c \in Control!Open' : (InSlot(c) \/ InQueue(c))'
        BY <1>1, <3>2, <3>5, <4>1 DEF ControlInv, SlotInv, Control!Open
      <4> QED
        BY <4>2, <4>3, <4>4, <4>5, <4>6 DEF SlotInv
    <3> QED
      BY <3>3, <3>7
  <2> QED
    BY <2>2, <2>3
<1> QED
  BY <1>2, <1>3, <1>4 DEF ControlInv

LEMMA ServeStep ==
  ASSUME ControlInv, Control!Serve
  PROVE  ControlInv'
<1>1. PICK i \in ready, c \in Control!Conns :
        LET next == IF ready = {i} THEN "accept" ELSE "serve"
        IN  /\ c = slot[i] /\ c # Control!Free
            /\ ready' = ready \ {i}
            /\ \/ /\ peer[c] = "reset" /\ inbox[c] = <<>>
                  /\ slot' = [slot EXCEPT ![i] = Control!Free]
                  /\ peer' = [peer EXCEPT ![c] = "gone"]
                  /\ pc' = next
                  /\ UNCHANGED <<inbox, data, writes, acks, late>>
               \/ /\ inbox[c] # <<>>
                  /\ data' = Head(inbox[c])
                  /\ inbox' = [inbox EXCEPT ![c] = <<>>]
                  /\ Control!Parse(data', c, next)
                  /\ UNCHANGED slot
               \/ /\ peer[c] \in {"left", "gone"} /\ inbox[c] = <<>>
                  /\ Control!Parse(data', c, next)
                  /\ UNCHANGED <<inbox, slot>>
  BY DEF Control!Serve, Control!ackVars, ControlInv, ControlTypes, Control!Used
<1> DEFINE next == IF ready = {i} THEN "accept" ELSE "serve"
<1>2. UNCHANGED <<queue, spilled, orders, alone>> /\ pc = "serve" /\ writes = Control!Free
  BY DEF Control!Serve, Control!peerVars, ControlInv, AnswerInv
<1>3. i \in 1 .. Slots /\ c \in Control!Conns /\ c # Control!Free
  BY <1>1 DEF ControlInv, ControlTypes, Control!Used
<1>4. peer[c] \in {"up", "deaf", "left", "reset", "gone"} /\ next # "write"
  <2>1. InSlot(c)
    BY <1>1, <1>3 DEF InSlot
  <2> QED
    BY <2>1, <1>3 DEF ControlInv, SlotInv, ControlTypes
(* What an order leads to, and anything else.                              *)
<1> DEFINE Answered == /\ peer[c] \in {"up", "deaf"} /\ peer' = peer
                       /\ acks' = [acks EXCEPT ![c] = @ + 1] /\ late' = late
                       /\ writes' = writes /\ pc' # "write"
           Blocked  == /\ peer[c] = "deaf" /\ peer' = peer
                       /\ acks' = acks /\ late' = late /\ writes' = c /\ pc' = "write"
           TooLate  == /\ peer[c] \in {"left", "reset"} /\ peer' = [peer EXCEPT ![c] = "gone"]
                       /\ acks' = [acks EXCEPT ![c] = @ + 1] /\ late' = late \cup {c}
                       /\ writes' = writes /\ pc' # "write"
           Nothing  == /\ peer' = peer /\ acks' = acks /\ late' = late
                       /\ writes' = writes /\ pc' # "write"
<1>5. ASSUME NEW m, Control!Parse(m, c, next)
      PROVE  \/ m = "order" /\ (Answered \/ Blocked \/ TooLate \/ (peer[c] = "gone" /\ Nothing))
             \/ m # "order" /\ Nothing
  <2> HIDE DEF next
  <2>1. Control!Conns = Control!Conns /\ (c \in Control!Open <=> peer[c] \in {"up", "deaf"})
    BY <1>3 DEF Control!Open
  <2>2. CASE m = "order"
    <3>1. Control!Ack(c, next)
      BY <1>5, <2>2 DEF Control!Parse
    <3> QED
      BY <1>4, <2>1, <2>2, <3>1 DEF Control!Ack, Control!ackVars
  <2>3. CASE m # "order"
    BY <1>4, <1>5, <2>3 DEF Control!Parse, Control!ackVars
  <2> QED
    BY <2>2, <2>3
<1>6. \/ /\ peer[c] = "reset" /\ inbox[c] = <<>>
         /\ slot' = [slot EXCEPT ![i] = Control!Free]
         /\ peer' = [peer EXCEPT ![c] = "gone"]
         /\ inbox' = inbox /\ acks' = acks /\ late' = late /\ writes' = writes /\ pc' # "write"
      \/ /\ inbox[c] # <<>> /\ inbox' = [inbox EXCEPT ![c] = <<>>] /\ slot' = slot
         /\ \/ /\ Head(inbox[c]) = "order"
               /\ Answered \/ Blocked \/ TooLate \/ (peer[c] = "gone" /\ Nothing)
            \/ Head(inbox[c]) # "order" /\ Nothing
      \/ /\ peer[c] \in {"left", "gone"} /\ inbox[c] = <<>> /\ inbox' = inbox /\ slot' = slot
         /\ TooLate \/ Nothing
  <2>1. CASE peer[c] = "reset" /\ slot' = [slot EXCEPT ![i] = Control!Free] /\ inbox[c] = <<>>
             /\ peer' = [peer EXCEPT ![c] = "gone"] /\ UNCHANGED <<inbox, data, writes, acks, late>>
             /\ pc' = next
    BY <1>4, <2>1
  <2>2. CASE inbox[c] # <<>> /\ data' = Head(inbox[c]) /\ inbox' = [inbox EXCEPT ![c] = <<>>]
             /\ Control!Parse(data', c, next) /\ UNCHANGED slot
    <3>1. \/ data' = "order" /\ (Answered \/ Blocked \/ TooLate \/ (peer[c] = "gone" /\ Nothing))
          \/ data' # "order" /\ Nothing
      BY <2>2, <1>5, Zenon
    <3> HIDE DEF next, Answered, Blocked, TooLate, Nothing
    <3> QED
      BY <2>2, <3>1
  <2>3. CASE peer[c] \in {"left", "gone"} /\ inbox[c] = <<>>
             /\ Control!Parse(data', c, next) /\ UNCHANGED <<inbox, slot>>
    <3>1. \/ data' = "order" /\ (Answered \/ Blocked \/ TooLate \/ (peer[c] = "gone" /\ Nothing))
          \/ data' # "order" /\ Nothing
      BY <2>3, <1>5, Zenon
    <3>2. ~Answered /\ ~Blocked
      BY <2>3
    <3> HIDE DEF next, Answered, Blocked, TooLate, Nothing
    <3> QED
      BY <2>3, <3>1, <3>2
  <2> QED
    BY <1>1, <2>1, <2>2, <2>3
<1>7. ready' = ready \ {i} /\ \A s \in 1 .. Slots : s # i => slot'[s] = slot[s]
  BY <1>1, <1>3, <1>6 DEF ControlInv, ControlTypes
<1>8. /\ peer' = peer \/ (peer' = [peer EXCEPT ![c] = "gone"] /\ peer[c] \in {"left", "reset"})
      /\ inbox' = inbox \/ inbox' = [inbox EXCEPT ![c] = <<>>]
      /\ acks' = acks \/ acks' = [acks EXCEPT ![c] = @ + 1]
      /\ late' = late \/ late' = late \cup {c}
      /\ writes' = writes \/ writes' = c
  BY <1>6
<1>9. \A s \in 1 .. Slots : slot'[s] = slot[s] \/ (s = i /\ slot'[s] = Control!Free /\ peer[c] = "reset")
  BY <1>3, <1>6 DEF ControlInv, ControlTypes
<1> HIDE DEF next
<1>10. ControlTypes'
  <2>1. peer' \in [Control!Conns -> {"away", "up", "deaf", "left", "reset", "gone"}]
    BY <1>3, <1>8 DEF ControlInv, ControlTypes
  <2>2. slot' \in [1 .. Slots -> Control!Conns \cup {Control!Free}]
    BY <1>3, <1>6 DEF ControlInv, ControlTypes
  <2>3. inbox' \in [Control!Conns -> Seq({"order", "other"})] /\ acks' \in [Control!Conns -> Nat]
    <3>1. inbox \in [Control!Conns -> Seq({"order", "other"})] /\ acks \in [Control!Conns -> Nat]
          /\ <<>> \in Seq({"order", "other"})
      BY DEF ControlInv, ControlTypes
    <3>2. inbox' \in [Control!Conns -> Seq({"order", "other"})]
      BY <1>3, <1>8, <3>1
    <3>3. acks' \in [Control!Conns -> Nat]
      BY <1>3, <1>8, <3>1
    <3> QED
      BY <3>2, <3>3
  <2>4. ready' \subseteq {s \in 1 .. Slots : slot'[s] # Control!Free}
    BY <1>7 DEF ControlInv, ControlTypes, Control!Used
  <2> QED
    BY <1>2, <1>3, <1>8, <2>1, <2>2, <2>3, <2>4 DEF ControlInv, ControlTypes, Control!Used
<1>11. /\ \A b \in Control!Conns : peer'[b] = "away" <=> peer[b] = "away"
       /\ Control!Open' = Control!Open
  <2>1. \A b \in Control!Conns : peer'[b] # peer[b] =>
          peer[b] \in {"left", "reset"} /\ peer'[b] = "gone"
    BY <1>3, <1>8 DEF ControlInv, ControlTypes
  <2> QED
    BY <2>1 DEF Control!Open
<1>12. \A b \in Control!Conns : b # Control!Free
  BY DEF Control!Conns, Control!Free
<1>13. SlotInv'
  <2>1. \A b \in Control!Conns : /\ InSlot(b)' => InSlot(b)
                                 /\ InQueue(b)' = InQueue(b)
                                 /\ InSlot(b) /\ b \in Control!Open => InSlot(b)'
    BY <1>1, <1>2, <1>3, <1>9, <1>12 DEF InSlot, InQueue, Control!Open
  <2>2. \A j, k \in 1 .. Slots : slot'[j] = slot'[k] /\ slot'[j] # Control!Free => j = k
    BY <1>9 DEF ControlInv, SlotInv
  <2>3. \A j \in 1 .. Slots : \A k \in 1 .. Len(queue) : slot'[j] # queue[k]
    <3>1. \A k \in 1 .. Len(queue) : queue[k] # Control!Free
      BY <1>12 DEF ControlInv, ControlTypes
    <3> QED
      BY <1>9, <3>1 DEF ControlInv, SlotInv
  <2>4. \A b \in Control!Conns : peer'[b] = "away" => ~InSlot(b)' /\ ~InQueue(b)'
    BY <1>11, <2>1 DEF ControlInv, SlotInv
  <2>5. ~spilled' => \A b \in Control!Open' : (InSlot(b) \/ InQueue(b))'
    <3>1. Control!Open \subseteq Control!Conns
      BY DEF Control!Open
    <3> QED
      BY <1>2, <1>11, <2>1, <3>1 DEF ControlInv, SlotInv
  <2> QED
    BY <1>2, <2>2, <2>3, <2>4, <2>5 DEF ControlInv, SlotInv
<1>14. SilentInv'
  <2>1. \A b \in Control!Conns : b # c => inbox'[b] = inbox[b] /\ acks'[b] = acks[b]
    BY <1>3, <1>8 DEF ControlInv, ControlTypes
  <2>2. peer[c] # "away"
    BY <1>4
  <2> QED
    BY <1>2, <1>11, <2>1, <2>2 DEF ControlInv, SilentInv
<1>15. AnswerInv'
  <2>1. /\ \A b \in Control!Conns \ {c} : /\ inbox'[b] = inbox[b] /\ acks'[b] = acks[b]
                                          /\ peer'[b] = peer[b]
                                          /\ b \in late' <=> b \in late
                                          /\ Hung(b)' = Hung(b)
    BY <1>2, <1>3, <1>8, <1>12 DEF ControlInv, ControlTypes, Hung
  <2>2. \A b \in Control!Conns \ {c} : Due(b)' = Due(b) /\ Extra(b)' = Extra(b)
    BY <2>1 DEF Due, Extra
  <2>3. /\ acks[c] \in Nat /\ orders[c] \in Nat /\ alone[c] \in Nat
        /\ acks[c] + Due(c) <= orders[c] + Extra(c)
        /\ peer[c] \in {"up", "deaf"} => alone[c] <= acks[c] + Due(c)
        /\ Hung(c) = 0
    BY <1>2, <1>3 DEF ControlInv, ControlTypes, AnswerInv, Hung, Due, Extra, Control!Open
  <2>4. peer[c] # "gone" => c \notin late
    BY DEF ControlInv, AnswerInv
  <2>5. /\ acks'[c] + Due(c)' + Hung(c)' <= orders[c] + Extra(c)'
        /\ peer[c] \in {"up", "deaf"} => alone[c] <= acks'[c] + Due(c)' + Hung(c)'
        /\ c \in late' => peer'[c] = "gone"
        /\ IF pc' = "write" THEN writes' \in Control!Conns ELSE writes' = Control!Free
    <3>1. (inbox'[c] = <<>>) \/ (inbox' = inbox)
      BY <1>3, <1>8 DEF ControlInv, ControlTypes
    <3>2. CASE inbox[c] = <<>>
      <4>1. inbox'[c] = <<>> /\ Due(c) = 0 /\ Due(c)' = 0
        BY <3>1, <3>2 DEF Due
      <4>2. CASE TooLate
        BY <1>2, <1>3, <2>3, <2>4, <4>1, <4>2 DEF Hung, Extra, ControlInv, ControlTypes
      <4>3. CASE Nothing
        BY <1>2, <1>3, <2>3, <2>4, <4>1, <4>3 DEF Hung, Extra, ControlInv, AnswerInv
      <4>4. CASE peer[c] = "reset" /\ peer' = [peer EXCEPT ![c] = "gone"] /\ acks' = acks
                 /\ late' = late /\ writes' = writes /\ pc' # "write"
        BY <1>2, <1>3, <2>3, <2>4, <4>1, <4>4 DEF Hung, Extra, ControlInv, ControlTypes
      <4> QED
        BY <1>6, <3>2, <4>2, <4>3, <4>4
    <3>3. CASE inbox[c] # <<>>
      <4>1. inbox'[c] = <<>> /\ Due(c)' = 0
        BY <1>3, <1>6, <3>3 DEF ControlInv, ControlTypes, Due
      <4>2. CASE Head(inbox[c]) = "order"
        <5>1. Due(c) = 1
          BY <3>3, <4>2 DEF Due
        <5>2. CASE Answered
          BY <1>2, <1>3, <2>3, <2>4, <4>1, <5>1, <5>2 DEF Hung, Extra, ControlInv, ControlTypes
        <5>3. CASE Blocked
          BY <1>2, <1>3, <2>3, <2>4, <4>1, <5>1, <5>3 DEF Hung, Extra, ControlInv, ControlTypes
        <5>4. CASE TooLate
          BY <1>2, <1>3, <2>3, <2>4, <4>1, <5>1, <5>4 DEF Hung, Extra, ControlInv, ControlTypes
        <5>5. CASE peer[c] = "gone" /\ Nothing
          BY <1>2, <1>3, <2>3, <2>4, <4>1, <5>1, <5>5 DEF Hung, Extra, ControlInv, AnswerInv
        <5> QED
          BY <1>6, <3>3, <4>2, <5>2, <5>3, <5>4, <5>5
      <4>3. CASE Head(inbox[c]) # "order"
        <5>1. Due(c) = 0 /\ Nothing
          BY <1>6, <3>3, <4>3 DEF Due
        <5> QED
          BY <1>2, <1>3, <2>3, <2>4, <4>1, <5>1 DEF Hung, Extra, ControlInv, AnswerInv
      <4> QED
        BY <4>2, <4>3
    <3> QED
      BY <3>2, <3>3
  <2>6. c \in Control!Open <=> peer[c] \in {"up", "deaf"}
    BY <1>3 DEF Control!Open
  <2>7. late' \subseteq late \cup {c}
    BY <1>6
  <2>8. \A b \in Control!Conns :
          /\ acks'[b] + Due(b)' + Hung(b)' <= orders'[b] + Extra(b)'
          /\ b \in Control!Open' => alone'[b] <= acks'[b] + Due(b)' + Hung(b)'
    BY <1>2, <1>11, <2>1, <2>2, <2>5, <2>6 DEF ControlInv, AnswerInv
  <2>9. \A b \in late' : peer'[b] = "gone"
    <3>1. \A b \in late : b \in Control!Conns
      BY DEF ControlInv, AnswerInv, ControlTypes
    <3> QED
      BY <2>1, <2>5, <2>7, <3>1 DEF ControlInv, AnswerInv
  <2> QED
    BY <2>5, <2>8, <2>9 DEF AnswerInv
<1> QED
  BY <1>10, <1>13, <1>14, <1>15 DEF ControlInv

LEMMA WriteEndsStep ==
  ASSUME ControlInv, Control!WriteEnds
  PROVE  ControlInv'
<1>0. PICK c : c = writes
  OBVIOUS
<1>1. /\ peer[c] = "reset" /\ peer' = [peer EXCEPT ![c] = "gone"]
      /\ writes' = Control!Free /\ late' = late \cup {c} /\ pc' # "write" /\ c \in Control!Conns
      /\ UNCHANGED <<queue, inbox, slot, ready, spilled, orders, alone, acks>>
  BY <1>0 DEF Control!WriteEnds, Control!peerVars, ControlInv, AnswerInv
<1>2. ControlTypes'
  BY <1>1 DEF ControlInv, ControlTypes, Control!Used
<1>3. /\ \A b \in Control!Conns : peer'[b] = "away" => peer[b] = "away"
      /\ \A b \in Control!Open' : b \in Control!Open
  BY <1>1 DEF ControlInv, ControlTypes, Control!Open
<1>4. SlotInv'
  <2>1. \A b : InSlot(b)' = InSlot(b) /\ InQueue(b)' = InQueue(b)
    BY <1>1 DEF InSlot, InQueue
  <2> QED
    BY <1>1, <1>3, <2>1 DEF ControlInv, SlotInv
<1>5. SilentInv'
  BY <1>1, <1>3 DEF ControlInv, SilentInv
<1>6. AnswerInv'
  <2>1. \A b \in Control!Conns : Due(b)' = Due(b)
    BY <1>1 DEF Due
  <2>2. \A b \in Control!Conns : Hung(b)' = 0 /\ (b # c => Hung(b) = 0 /\ Extra(b)' = Extra(b))
    BY <1>0, <1>1 DEF Hung, Extra, Control!Conns, Control!Free
  <2>3. c \in Control!Conns => Extra(c)' = 1 /\ Hung(c) = 1 /\ Extra(c) \in {0, 1}
    BY <1>0, <1>1 DEF Hung, Extra
  <2>4. \A b \in late' : peer'[b] = "gone"
    BY <1>1 DEF ControlInv, AnswerInv, ControlTypes
  <2>5. \A b \in Control!Conns : b # c \/ b \notin Control!Open
    BY <1>1 DEF Control!Open
  <2>6. \A b \in Control!Conns : acks[b] \in Nat /\ orders[b] \in Nat /\ alone[b] \in Nat
                                 /\ Due(b) \in {0, 1} /\ Extra(b) \in {0, 1}
    BY DEF ControlInv, ControlTypes, Due, Extra
  <2>7. \A b \in Control!Conns :
          /\ acks'[b] + Due(b)' + Hung(b)' <= orders'[b] + Extra(b)'
          /\ b \in Control!Open' => alone'[b] <= acks'[b] + Due(b)' + Hung(b)'
    BY <1>1, <1>3, <2>1, <2>2, <2>3, <2>5, <2>6 DEF ControlInv, AnswerInv
  <2> QED
    BY <1>1, <2>4, <2>7 DEF AnswerInv
<1> QED
  BY <1>2, <1>4, <1>5, <1>6 DEF ControlInv

LEMMA ControlInvStep == ControlInv /\ [Control!Next]_controlVars => ControlInv'
<1> SUFFICES ASSUME ControlInv, [Control!Next]_controlVars  PROVE ControlInv'
  OBVIOUS
<1>1. CASE Control!Select
  <2>1. /\ UNCHANGED <<peer, queue, inbox, slot, spilled, orders, alone, writes, acks, late>>
        /\ ready' \subseteq Control!Used /\ pc # "write" /\ pc' # "write"
    BY <1>1 DEF Control!Select, Control!Watched, Control!peerVars, Control!ackVars
  <2> QED
    BY <2>1 DEF ControlInv, ControlTypes, SlotInv, SilentInv, InSlot, InQueue, AnswerInv, Due, Hung, Extra,
                Control!Open, Control!Used
<1>2. CASE UNCHANGED controlVars
  BY <1>2 DEF controlVars, ControlInv, ControlTypes, SlotInv, SilentInv, InSlot, InQueue, AnswerInv, Due,
              Hung, Extra, Control!Open, Control!Used
<1> QED
  BY <1>1, <1>2, PeerSteps, AcceptStep, ServeStep, WriteEndsStep DEF Control!Next, Control!Service

LEMMA ControlInductive == Spec => []ControlInv
  BY Together, ControlInvInit, ControlInvStep, PTL DEF Spec

(* Until a connection too many is made, a peer that is there waits for     *)
(* accept() or has a slot, and never two.                                  *)
THEOREM EachItsSlot == Spec => []OneSlotEach
<1>1. ControlInv => OneSlotEach
  <2> SUFFICES ASSUME ControlInv, ~spilled, NEW c \in Control!Conns
               PROVE  /\ c \in Control!Open => InSlot(c) \/ InQueue(c)
                      /\ \A i, j \in 1 .. Slots : slot[i] = c /\ slot[j] = c => i = j
    BY DEF OneSlotEach, Control!OneSlotEach, InSlot, InQueue
  <2>1. c # Control!Free
    BY DEF Control!Conns, Control!Free
  <2> QED
    BY <2>1 DEF ControlInv, SlotInv
<1> QED
  BY <1>1, ControlInductive, PTL

(* Nobody is acknowledged more than it ordered, but once one that closed;  *)
(* and an order sent when nothing else of that peer waited is acknowledged,*)
(* whoever else connects, sends, goes deaf or closes.                      *)
THEOREM EachItsAnswer == Spec => []AnsweredOnce
<1>1. ControlInv => AnsweredOnce
  <2> SUFFICES ASSUME ControlInv  PROVE AnsweredOnce
    OBVIOUS
  <2>1. \A c \in Control!Conns : acks[c] \in Nat /\ orders[c] \in Nat /\ Due(c) \in Nat /\ Hung(c) \in Nat
    BY DEF ControlInv, ControlTypes, Due, Hung
  <2>2. \A c \in Control!Conns : acks[c] <= orders[c] + Extra(c)
    BY <2>1 DEF ControlInv, AnswerInv, Extra
  <2> QED
    BY <2>1, <2>2 DEF ControlInv, AnswerInv, AnsweredOnce, Control!AnsweredOnce, Due, Hung, Extra
<1> QED
  BY <1>1, ControlInductive, PTL

-----------------------------------------------------------------------------
(* rhex_ground/rssi_rx.c, rhex_telemetry_rx.c, qgc_forward.c and main.c,   *)
(* for any number of runs of the ground program.                           *)

(* Services write only the records of their own segments, and none runs    *)
(* before main has initialised them all.                                   *)
WriterInv ==
  /\ record \in [Link!Statuses -> Nat] /\ shown \in [Link!Statuses -> Nat] /\ lRun \in Nat
  /\ step \in {"rssi", "telemetry", "video", "rc_tx", "fork", "up", "ended"}
  /\ here \subseteq Link!Segs
  /\ mapped \in [Link!Processes -> SUBSET Link!Segs]
  /\ svc \in [Link!Processes -> {"none", "starts", "runs", "over", "crashed"}]
  /\ kept \in [Link!Statuses -> Nat]
  /\ step # "up" => \A p \in Link!Processes : svc[p] = "none"
  /\ step = "rssi" => failed = {}

(* What main has initialised without a failure exists, and, but for the    *)
(* status of the robot, holds a record of this run.                        *)
RecordInv ==
  failed = {} =>
    /\ step # "rssi" => {"tx", "sysair"} \subseteq here
    /\ step \notin {"rssi", "telemetry"} => "rc" \in here /\ record["rc"] = lRun
    /\ step \notin {"rssi", "telemetry", "video"} =>
         "video" \in here /\ ("video" \notin unlisted => record["video"] = lRun)
    /\ svc["qgc"] = "runs" => Link!Statuses \subseteq mapped["qgc"]

LinkStatusInv == WriterInv /\ RecordInv /\ OfThisRun

LEMMA LinkInvInit == Link!Init => LinkStatusInv
  BY DEF Link!Init, LinkStatusInv, WriterInv, RecordInv, OfThisRun, Link!OfThisRun,
         Link!Statuses, Link!Segs, Link!Processes

(* shm_map_init shows what the slot has kept, shm_map_write what is        *)
(* written; other records stay, and no segment goes away.                  *)
LEMMA Stored ==
  ASSUME WriterInv, NEW is, NEW ws, Link!Store(is, ws)
  PROVE  /\ here' = here \cup is
         /\ record' \in [Link!Statuses -> Nat] /\ kept' \in [Link!Statuses -> Nat]
         /\ \A s \in Link!Statuses :
              record'[s] = IF s \in ws THEN lRun ELSE IF s \in is THEN kept[s] ELSE record[s]
<1>1. here' = here \cup is
  BY DEF Link!Store
<1>2. record' = [s \in Link!Statuses |-> CASE s \in ws -> lRun
                                           [] s \in is \ ws -> kept[s]
                                           [] OTHER -> record[s]]
  BY DEF Link!Store
<1>3. \A s \in Link!Statuses :
         record'[s] = IF s \in ws THEN lRun ELSE IF s \in is THEN kept[s] ELSE record[s]
  BY <1>2
<1>4. record' \in [Link!Statuses -> Nat]
  <2>1. \A s \in Link!Statuses : record'[s] \in Nat
    BY <1>3 DEF WriterInv
  <2> QED
    BY <1>2, <2>1
<1>5. kept' \in [Link!Statuses -> Nat]
  BY DEF Link!Store, WriterInv
<1> QED
  BY <1>1, <1>3, <1>4, <1>5

(* Before the services start nothing is shown, and nothing crashes.        *)
LEMMA MainShowsNothing ==
  ASSUME LinkStatusInv, step # "up", failed' = {} => failed = {},
         UNCHANGED <<lRun, shown>>, unlisted \subseteq unlisted',
         svc' = svc \/ svc'["qgc"] = "starts"
  PROVE  OfThisRun'
<1>1. svc["qgc"] = "none"
  BY DEF LinkStatusInv, WriterInv, Link!Processes
<1>2. svc'["qgc"] # "crashed"
  BY <1>1
<1> QED
  BY <1>2 DEF LinkStatusInv, OfThisRun, Link!OfThisRun

LEMMA LinkInvMain ==
  ASSUME LinkStatusInv, Link!Main
  PROVE  LinkStatusInv'
<1> USE DEF Link!Statuses, Link!Segs, Link!Processes
<1>1. CASE Link!InitRssi
  <2>1. PICK ok \in {{"tx", "sysair"}, {"tx"}, {}} :
          failed' = {"tx", "sysair"} \ ok /\ Link!Store(ok, {})
    BY <1>1 DEF Link!InitRssi
  <2>2. step = "rssi" /\ step' = "telemetry" /\ UNCHANGED <<lRun, unlisted, mapped, svc, shown>>
    BY <1>1 DEF Link!InitRssi
  <2>3. here' = here \cup ok /\ record' \in [Link!Statuses -> Nat] /\ kept' \in [Link!Statuses -> Nat]
    BY <2>1, Stored DEF LinkStatusInv
  <2>4. WriterInv'
    BY <2>2, <2>3 DEF LinkStatusInv, WriterInv
  <2>5. RecordInv'
    BY <2>1, <2>2, <2>3 DEF LinkStatusInv, WriterInv, RecordInv
  <2>6. OfThisRun'
    BY <2>2, MainShowsNothing DEF LinkStatusInv, WriterInv
  <2> QED
    BY <2>4, <2>5, <2>6 DEF LinkStatusInv
<1>2. CASE Link!InitTelemetry
  <2>1. step = "telemetry" /\ step' = "video" /\ UNCHANGED <<lRun, unlisted, svc, shown>>
    BY <1>2 DEF Link!InitTelemetry
  <2>2. CASE Link!Store({"rc"}, {"rc"}) /\ mapped' = [mapped EXCEPT !["telemetry"] = {"rc"}]
             /\ failed' = failed
    <3>1. /\ here' = here \cup {"rc"} /\ record'["rc"] = lRun
          /\ record' \in [Link!Statuses -> Nat] /\ kept' \in [Link!Statuses -> Nat]
      BY <2>2, Stored DEF LinkStatusInv
    <3>2. WriterInv'
      BY <2>1, <2>2, <3>1 DEF LinkStatusInv, WriterInv
    <3>3. RecordInv'
      BY <2>1, <2>2, <3>1 DEF LinkStatusInv, WriterInv, RecordInv
    <3> QED
      BY <2>1, <2>2, <3>2, <3>3, MainShowsNothing DEF LinkStatusInv
  <2>3. CASE failed' = failed \cup {"rc"} /\ UNCHANGED <<here, record, kept, mapped>>
    <3>1. WriterInv'
      BY <2>1, <2>3 DEF LinkStatusInv, WriterInv
    <3>2. failed' # {}
      BY <2>3
    <3> QED
      BY <3>1, <3>2 DEF LinkStatusInv, RecordInv, OfThisRun, Link!OfThisRun
  <2> QED
    BY <1>2, <2>2, <2>3 DEF Link!InitTelemetry, Link!segVars
<1>3. CASE Link!InitVideo
  <2>1. /\ step = "video" /\ step' \in {"rc_tx", "ended"} /\ UNCHANGED <<lRun, svc, shown>>
        /\ unlisted \subseteq unlisted' /\ (failed' = {} => failed = {})
        /\ mapped' = [mapped EXCEPT !["video"] = {"video"} \ failed']
    BY <1>3 DEF Link!InitVideo
  <2>2. mapped' \in [Link!Processes -> SUBSET Link!Segs] /\ mapped'["qgc"] = mapped["qgc"]
    BY <2>1 DEF LinkStatusInv, WriterInv
  <2>3. OfThisRun'
    BY <2>1, MainShowsNothing
  <2>4. CASE Link!Store({"video"}, {"video"}) \/ (Link!Store({"video"}, {}) /\ "video" \in unlisted')
    <3>1. /\ here' = here \cup {"video"} /\ ("video" \notin unlisted' => record'["video"] = lRun)
          /\ record'["rc"] = record["rc"]
          /\ record' \in [Link!Statuses -> Nat] /\ kept' \in [Link!Statuses -> Nat]
      BY <2>4, Stored DEF LinkStatusInv
    <3>2. WriterInv'
      BY <2>1, <2>2, <3>1 DEF LinkStatusInv, WriterInv
    <3>3. RecordInv'
      BY <2>1, <2>2, <3>1 DEF LinkStatusInv, WriterInv, RecordInv
    <3> QED
      BY <2>3, <3>2, <3>3 DEF LinkStatusInv
  <2>5. CASE failed' = failed \cup {"video"} /\ UNCHANGED <<here, record, kept>>
    <3>1. WriterInv'
      BY <2>1, <2>2, <2>5 DEF LinkStatusInv, WriterInv
    <3>2. failed' # {}
      BY <2>5
    <3> QED
      BY <2>3, <3>1, <3>2 DEF LinkStatusInv, RecordInv
  <2> QED
    BY <1>3, <2>4, <2>5 DEF Link!InitVideo, Link!segVars
<1>4. CASE Link!InitRcTx
  <2>1. step = "rc_tx" /\ step' = "fork" /\ UNCHANGED <<lRun, unlisted, failed, mapped, svc, shown>>
    BY <1>4 DEF Link!InitRcTx
  <2>2. /\ here \subseteq here' /\ here' \subseteq Link!Segs
        /\ \A s \in Link!Statuses : record'[s] = record[s]
        /\ record' \in [Link!Statuses -> Nat] /\ kept' \in [Link!Statuses -> Nat]
    <3>1. CASE Link!Store({"tx"}, {})
      <4>1. /\ here' = here \cup {"tx"}
            /\ record' \in [Link!Statuses -> Nat] /\ kept' \in [Link!Statuses -> Nat]
            /\ \A s \in Link!Statuses :
                 record'[s] = IF s \in {} THEN lRun ELSE IF s \in {"tx"} THEN kept[s] ELSE record[s]
        BY <3>1, Stored DEF LinkStatusInv
      <4> QED
        BY <4>1 DEF LinkStatusInv, WriterInv
    <3>2. CASE UNCHANGED <<here, record, kept>>
      BY <3>2 DEF LinkStatusInv, WriterInv
    <3> QED
      BY <1>4, <3>1, <3>2 DEF Link!InitRcTx, Link!segVars
  <2>3. WriterInv'
    BY <2>1, <2>2 DEF LinkStatusInv, WriterInv
  <2>4. RecordInv'
    BY <2>1, <2>2 DEF LinkStatusInv, WriterInv, RecordInv
  <2> QED
    BY <2>1, <2>3, <2>4, MainShowsNothing DEF LinkStatusInv
<1>5. CASE Link!Fork
  <2>1. /\ step = "fork" /\ step' = "up" /\ svc' = [p \in Link!Processes |-> "starts"]
        /\ UNCHANGED <<lRun, unlisted, here, record, kept, failed, mapped, shown>>
    BY <1>5 DEF Link!Fork, Link!segVars
  <2>2. WriterInv'
    BY <2>1 DEF LinkStatusInv, WriterInv
  <2>3. RecordInv'
    BY <2>1 DEF LinkStatusInv, WriterInv, RecordInv
  <2> QED
    BY <2>1, <2>2, <2>3, MainShowsNothing DEF LinkStatusInv
<1> QED
  BY <1>1, <1>2, <1>3, <1>4, <1>5 DEF Link!Main

(* A service that writes gives its readers a record of this run.           *)
LEMMA LinkInvWrite ==
  ASSUME LinkStatusInv, step = "up", NEW ws, Link!Store({}, ws),
         UNCHANGED <<lRun, step, failed, shown>>, unlisted \subseteq unlisted',
         svc'["qgc"] = svc["qgc"], mapped'["qgc"] = mapped["qgc"], mapped' \in [Link!Processes -> SUBSET Link!Segs],
         svc' \in [Link!Processes -> {"none", "starts", "runs", "over", "crashed"}]
  PROVE  LinkStatusInv'
<1> USE DEF Link!Statuses
<1>1. /\ here' = here
      /\ record' \in [Link!Statuses -> Nat] /\ kept' \in [Link!Statuses -> Nat]
      /\ \A s \in Link!Statuses : record'[s] = lRun \/ record'[s] = record[s]
  BY Stored DEF LinkStatusInv
<1>2. WriterInv'
  BY <1>1 DEF LinkStatusInv, WriterInv
<1>3. RecordInv'
  BY <1>1 DEF LinkStatusInv, RecordInv
<1>4. OfThisRun'
  BY DEF LinkStatusInv, OfThisRun, Link!OfThisRun
<1> QED
  BY <1>2, <1>3, <1>4 DEF LinkStatusInv

LEMMA LinkInvStep == LinkStatusInv /\ [Link!Next]_linkVars => LinkStatusInv'
<1> SUFFICES ASSUME LinkStatusInv, [Link!Next]_linkVars  PROVE LinkStatusInv'
  OBVIOUS
<1>0. \A p \in Link!Processes : svc[p] # "none" => step = "up"
  BY DEF LinkStatusInv, WriterInv
<1>a. {"rssi", "telemetry", "qgc", "video"} = Link!Processes
  BY DEF Link!Processes
(* A service begins: what it maps is of its own, but for qgc_forward.      *)
<1>1. ASSUME NEW p \in Link!Processes, NEW st \in {"runs", "over"}, NEW segs \in SUBSET Link!Segs,
             Link!Begin(p, st, segs), unlisted \subseteq unlisted',
             p = "qgc" => segs = here,
             \/ UNCHANGED <<here, record, kept>>
             \/ p # "qgc" /\ Link!Store({}, segs)
      PROVE  LinkStatusInv'
  <2>1. /\ step = "up" /\ svc[p] = "starts" /\ UNCHANGED <<lRun, step, failed, shown>>
        /\ svc' = [svc EXCEPT ![p] = st] /\ mapped' = [mapped EXCEPT ![p] = segs]
    BY <1>0, <1>1 DEF Link!Begin
  <2>2. /\ svc' \in [Link!Processes -> {"none", "starts", "runs", "over", "crashed"}]
        /\ mapped' \in [Link!Processes -> SUBSET Link!Segs]
    BY <2>1 DEF LinkStatusInv, WriterInv
  <2>3. CASE p # "qgc" /\ Link!Store({}, segs)
    <3>1. svc'["qgc"] = svc["qgc"] /\ mapped'["qgc"] = mapped["qgc"]
      BY <1>a, <2>1, <2>3 DEF LinkStatusInv, WriterInv
    <3> QED
      BY <1>1, <2>1, <2>2, <2>3, <3>1, LinkInvWrite
  <2>4. CASE UNCHANGED <<here, record, kept>>
    <3>1. WriterInv'
      BY <2>1, <2>2, <2>4 DEF LinkStatusInv, WriterInv
    <3>2. RecordInv'
      <4> SUFFICES ASSUME failed = {}  PROVE RecordInv'
        BY <2>1 DEF RecordInv
      <4>1. svc'["qgc"] = "runs" => Link!Statuses \subseteq mapped'["qgc"]
        <5>1. CASE p = "qgc"
          BY <1>1, <1>a, <2>1, <5>1 DEF LinkStatusInv, WriterInv, RecordInv, Link!Statuses
        <5>2. CASE p # "qgc"
          BY <1>a, <2>1, <5>2 DEF LinkStatusInv, WriterInv, RecordInv
        <5> QED
          BY <5>1, <5>2
      <4> QED
        BY <1>1, <2>1, <2>4, <4>1 DEF LinkStatusInv, RecordInv
    <3>3. OfThisRun'
      BY <1>1, <1>a, <2>1 DEF LinkStatusInv, WriterInv, OfThisRun, Link!OfThisRun
    <3> QED
      BY <3>1, <3>2, <3>3 DEF LinkStatusInv
  <2> QED
    BY <1>1, <2>3, <2>4
<1>b. \A p \in Link!Processes : mapped[p] \in SUBSET Link!Segs
  BY DEF LinkStatusInv, WriterInv
<1>c. ASSUME NEW p \in Link!Processes \ {"qgc"}, Link!Unlisted(p)  PROVE LinkStatusInv'
  BY <1>1, <1>b, <1>c DEF Link!Unlisted, Link!segVars
<1>d. CASE Link!StartRssi
  <2>1. "rssi" \in Link!Processes \ {"qgc"} /\ {"tx", "sysair"} \in SUBSET Link!Segs
    BY <1>a DEF Link!Segs, Link!Statuses
  <2>2. CASE Link!Unlisted("rssi")
    BY <1>c, <2>1, <2>2
  <2>3. CASE /\ Link!Begin("rssi", "runs", {"tx", "sysair"})
             /\ Link!Store({}, {"tx", "sysair"}) /\ UNCHANGED unlisted
    BY <1>1, <2>1, <2>3
  <2>4. CASE Link!Begin("rssi", "over", mapped["rssi"]) /\ UNCHANGED <<unlisted, here, record, kept>>
    BY <1>1, <1>b, <2>1, <2>4
  <2> QED
    BY <1>d, <2>2, <2>3, <2>4 DEF Link!StartRssi, Link!segVars
<1>2. ASSUME NEW p \in Link!Processes, Link!StartOther(p)  PROVE LinkStatusInv'
  <2>1. CASE p = "telemetry" /\ Link!Unlisted(p)
    BY <1>c, <2>1
  <2>2. CASE /\ Link!Begin(p, "runs", IF p = "qgc" THEN here ELSE mapped[p])
             /\ UNCHANGED <<unlisted, here, record, kept>>
    <3>1. (IF p = "qgc" THEN here ELSE mapped[p]) \in SUBSET Link!Segs
      BY <1>b DEF LinkStatusInv, WriterInv
    <3> QED
      BY <1>1, <2>2, <3>1
  <2> QED
    BY <1>2, <2>1, <2>2 DEF Link!StartOther, Link!segVars
<1>3. ASSUME NEW p \in Link!Processes, Link!Update(p)  PROVE LinkStatusInv'
  <2>1. /\ step = "up" /\ p # "qgc" /\ UNCHANGED <<lRun, unlisted, step, failed, mapped, shown>>
    BY <1>0, <1>3 DEF Link!Update
  <2>2. svc' \in [Link!Processes -> {"none", "starts", "runs", "over", "crashed"}]
    BY <1>3 DEF Link!Update, LinkStatusInv, WriterInv
  <2>3. CASE Link!Store({}, mapped[p]) /\ UNCHANGED svc
    BY <1>b, <2>1, <2>2, <2>3, LinkInvWrite DEF LinkStatusInv, WriterInv
  <2>4. CASE svc' = [svc EXCEPT ![p] = "crashed"] /\ UNCHANGED <<here, record, kept>>
    <3>1. svc'["qgc"] = svc["qgc"]
      BY <1>a, <2>1, <2>4 DEF LinkStatusInv, WriterInv
    <3> QED
      BY <2>1, <2>2, <2>4, <3>1 DEF LinkStatusInv, WriterInv, RecordInv, OfThisRun, Link!OfThisRun
  <2> QED
    BY <1>3, <2>3, <2>4 DEF Link!Update, Link!segVars
<1>4. CASE Link!Display
  <2>1. /\ step = "up" /\ svc["qgc"] = "runs"
        /\ UNCHANGED <<lRun, unlisted, here, record, kept, step, failed, mapped>>
    BY <1>0, <1>4, <1>a DEF Link!Display, Link!segVars
  <2>2. CASE Link!Statuses \subseteq mapped["qgc"] /\ shown' = record /\ svc' = svc
    <3>1. WriterInv' /\ RecordInv'
      BY <2>1, <2>2 DEF LinkStatusInv, WriterInv, RecordInv
    <3>2. OfThisRun'
      BY <2>1, <2>2 DEF LinkStatusInv, RecordInv, OfThisRun, Link!OfThisRun
    <3> QED
      BY <3>1, <3>2 DEF LinkStatusInv
  <2>3. CASE /\ ~(Link!Statuses \subseteq mapped["qgc"])
             /\ svc' = [svc EXCEPT !["qgc"] = "crashed"] /\ shown' = shown
    <3>1. failed # {}
      BY <2>1, <2>3 DEF LinkStatusInv, RecordInv
    <3>2. WriterInv'
      BY <2>1, <2>3 DEF LinkStatusInv, WriterInv
    <3> QED
      BY <2>1, <3>1, <3>2 DEF LinkStatusInv, RecordInv, OfThisRun, Link!OfThisRun
  <2> QED
    BY <1>4, <2>2, <2>3 DEF Link!Display
<1>5. CASE Link!Restart
  <2>1. /\ lRun' = lRun + 1 /\ step' = "rssi" /\ failed' = {}
        /\ mapped' = [p \in Link!Processes |-> {}] /\ svc' = [p \in Link!Processes |-> "none"]
        /\ shown' = [s \in Link!Statuses |-> 0] /\ UNCHANGED <<here, record, kept>>
    BY <1>5 DEF Link!Restart, Link!segVars
  <2>2. WriterInv'
    BY <2>1 DEF LinkStatusInv, WriterInv
  <2>3. RecordInv'
    BY <2>1, <1>a DEF RecordInv
  <2>4. OfThisRun'
    BY <2>1, <1>a DEF OfThisRun, Link!OfThisRun, Link!Statuses
  <2> QED
    BY <2>2, <2>3, <2>4 DEF LinkStatusInv
<1>6. CASE UNCHANGED linkVars
  BY <1>6 DEF linkVars, LinkStatusInv, WriterInv, RecordInv, OfThisRun, Link!OfThisRun
<1> QED
  BY <1>d, <1>2, <1>3, <1>4, <1>5, <1>6, LinkInvMain DEF Link!Next, Link!Start

LEMMA LinkInductive == Spec => []LinkStatusInv
  BY Together, LinkInvInit, LinkInvStep, PTL DEF Spec

(* When no shm_map_init of this run has failed, the operator is shown no   *)
(* telemetry status of an earlier run, nor, if wfb_rx_init did not fail in *)
(* video_init, a video status of one: whatever the order the services      *)
(* start in and however often the program has run before.                  *)
THEOREM NothingOfEarlierRuns == Spec => []OfThisRun
<1>1. LinkStatusInv => OfThisRun
  BY DEF LinkStatusInv
<1> QED
  BY <1>1, LinkInductive, PTL

-----------------------------------------------------------------------------
(* setup_wfb and libnetlink, for any number of cards and services, and     *)
(* however often the kernel refuses or recvmsg fails.                      *)

Datagrams == {"ack", "error", "links", "last", "done"}
Listing   == {"family", "list", "collect"}
Setting   == {"next", "down", "monitor", "up", "freq"}

SetupTypes ==
  /\ wStep \in Listing \cup Setting \cup {"over"} /\ kernel \in {"joined", "apart"}
  /\ wQueue \in [Setup!Sockets -> Seq(Datagrams)] /\ dump \in [Setup!Sockets -> Int]
  /\ wAsked \in [{"gen", "route"} -> Seq(BOOLEAN)] /\ slips \in [{"gen", "route"} -> Nat]

(* The requests of main on socket s that the kernel has refused.           *)
Denied(s) == {n \in 1 .. Len(wAsked[s]) : wAsked[s][n] = TRUE}

(* What waits at a socket are the replies to the last requests on it, as   *)
(* many as were not read where they were due, and the refusals are still   *)
(* among them: reading one would have ended the setup.                     *)
Unread(s) ==
  /\ Len(wQueue[s]) = slips[s]
  /\ \A n \in Denied(s) :
       /\ n > Len(wAsked[s]) - slips[s]
       /\ wQueue[s][n - (Len(wAsked[s]) - slips[s])] = "error"

(* What waits for nl_get_wlan_list: the ACK nl_get_family has left, and    *)
(* the list, whose end comes with its only part or after it.               *)
Listed ==
  LET q == wQueue["gen"]
  IN  \/ kernel = "joined" /\ dump["gen"] = 0 /\ Len(q) = 2 /\ q[1] = "ack" /\ q[2] = "last"
      \/ kernel = "joined" /\ dump["gen"] = 0 /\ Len(q) = 1 /\ q[1] = "last"
      \/ kernel = "apart" /\ dump["gen"] = 1 /\ Len(q) = 2 /\ q[1] = "ack" /\ q[2] = "links"
      \/ kernel = "apart" /\ dump["gen"] = 0 /\ Len(q) = 2 /\ q[1] = "links" /\ q[2] = "done"
      \/ kernel = "apart" /\ dump["gen"] = 0 /\ Len(q) = 1 /\ q[1] = "done"

ListInv ==
  wStep \in Listing =>
    /\ \A s \in {"gen", "route"} : wAsked[s] = <<>> /\ slips[s] = 0
    /\ wQueue["route"] = <<>>
    /\ wStep = "family" => wQueue["gen"] = <<>> /\ dump["gen"] = 0
    /\ wStep = "list" => Len(wQueue["gen"]) = 1 /\ wQueue["gen"][1] = "ack" /\ dump["gen"] = 0
    /\ wStep = "collect" => Listed

SetupInv ==
  /\ wStep # "over" => /\ SetupTypes /\ ListInv
                       /\ wStep \in Setting => Unread("gen") /\ Unread("route")
                       /\ \A p \in Setup!Listers : wSvc[p] = "none"

LEMMA SetupInvInit == Setup!Init => SetupInv
<1> SUFFICES ASSUME Setup!Init  PROVE SetupInv
  OBVIOUS
<1> USE DEF Setup!Init, Setup!Sockets
<1>1. SetupTypes
  BY ServicesAssumption DEF SetupTypes, Listing, Setting, Datagrams, Setup!SetupAssumption
<1>2. ListInv /\ wStep \notin Setting
  BY DEF ListInv, Listing, Setting
<1> QED
  BY <1>1, <1>2 DEF SetupInv, Setting

(* One entry of a function is changed.                                     *)
LEMMA Changed ==
  ASSUME NEW S, NEW T, NEW f \in [S -> T], NEW s \in S, NEW e \in T,
         NEW g, g = [f EXCEPT ![s] = e]
  PROVE  g \in [S -> T] /\ g[s] = e /\ \A r \in S : r # s => g[r] = f[r]
  OBVIOUS

(* A datagram is queued behind the others, or the first one taken.         *)
LEMMA Behind ==
  ASSUME NEW T, NEW q \in Seq(T), NEW e \in T
  PROVE  /\ Append(q, e) \in Seq(T) /\ Len(Append(q, e)) = Len(q) + 1
         /\ Append(q, e)[Len(q) + 1] = e
         /\ \A j \in 1 .. Len(q) : Append(q, e)[j] = q[j]
  OBVIOUS

LEMMA Front ==
  ASSUME NEW T, NEW q \in Seq(T), Len(q) # 0
  PROVE  /\ Head(q) = q[1] /\ Tail(q) \in Seq(T) /\ Len(Tail(q)) = Len(q) - 1
         /\ \A j \in 1 .. Len(q) - 1 : Tail(q)[j] = q[j + 1]
  OBVIOUS

LEMMA Listen ==
  ASSUME SetupInv, wStep \in Listing, Setup!GetFamily \/ Setup!AskCards
  PROVE  SetupInv'
<1>0. /\ SetupTypes /\ ListInv /\ \A p \in Setup!Listers : wSvc[p] = "none"
      /\ "gen" \in Setup!Sockets /\ "route" \in Setup!Sockets
  BY DEF SetupInv, Listing, Setup!Sockets
<1>1. CASE Setup!GetFamily
  <2>1. wStep = "family" /\ UNCHANGED <<kernel, dump, wAsked, slips, wSvc>>
    BY <1>1 DEF Setup!GetFamily
  <2>2. CASE wQueue' = [wQueue EXCEPT !["gen"] = <<"ack">>] /\ wStep' = "list"
    <3>1. SetupTypes' /\ ListInv' /\ wStep' \notin Setting
      BY <1>0, <2>1, <2>2 DEF SetupTypes, ListInv, Listing, Setting, Datagrams
    <3> QED
      BY <1>0, <2>1, <3>1 DEF SetupInv
  <2>3. CASE wStep' = "over"
    BY <2>3 DEF SetupInv
  <2> QED
    BY <1>1, <2>2, <2>3 DEF Setup!GetFamily
<1>2. CASE Setup!AskCards
  <2>1. /\ wStep = "list" /\ wStep' = "collect" /\ UNCHANGED <<kernel, wAsked, slips, wSvc>>
        /\ Setup!StartList("gen", 1)
    BY <1>2 DEF Setup!AskCards
  <2>2. dump["gen"] = 0 /\ Len(wQueue["gen"]) = 1 /\ wQueue["gen"][1] = "ack"
    BY <1>0, <2>1 DEF ListInv, Listing
  <2> DEFINE part == IF kernel = "joined" THEN "last" ELSE "links"
  <2>3. /\ wQueue' = [wQueue EXCEPT !["gen"] = Append(@, part)]
        /\ dump' = [dump EXCEPT !["gen"] = IF kernel = "joined" THEN 0 ELSE 1]
    BY <1>0, <2>1, <2>2 DEF Setup!StartList, Setup!Part, SetupTypes
  <2>4. part \in Datagrams
    BY DEF Datagrams
  <2> HIDE DEF part
  <2>5. SetupTypes'
    BY <1>0, <2>1, <2>3, <2>4 DEF SetupTypes, Listing
  <2>6. /\ Len(wQueue'["gen"]) = 2 /\ wQueue'["gen"][1] = "ack" /\ wQueue'["gen"][2] = part
        /\ dump'["gen"] = (IF kernel = "joined" THEN 0 ELSE 1) /\ wQueue'["route"] = wQueue["route"]
    <3> DEFINE q == Append(wQueue["gen"], part)
    <3>1. q \in Seq(Datagrams) /\ Len(q) = 2 /\ q[1] = "ack" /\ q[2] = part
      <4>1. wQueue["gen"] \in Seq(Datagrams)
        BY <1>0 DEF SetupTypes
      <4> DEFINE w == wQueue["gen"]
      <4>2. /\ Append(w, part) \in Seq(Datagrams) /\ Len(Append(w, part)) = Len(w) + 1
            /\ Append(w, part)[Len(w) + 1] = part
            /\ \A j \in 1 .. Len(w) : Append(w, part)[j] = w[j]
        BY <2>4, <4>1, Behind
      <4>3. Len(w) = 1 /\ w[1] = "ack" /\ q = Append(w, part)
        BY <2>2
      <4> HIDE DEF w, q
      <4> QED
        BY <4>2, <4>3
    <3>2. wQueue' = [wQueue EXCEPT !["gen"] = q]
      BY <2>3
    <3> HIDE DEF q
    <3>3. wQueue'["gen"] = q /\ wQueue'["route"] = wQueue["route"]
      BY <1>0, <3>1, <3>2 DEF SetupTypes
    <3>4. dump'["gen"] = IF kernel = "joined" THEN 0 ELSE 1
      BY <1>0, <2>3 DEF SetupTypes
    <3> QED
      BY <3>1, <3>3, <3>4
  <2>7. Listed'
    BY <1>0, <2>1, <2>6 DEF Listed, SetupTypes, part
  <2>8. ListInv' /\ wStep' \notin Setting
    BY <1>0, <2>1, <2>6, <2>7 DEF ListInv, Listing, Setting
  <2> QED
    BY <1>0, <2>1, <2>5, <2>8 DEF SetupInv
<1> QED
  BY <1>1, <1>2

(* nl_get_wlan_list: only a list taken as ended too early leaves anything. *)
LEMMA Collected ==
  ASSUME SetupInv, Setup!Collect
  PROVE  SetupInv'
<1> DEFINE q == wQueue["gen"]
<1>0. /\ wStep = "collect" /\ SetupTypes /\ ListInv /\ Listed
      /\ \A p \in Setup!Listers : wSvc[p] = "none"
      /\ "gen" \in Setup!Sockets /\ "route" \in Setup!Sockets
  BY DEF SetupInv, Setup!Collect, Listing, ListInv, Setup!Sockets
<1>1. UNCHANGED <<kernel, wAsked, wSvc>> /\ Setup!Receive("gen")
  BY DEF Setup!Collect
<1>2. q \in Seq(Datagrams) /\ Head(q) = q[1] /\ dump["gen"] \in Int
  BY <1>0 DEF SetupTypes, Listed
<1>3. /\ dump["gen"] = 1 => /\ wQueue' = [wQueue EXCEPT !["gen"] = Append(Tail(@), Setup!Part(1))]
                            /\ dump' = [dump EXCEPT !["gen"] = 0]
      /\ dump["gen"] = 0 => wQueue' = [wQueue EXCEPT !["gen"] = Tail(@)] /\ dump' = dump
  BY <1>1 DEF Setup!Receive
<1>4. /\ dump' \in [Setup!Sockets -> Int] /\ wQueue' \in [Setup!Sockets -> Seq(Datagrams)]
      /\ wQueue'["route"] = wQueue["route"] /\ dump'["gen"] = 0
      /\ Len(wQueue'["gen"]) = IF dump["gen"] = 1 THEN Len(q) ELSE Len(q) - 1
      /\ Len(q) = 2 => wQueue'["gen"][1] = q[2]
      /\ dump["gen"] = 1 => wQueue'["gen"][2] = Setup!Part(1)
  <2>1. dump["gen"] = 1 \/ dump["gen"] = 0
    BY <1>0 DEF Listed
  <2>2. /\ Tail(q) \in Seq(Datagrams) /\ Len(Tail(q)) = Len(q) - 1
        /\ Len(q) = 2 => Tail(q)[1] = q[2]
    BY <1>0, <1>2 DEF Listed
  <2>3. Setup!Part(1) \in Datagrams
    BY DEF Setup!Part, Datagrams
  <2>4. CASE dump["gen"] = 0
    <3>1. wQueue' = [wQueue EXCEPT !["gen"] = Tail(q)] /\ dump' = dump
      BY <1>3, <2>4
    <3> DEFINE t == Tail(q)
    <3>2. t \in Seq(Datagrams) /\ wQueue' = [wQueue EXCEPT !["gen"] = t]
      BY <2>2, <3>1
    <3> HIDE DEF t
    <3>3. /\ wQueue' \in [Setup!Sockets -> Seq(Datagrams)]
          /\ wQueue'["gen"] = t /\ wQueue'["route"] = wQueue["route"]
      BY <1>0, <3>2, Changed DEF SetupTypes
    <3>4. Len(t) = Len(q) - 1 /\ (Len(q) = 2 => t[1] = q[2])
      BY <2>2 DEF t
    <3> QED
      BY <1>0, <3>1, <3>3, <3>4, <2>4 DEF SetupTypes
  <2>5. CASE dump["gen"] = 1
    <3>1. Len(q) = 2
      BY <1>0, <2>5 DEF Listed
    <3>2. wQueue'["gen"] = Append(Tail(q), Setup!Part(1))
      BY <1>0, <1>3, <2>5 DEF SetupTypes
    <3>3. /\ Len(wQueue'["gen"]) = 2 /\ wQueue'["gen"][1] = q[2]
          /\ wQueue'["gen"][2] = Setup!Part(1)
          /\ wQueue'["gen"] \in Seq(Datagrams)
      BY <2>2, <2>3, <3>1, <3>2
    <3> DEFINE t == Append(Tail(q), Setup!Part(1))
    <3>4. t \in Seq(Datagrams) /\ wQueue' = [wQueue EXCEPT !["gen"] = t]
      BY <1>3, <2>5, <3>2, <3>3
    <3> HIDE DEF t
    <3>5. wQueue' \in [Setup!Sockets -> Seq(Datagrams)] /\ wQueue'["route"] = wQueue["route"]
      BY <1>0, <3>4, Changed DEF SetupTypes
    <3>6. dump' \in [Setup!Sockets -> Int] /\ dump'["gen"] = 0
      BY <1>0, <1>3, <2>5 DEF SetupTypes
    <3> QED
      BY <2>5, <3>1, <3>3, <3>5, <3>6
  <2> QED
    BY <2>1, <2>4, <2>5
<1>5. \/ q[1] = "ack" /\ wStep' = wStep /\ slips' = slips
      \/ q[1] = "last" /\ wStep' = "next" /\ slips' = slips
      \/ q[1] = "links" /\ wStep' = "collect" /\ slips' = slips
      \/ q[1] = "links" /\ wStep' = "next" /\ slips' = [slips EXCEPT !["gen"] = @ + 1]
      \/ q[1] = "done" /\ wStep' = "next" /\ slips' = slips
  BY <1>2 DEF Setup!Collect
<1>6. SetupTypes'
  BY <1>0, <1>1, <1>4, <1>5 DEF SetupTypes, Listing, Setting
<1>7. CASE wStep' = "collect"
  <2>1. (q[1] = "ack" \/ q[1] = "links") /\ slips' = slips
    BY <1>0, <1>5, <1>7
  <2>2. Listed'
    BY <1>0, <1>1, <1>4, <2>1 DEF Listed, Setup!Part
  <2>3. ListInv' /\ wStep' \notin Setting
    BY <1>0, <1>1, <1>4, <1>7, <2>1, <2>2 DEF ListInv, Listing, Setting
  <2> QED
    BY <1>0, <1>1, <1>6, <2>3 DEF SetupInv
<1>8. CASE wStep' = "next"
  <2>1. /\ wAsked["gen"] = <<>> /\ wAsked["route"] = <<>> /\ slips["gen"] = 0 /\ slips["route"] = 0
        /\ wQueue["route"] = <<>>
    BY <1>0 DEF ListInv, Listing
  <2>2. Len(wQueue'["gen"]) = slips'["gen"] /\ slips'["route"] = 0
    BY <1>0, <1>4, <1>5, <1>8, <2>1 DEF Listed, SetupTypes
  <2>3. Denied("gen")' = {} /\ Denied("route")' = {}
    BY <1>1, <2>1 DEF Denied
  <2>4. Unread("gen")' /\ Unread("route")'
    BY <1>4, <2>1, <2>2, <2>3 DEF Unread
  <2> QED
    BY <1>0, <1>1, <1>6, <1>8, <2>4 DEF SetupInv, ListInv, Listing
<1> QED
  BY <1>0, <1>5, <1>7, <1>8

(* A request is sent on socket s, and its reply read or left.              *)
LEMMA Requested ==
  ASSUME SetupInv, NEW op \in {"down", "monitor", "up", "freq"}, Setup!Request(op)
  PROVE  SetupInv'
<1> DEFINE s == Setup!Of(op)
           o == IF s = "gen" THEN "route" ELSE "gen"
           q == wQueue[s]
           a == wAsked[s]
<1>0. /\ wStep = op /\ SetupTypes /\ Unread("gen") /\ Unread("route")
      /\ \A p \in Setup!Listers : wSvc[p] = "none"
      /\ s \in {"gen", "route"} /\ o \in {"gen", "route"} /\ s # o
      /\ {"gen", "route"} \subseteq Setup!Sockets
  BY DEF SetupInv, Setup!Request, Setting, Setup!Sockets, Setup!Of
<1>1. PICK refused \in BOOLEAN :
        LET reply == IF refused THEN "error" ELSE "ack"
            all   == Append(q, reply)
        IN  /\ wAsked' = [wAsked EXCEPT ![s] = Append(@, refused)]
            /\ \/ /\ wQueue' = [wQueue EXCEPT ![s] = Tail(all)]
                  /\ wStep' = IF Head(all) = "error" THEN "over" ELSE Setup!After(op)
                  /\ UNCHANGED slips
               \/ /\ slips' = [slips EXCEPT ![s] = @ + 1]
                  /\ wQueue' = [wQueue EXCEPT ![s] = all]
                  /\ wStep' = Setup!After(op)
  BY DEF Setup!Request
<1>2. UNCHANGED <<kernel, dump, wSvc>>
  BY DEF Setup!Request
<1>3. Setup!After(op) \in Setting
  BY DEF Setup!After, Setting
<1> DEFINE reply == IF refused THEN "error" ELSE "ack"
           all   == Append(q, reply)
           b     == Append(a, refused)
<1>4. q \in Seq(Datagrams) /\ a \in Seq(BOOLEAN) /\ slips[s] \in Nat /\ Len(q) = slips[s]
  BY <1>0 DEF SetupTypes, Unread
<1>5. /\ all \in Seq(Datagrams) /\ Len(all) = Len(q) + 1 /\ all[Len(q) + 1] = reply
      /\ \A j \in 1 .. Len(q) : all[j] = q[j]
      /\ Head(all) = all[1] /\ Tail(all) \in Seq(Datagrams) /\ Len(Tail(all)) = Len(q)
      /\ \A j \in 1 .. Len(q) : Tail(all)[j] = all[j + 1]
  <2>1. reply \in Datagrams
    BY DEF Datagrams
  <2>2. /\ all \in Seq(Datagrams) /\ Len(all) = Len(q) + 1 /\ all[Len(q) + 1] = reply
        /\ \A j \in 1 .. Len(q) : all[j] = q[j]
    BY <1>4, <2>1, Behind
  <2>3. Len(q) \in Nat
    BY <1>4
  <2> HIDE DEF q, all
  <2>4. Len(all) # 0 /\ Len(all) - 1 = Len(q)
    BY <2>2, <2>3
  <2>5. /\ Head(all) = all[1] /\ Tail(all) \in Seq(Datagrams) /\ Len(Tail(all)) = Len(q)
        /\ \A j \in 1 .. Len(q) : Tail(all)[j] = all[j + 1]
    BY <2>2, <2>4, Front
  <2> QED
    BY <2>2, <2>5
<1>6. /\ b \in Seq(BOOLEAN) /\ Len(b) = Len(a) + 1 /\ b[Len(a) + 1] = refused
      /\ \A n \in 1 .. Len(a) : b[n] = a[n]
  <2> HIDE DEF a
  <2> QED
    BY <1>4
<1>7. wAsked' = [wAsked EXCEPT ![s] = b]
  BY <1>1
<1>8. /\ \/ /\ wQueue' = [wQueue EXCEPT ![s] = Tail(all)] /\ slips' = slips
            /\ wStep' = IF all[1] = "error" THEN "over" ELSE Setup!After(op)
         \/ /\ wQueue' = [wQueue EXCEPT ![s] = all]
            /\ slips' = [slips EXCEPT ![s] = @ + 1]
            /\ wStep' = Setup!After(op)
  BY <1>1, <1>5
<1>9. refused => reply = "error"
  OBVIOUS
<1>10. \A n \in 1 .. Len(b) : b[n] = TRUE => (n \in 1 .. Len(a) /\ a[n] = TRUE) \/ (n = Len(a) + 1 /\ refused)
  <2> HIDE DEF a, b
  <2>1. Len(a) \in Nat
    BY <1>4
  <2> SUFFICES ASSUME NEW n \in 1 .. Len(b), b[n] = TRUE
               PROVE  (n \in 1 .. Len(a) /\ a[n] = TRUE) \/ (n = Len(a) + 1 /\ refused)
    OBVIOUS
  <2>2. n \in 1 .. Len(a) \/ n = Len(a) + 1
    BY <1>6, <2>1
  <2> QED
    BY <1>6, <2>2, Zenon
<1>11. \A n \in 1 .. Len(a) : a[n] = TRUE =>
          n > Len(a) - Len(q) /\ q[n - (Len(a) - Len(q))] = "error"
  BY <1>0, <1>4 DEF Unread, Denied
<1>12. Len(a) \in Nat /\ Len(q) \in Nat
  BY <1>4
<1> HIDE DEF s, o, q, a, reply, all, b
<1>13. wAsked' \in [{"gen", "route"} -> Seq(BOOLEAN)] /\ wAsked'[s] = b /\ wAsked'[o] = wAsked[o]
  BY <1>0, <1>6, <1>7, Changed DEF SetupTypes
<1>14. SUFFICES ASSUME wStep' # "over"  PROVE SetupInv'
  BY DEF SetupInv
<1>15. wStep' \in Setting
  BY <1>3, <1>8, <1>14
(* The first datagram was read: it did not refuse.                         *)
<1>16. CASE /\ wQueue' = [wQueue EXCEPT ![s] = Tail(all)] /\ slips' = slips /\ all[1] # "error"
  <2> DEFINE t == Tail(all)
  <2>1. wQueue' = [wQueue EXCEPT ![s] = t] /\ t \in Seq(Datagrams)
    BY <1>5, <1>16
  <2>2. Len(t) = Len(q) /\ \A j \in 1 .. Len(q) : t[j] = all[j + 1]
    BY <1>5
  <2> HIDE DEF t
  <2>3. /\ wQueue' \in [Setup!Sockets -> Seq(Datagrams)] /\ wQueue'[s] = t /\ wQueue'[o] = wQueue[o]
    BY <1>0, <2>1, Changed DEF SetupTypes
  <2>4. ASSUME NEW n \in 1 .. Len(b), b[n] = TRUE
        PROVE  n > Len(b) - Len(q) /\ t[n - (Len(b) - Len(q))] = "error"
    <3>1. CASE n \in 1 .. Len(a) /\ a[n] = TRUE
      <4> DEFINE p == n - (Len(a) - Len(q))
      <4>1. p >= 1 /\ p \in 1 .. Len(q) /\ q[p] = "error"
        BY <1>11, <1>12, <3>1
      <4>2. all[p] = "error"
        BY <1>5, <4>1
      <4>3. p # 1
        BY <1>16, <4>2
      <4>4. p - 1 \in 1 .. Len(q) /\ t[p - 1] = all[p]
        <5> HIDE DEF p
        <5>1. p - 1 \in 1 .. Len(q) /\ (p - 1) + 1 = p
          BY <1>12, <4>1, <4>3
        <5> QED
          BY <2>2, <5>1
      <4>5. n - (Len(b) - Len(q)) = p - 1 /\ n > Len(b) - Len(q)
        BY <1>6, <1>12, <4>1, <4>3
      <4> QED
        BY <4>2, <4>4, <4>5
    <3>2. CASE n = Len(a) + 1 /\ refused
      <4>1. all[Len(q) + 1] = "error"
        BY <1>5, <1>9, <3>2
      <4>2. Len(q) >= 1
        BY <1>12, <1>16, <4>1
      <4>3. t[Len(q)] = all[Len(q) + 1]
        BY <1>12, <2>2, <4>2
      <4> QED
        BY <1>6, <1>12, <3>2, <4>1, <4>2, <4>3
    <3> QED
      BY <1>10, <2>4, <3>1, <3>2
  <2>5. Unread(s)' /\ Unread(o)'
    <3>1. Unread(o)
      BY <1>0
    <3>2. Unread(o)'
      BY <1>13, <1>16, <2>3, <3>1 DEF Unread, Denied
    <3>3. Len(wQueue'[s]) = slips'[s] /\ Len(q) = slips'[s]
      BY <1>4, <1>16, <2>2, <2>3
    <3> QED
      BY <1>13, <2>3, <2>4, <3>2, <3>3 DEF Unread, Denied
  <2>6. SetupTypes'
    BY <1>0, <1>2, <1>13, <1>15, <1>16, <2>3 DEF SetupTypes
  <2>7. Unread("gen")' /\ Unread("route")'
    BY <1>0, <2>5
  <2> QED
    BY <1>0, <1>2, <1>15, <2>6, <2>7 DEF SetupInv, ListInv, Listing, Setting
(* It stays: one reply more is behind the others.                          *)
<1>17. CASE wQueue' = [wQueue EXCEPT ![s] = all] /\ slips' = [slips EXCEPT ![s] = @ + 1]
  <2>1. /\ wQueue' \in [Setup!Sockets -> Seq(Datagrams)] /\ wQueue'[s] = all /\ wQueue'[o] = wQueue[o]
    BY <1>0, <1>5, <1>17, Changed DEF SetupTypes
  <2>2. /\ slips' \in [{"gen", "route"} -> Nat] /\ slips'[s] = slips[s] + 1 /\ slips'[o] = slips[o]
    BY <1>0, <1>17 DEF SetupTypes
  <2>3. ASSUME NEW n \in 1 .. Len(b), b[n] = TRUE
        PROVE  n > Len(b) - Len(all) /\ all[n - (Len(b) - Len(all))] = "error"
    <3>0. Len(b) - Len(all) = Len(a) - Len(q)
      BY <1>5, <1>6, <1>12
    <3>1. CASE n \in 1 .. Len(a) /\ a[n] = TRUE
      <4> DEFINE p == n - (Len(a) - Len(q))
      <4>1. p \in 1 .. Len(q) /\ q[p] = "error" /\ n > Len(a) - Len(q)
        BY <1>11, <1>12, <3>1
      <4>2. all[p] = "error"
        BY <1>5, <4>1
      <4> QED
        BY <3>0, <4>1, <4>2
    <3>2. CASE n = Len(a) + 1 /\ refused
      <4>1. all[Len(q) + 1] = "error"
        BY <1>5, <1>9, <3>2
      <4>2. n - (Len(a) - Len(q)) = Len(q) + 1 /\ n > Len(a) - Len(q)
        BY <1>12, <3>2
      <4> QED
        BY <3>0, <4>1, <4>2
    <3> QED
      BY <1>10, <2>3, <3>1, <3>2
  <2>4. Unread(s)' /\ Unread(o)'
    <3>1. Unread(o)
      BY <1>0
    <3>2. Unread(o)'
      BY <1>13, <2>1, <2>2, <3>1 DEF Unread, Denied
    <3>3. Len(wQueue'[s]) = slips'[s] /\ Len(all) = slips'[s]
      BY <1>4, <1>5, <2>1, <2>2
    <3> QED
      BY <1>13, <2>1, <2>3, <3>2, <3>3 DEF Unread, Denied
  <2>5. SetupTypes'
    BY <1>0, <1>2, <1>13, <1>15, <2>1, <2>2 DEF SetupTypes
  <2>6. Unread("gen")' /\ Unread("route")'
    BY <1>0, <2>4
  <2> QED
    BY <1>0, <1>2, <1>15, <2>5, <2>6 DEF SetupInv, ListInv, Listing, Setting
<1> QED
  BY <1>8, <1>14, <1>16, <1>17

LEMMA SetupInvStep == SetupInv /\ [Setup!Next]_wifiVars => SetupInv'
<1> SUFFICES ASSUME SetupInv, [Setup!Next]_wifiVars  PROVE SetupInv'
  OBVIOUS
<1>1. CASE Setup!GetFamily \/ Setup!AskCards
  <2>1. wStep \in Listing
    BY <1>1 DEF Setup!GetFamily, Setup!AskCards, Listing
  <2> QED
    BY <1>1, <2>1, Listen
<1>2. CASE Setup!LinkDown \/ Setup!SetMonitor \/ Setup!LinkUp \/ Setup!SetFreq
  BY <1>2, Requested DEF Setup!LinkDown, Setup!SetMonitor, Setup!LinkUp, Setup!SetFreq
<1>3. ASSUME Setup!NextCard \/ \E op \in {"down", "monitor", "up", "freq"} : Setup!Unbound(op)
      PROVE  SetupInv'
  <2>1. /\ UNCHANGED <<kernel, wQueue, dump, wAsked, slips, wSvc>>
        /\ wStep \in Setting /\ wStep' \in Setting \cup {"over"}
    BY <1>3 DEF Setup!NextCard, Setup!Unbound, Setup!nl, Setting
  <2> QED
    BY <2>1 DEF SetupInv, SetupTypes, ListInv, Unread, Denied, Listing, Setting
<1>4. ASSUME Setup!OwnList \/ Setup!Fork \/ \E p \in Setup!Listers : Setup!Service(p)
      PROVE  SetupInv'
  <2>1. wStep = "over" /\ wStep' = wStep
    <3>1. CASE Setup!OwnList \/ Setup!Fork
      BY <3>1 DEF Setup!OwnList, Setup!Fork, Setup!mainVars
    <3>2. ASSUME NEW p \in Setup!Listers, Setup!Service(p)  PROVE wStep = "over" /\ wStep' = wStep
      BY <3>2 DEF Setup!Service, Setup!AskLinks, Setup!CollectLinks, Setup!mainVars, SetupInv
    <3> QED
      BY <1>4, <3>1, <3>2
  <2> QED
    BY <2>1 DEF SetupInv
<1>5. CASE UNCHANGED wifiVars
  BY <1>5 DEF wifiVars, SetupInv, SetupTypes, ListInv, Listed, Unread, Denied
<1> QED
  BY <1>1, <1>2, <1>3, <1>4, <1>5, Collected DEF Setup!Next, Setup!Main, Setup!Setup

LEMMA SetupInductive == Spec => []SetupInv
  BY Together, SetupInvInit, SetupInvStep, PTL DEF Spec

(* When the setup has gone through all cards every request was confirmed,  *)
(* but for as many of the last ones on a socket as replies were not read   *)
(* where they were due.                                                    *)
THEOREM EveryFailureNoticed == Spec => []NoFailureMissed
<1>1. SetupInv => NoFailureMissed
  <2> SUFFICES ASSUME SetupInv, wStep = "next", NEW s \in {"gen", "route"},
                      NEW n \in 1 .. Len(wAsked[s]), wAsked[s][n]
               PROVE  n > Len(wAsked[s]) - slips[s]
    BY DEF NoFailureMissed, Setup!NoFailureMissed
  <2>1. SetupTypes /\ Unread(s)
    BY DEF SetupInv, Setting
  <2>2. wAsked[s] \in Seq(BOOLEAN)
    BY <2>1 DEF SetupTypes
  <2>3. wAsked[s][n] \in BOOLEAN
    BY <2>2
  <2>4. wAsked[s][n] = TRUE
    BY <2>3, Zenon
  <2> QED
    BY <2>1, <2>4 DEF Unread, Denied
<1> QED
  BY <1>1, SetupInductive, PTL

-----------------------------------------------------------------------------
(* rhex_ground/rhex_telemetry_rx.c, for any number of cards, packets and   *)
(* restarts, and any size of the ring and skew of the cards.               *)

Packet == [seq : Nat, from : {"robot", "ground"}]

TeleTypes ==
  /\ seqno \in Nat /\ rcSeqno \in Nat /\ run \in Nat
  /\ air \in Seq(Packet)
  /\ heard \in [Cards -> 0 .. Len(air)]
  /\ \A c \in Cards : Len(air) - heard[c] <= Skew
  /\ buffer \in [0 .. BufSize - 1 -> Nat] /\ bufPos \in 0 .. BufSize - 1
  /\ out \in Seq(1 .. Len(air)) /\ withheld \subseteq 1 .. Len(air)

(* Where in the ring the k-th number remembered is written, and the number *)
(* of packet n, or that of an empty read.                                  *)
RingPlace(k) == (BufSize + k - 3) % BufSize
NumberOf(n)  == IF n = 0 THEN 0 ELSE air[n].seq

(* log is what has been remembered, in order: the ordinals of the packets  *)
(* forwarded, and 0 for empty reads, of which the ring never has two.      *)
(* What a late card has yet to hear is still in the ring.                  *)
RingLog(log) ==
  /\ log \in Seq(0 .. Len(air))
  /\ bufPos = RingPlace(Len(log) + 1)
  /\ \A k \in 1 .. Len(log) :
       Len(log) - k < BufSize => buffer[RingPlace(k)] = NumberOf(log[k])
  /\ \A k \in 1 .. Len(log) : log[k] # 0 => log[k] \in Tele!Forwarded
  /\ \A n \in Tele!Forwarded : \E k \in 1 .. Len(log) : log[k] = n
  /\ \A j, k \in 1 .. Len(log) : j < k /\ log[j] = log[k] => log[j] = 0 /\ k - j > BufSize
  /\ \A j, k \in 1 .. Len(log) : j < k /\ log[k] # 0 => log[k] > log[j] - Skew
  /\ \A k \in 1 .. Len(log) : \A c \in Cards :
       heard[c] < log[k] => Len(log) - k < BufSize

RingInv ==
  2 * Skew <= BufSize =>
    /\ \E log \in Seq(0 .. Len(air)) : RingLog(log)
    /\ \A i, j \in 1 .. Len(out) : out[i] = out[j] => i = j

(* The robot's packets of this run are those after base; each has a number *)
(* of its own, and every card has heard all of its earlier ones.           *)
Robots(base) == {n \in base + 1 .. Len(air) : air[n].from = "robot"}
Numbered(base) ==
  /\ seqno <= Len(air) /\ rcSeqno <= Len(air)
  /\ \A n \in 1 .. Len(air) : air[n].seq < Len(air)
  /\ \A n \in 1 .. Len(air) : air[n].from = "ground" => air[n].seq < rcSeqno
  /\ \A n \in Robots(base) : air[n].seq < seqno
  /\ \A m, n \in Robots(base) : m < n => air[m].seq < air[n].seq
  /\ \A c \in Cards : \A n \in heard[c] + 1 .. base : air[n].from = "ground"

(* held are the numbers the ring had when the run began: only they, 0 and  *)
(* the numbers of the remote control hold a packet of the run back.        *)
Early(base) == {n \in Tele!HeldBack : n <= base}
Used(held, q) == q \in held \cup {0} \/ q < rcSeqno
HeldSince(base, held) ==
  /\ IsFiniteSet(held) /\ Cardinality(held) <= BufSize
  /\ \A i \in 0 .. BufSize - 1 :
       Used(held, buffer[i]) \/ \E m \in Tele!Forwarded : m \in Robots(base) /\ buffer[i] = air[m].seq
  /\ \A n \in withheld : n \in Robots(base) => Used(held, air[n].seq)
  /\ run = 0 => held = {0} /\ Early(base) = {}
  /\ run # 0 => Cardinality(Early(base)) <= (run - 1) * BufSize

HeldInv ==
  Len(air) <= SeqMod \div 2 =>
    \E base \in 0 .. Len(air), held \in SUBSET Nat : Numbered(base) /\ HeldSince(base, held)

TeleInv == TeleTypes /\ RingInv /\ HeldInv

LEMMA TeleSizes ==
  /\ BufSize \in Nat /\ BufSize > 2 /\ SeqMod \in Nat \ {0} /\ Skew \in Nat \ {0}
  BY ServicesAssumption DEF Tele!TelemetryAssumption

(* Places in the ring follow each other, and BufSize of them are distinct. *)
LEMMA RingPlaces ==
  /\ \A k \in Nat \ {0} : /\ RingPlace(k) \in 0 .. BufSize - 1
                          /\ Tele!NextPos(RingPlace(k)) = RingPlace(k + 1)
  /\ \A j, k \in Nat \ {0} : j < k /\ k - j < BufSize => RingPlace(j) # RingPlace(k)
<1>0. BufSize \in Nat \ {0} /\ BufSize > 2
  BY TeleSizes
<1>1. ASSUME NEW k \in Nat \ {0}
      PROVE  /\ RingPlace(k) \in 0 .. BufSize - 1
             /\ Tele!NextPos(RingPlace(k)) = RingPlace(k + 1)
  <2> DEFINE a == BufSize + k - 3
             p == a % BufSize
  <2>1. a \in Nat /\ BufSize + (k + 1) - 3 = a + 1
    BY <1>0
  <2>2. p \in 0 .. BufSize - 1
    BY <1>0, <2>1, DivMod
  <2>3. (p + 1) % BufSize = (a + 1) % BufSize
    BY <1>0, <2>1, ModSucc
  <2>4. RingPlace(k) = p /\ RingPlace(k + 1) = (a + 1) % BufSize
    BY <2>1 DEF RingPlace
  <2> HIDE DEF p, a
  <2>5. (p + 1) % BufSize = IF p + 1 >= BufSize THEN 0 ELSE p + 1
    <3>1. CASE p + 1 = BufSize
      <4>1. (BufSize * 1 + 0) % BufSize = 0
        BY <1>0, RemainderUnique
      <4> QED
        BY <1>0, <3>1, <4>1
    <3>2. CASE p + 1 # BufSize
      <4>1. p + 1 \in 0 .. BufSize - 1
        BY <1>0, <2>2, <3>2
      <4>2. (BufSize * 0 + (p + 1)) % BufSize = p + 1
        BY <1>0, <4>1, RemainderUnique
      <4> QED
        BY <1>0, <4>1, <4>2
    <3> QED
      BY <3>1, <3>2
  <2> QED
    BY <2>2, <2>3, <2>4, <2>5 DEF Tele!NextPos
<1>2. ASSUME NEW j \in Nat \ {0}, NEW k \in Nat \ {0}, j < k, k - j < BufSize
      PROVE  RingPlace(j) # RingPlace(k)
  <2> DEFINE a == BufSize + j - 3
             b == BufSize + k - 3
  <2>1. a \in Nat /\ b \in Nat /\ a < b /\ b < a + BufSize
    BY <1>0, <1>2
  <2>2. a % BufSize # b % BufSize
    BY <1>0, <2>1, ModDistinct
  <2> QED
    BY <2>2 DEF RingPlace
<1> QED
  BY <1>1, <1>2

(* Since packet n was remembered as the k-th, with a card that has not     *)
(* heard it yet, only packets around n have been: fewer than the ring has. *)
LEMMA FewSince ==
  ASSUME NEW len \in Nat, NEW log \in Seq(Nat), Len(log) = len, NEW k \in 1 .. len,
         2 * Skew <= BufSize,
         \A x \in k + 1 .. len : log[x] # 0 => log[x] > log[k] - Skew /\ log[x] < log[k] + Skew,
         \A x \in k + 1 .. len : log[x] # log[k],
         \A x, y \in k + 1 .. len : x < y => log[x] # log[y]
  PROVE  len - k < BufSize
<1> DEFINE n == log[k]
           S == k + 1 .. len
           T == n - Skew + 1 .. n + Skew - 1
           f == [x \in S |-> IF log[x] = 0 THEN n ELSE log[x]]
<1>0. n \in Nat /\ k \in Nat /\ Skew \in Nat \ {0} /\ BufSize \in Nat /\ \A x \in S : log[x] \in Nat
  BY TeleSizes
<1>1. f \in [S -> T]
  BY <1>0
<1>2. \A x, y \in S : f[x] = f[y] => x = y
  <2>1. \A x, y \in S : x # y => log[x] # log[y]
    <3>1. \A x, y \in S : x # y => x < y \/ y < x
      BY <1>0
    <3> QED
      BY <3>1
  <2> QED
    BY <2>1
<1>3. IsFiniteSet(S) /\ Cardinality(S) = IF k + 1 > len THEN 0 ELSE len - (k + 1) + 1
  BY <1>0, FS_Interval
<1>4. IsFiniteSet(T) /\ Cardinality(T) = 2 * Skew - 1
  <2> DEFINE lo == n - Skew + 1
             hi == n + Skew - 1
  <2>1. lo \in Int /\ hi \in Int /\ hi - lo + 1 = 2 * Skew - 1 /\ ~(lo > hi)
    <3> HIDE DEF n
    <3> QED
      BY <1>0
  <2>2. T = lo .. hi
    OBVIOUS
  <2> HIDE DEF T, lo, hi
  <2>3. IsFiniteSet(lo .. hi) /\ Cardinality(lo .. hi) = IF lo > hi THEN 0 ELSE hi - lo + 1
    BY <2>1, FS_Interval
  <2> QED
    BY <2>1, <2>2, <2>3
<1>5. ~(Cardinality(T) < Cardinality(S))
  <2> SUFFICES ASSUME Cardinality(T) < Cardinality(S)  PROVE FALSE
    OBVIOUS
  <2>1. \E x, y \in S : x # y /\ f[x] = f[y]
    <3> HIDE DEF f, S, T
    <3> QED
      BY <1>1, <1>3, <1>4, FS_PigeonHole
  <2> HIDE DEF f
  <2> QED
    BY <1>2, <2>1
<1> HIDE DEF S, T
<1> QED
  BY <1>0, <1>3, <1>4, <1>5

(* What a card has yet to hear and was forwarded is known.                 *)
LEMMA KnownWhenHeard ==
  ASSUME TeleTypes, NEW log \in Seq(0 .. Len(air)), RingLog(log),
         NEW n \in Tele!Forwarded, NEW c \in Cards, heard[c] < n
  PROVE  Tele!Known(NumberOf(n))
<1>1. PICK k \in 1 .. Len(log) : log[k] = n
  BY DEF RingLog
<1>2. Len(log) - k < BufSize
  BY <1>1 DEF RingLog
<1>3. buffer[RingPlace(k)] = NumberOf(n)
  BY <1>1, <1>2 DEF RingLog
<1>4. RingPlace(k) \in DOMAIN buffer
  <2>1. k \in Nat \ {0}
    OBVIOUS
  <2> QED
    BY <2>1, RingPlaces DEF TeleTypes
<1> QED
  BY <1>3, <1>4 DEF Tele!Known

(* A number not in the ring is remembered.                                 *)
LEMMA RingPushed ==
  ASSUME TeleTypes, 2 * Skew <= BufSize,
         NEW log \in Seq(0 .. Len(air)), RingLog(log), NEW v \in 0 .. Len(air),
         ~Tele!Known(NumberOf(v)), Tele!Remember(NumberOf(v)),
         v # 0 => \E c \in Cards : heard[c] + 1 = v,
         air' = air, \A c \in Cards : heard'[c] \in Nat /\ heard'[c] >= heard[c],
         Tele!Forwarded' = IF v = 0 THEN Tele!Forwarded ELSE Tele!Forwarded \cup {v}
  PROVE  RingLog(Append(log, v))'
<1> DEFINE len == Len(log)
           new == Append(log, v)
           top == Len(air)
<1>1. /\ len \in Nat /\ new \in Seq(0 .. top) /\ Len(new) = len + 1 /\ new[len + 1] = v
      /\ \A k \in 1 .. len : new[k] = log[k]
      /\ top \in Nat /\ v \in 0 .. top /\ \A k \in 1 .. len : log[k] \in 0 .. top
      /\ \A c \in Cards : heard[c] \in Nat /\ top - heard[c] <= Skew
  <2>1. top \in Nat /\ \A c \in Cards : heard[c] \in Nat /\ top - heard[c] <= Skew
    BY DEF TeleTypes
  <2>2. /\ new \in Seq(0 .. top) /\ Len(new) = len + 1 /\ new[len + 1] = v
        /\ \A k \in 1 .. len : new[k] = log[k]
    BY Behind
  <2>3. len \in Nat /\ \A k \in 1 .. len : log[k] \in 0 .. top
    OBVIOUS
  <2> QED
    BY <2>1, <2>2, <2>3
<1>2. \A k \in 1 .. len + 1 : k \in 1 .. len \/ k = len + 1
  BY <1>1
<1>0. BufSize \in Nat /\ BufSize > 2 /\ Skew \in Nat
  BY TeleSizes
<1>a. /\ bufPos = RingPlace(len + 1)
      /\ \A k \in 1 .. len : len - k < BufSize => buffer[RingPlace(k)] = NumberOf(log[k])
      /\ \A k \in 1 .. len : log[k] # 0 => log[k] \in Tele!Forwarded
      /\ \A n \in Tele!Forwarded : \E k \in 1 .. len : log[k] = n
      /\ \A j, k \in 1 .. len : j < k /\ log[j] = log[k] => log[j] = 0 /\ k - j > BufSize
      /\ \A j, k \in 1 .. len : j < k /\ log[k] # 0 => log[k] > log[j] - Skew
      /\ \A k \in 1 .. len : \A c \in Cards : heard[c] < log[k] => len - k < BufSize
  BY DEF RingLog
<1>b. air' = air /\ Len(air) = top
  OBVIOUS
<1> HIDE DEF new, len, top
(* It is not among those the ring must have: it is new, or an empty read   *)
(* when the ring has none.                                                 *)
<1>3. v # 0 => v \notin Tele!Forwarded
  <2> SUFFICES ASSUME v # 0, v \in Tele!Forwarded  PROVE FALSE
    OBVIOUS
  <2>1. PICK c \in Cards : heard[c] + 1 = v
    OBVIOUS
  <2>2. heard[c] < v
    BY <1>1, <2>1
  <2> QED
    BY <2>2, KnownWhenHeard
<1>4. \A j \in 1 .. len : log[j] = v => v = 0 /\ len + 1 - j > BufSize
  <2> SUFFICES ASSUME NEW j \in 1 .. len, log[j] = v  PROVE v = 0 /\ len + 1 - j > BufSize
    OBVIOUS
  <2>1. v = 0
    BY <1>3, <1>a
  <2>2. ASSUME len - j < BufSize  PROVE FALSE
    <3>1. buffer[RingPlace(j)] = NumberOf(v)
      BY <1>a, <2>2
    <3>2. j \in Nat \ {0}
      BY <1>1
    <3>3. RingPlace(j) \in DOMAIN buffer
      BY <3>2, RingPlaces DEF TeleTypes
    <3> QED
      BY <3>1, <3>3 DEF Tele!Known
  <2> QED
    BY <1>0, <1>1, <2>1, <2>2
<1>5. v # 0 => \A j \in 1 .. len : v > log[j] - Skew
  <2> SUFFICES ASSUME v # 0, NEW j \in 1 .. len  PROVE v > log[j] - Skew
    OBVIOUS
  <2>1. PICK c \in Cards : heard[c] + 1 = v
    OBVIOUS
  <2> DEFINE h == heard[c]
             l == log[j]
  <2>2. l \in 0 .. top /\ h \in Nat /\ top - h <= Skew /\ h + 1 = v
    BY <1>1, <2>1
  <2> HIDE DEF h, l
  <2>3. v > l - Skew
    BY <1>0, <1>1, <2>2
  <2> QED
    BY <2>3 DEF l
<1>6. \A j, k \in 1 .. len + 1 : j < k /\ new[j] = new[k] => new[j] = 0 /\ k - j > BufSize
  <2> SUFFICES ASSUME NEW j \in 1 .. len + 1, NEW k \in 1 .. len + 1, j < k, new[j] = new[k]
               PROVE  new[j] = 0 /\ k - j > BufSize
    OBVIOUS
  <2>1. j \in 1 .. len /\ new[j] = log[j]
    BY <1>1
  <2>2. CASE k \in 1 .. len
    BY <1>1, <1>a, <2>1, <2>2
  <2>3. CASE k = len + 1
    <3>1. log[j] = v
      BY <1>1, <2>1, <2>3
    <3>2. v = 0 /\ len + 1 - j > BufSize
      BY <1>4, <2>1, <3>1
    <3>3. new[j] = 0
      BY <2>1, <3>1, <3>2
    <3>4. k - j > BufSize
      BY <1>0, <1>1, <2>3, <3>2
    <3> QED
      BY <3>3, <3>4
  <2> QED
    BY <1>2, <2>2, <2>3
<1>7. \A j, k \in 1 .. len + 1 : j < k /\ new[k] # 0 => new[k] > new[j] - Skew
  <2> SUFFICES ASSUME NEW j \in 1 .. len + 1, NEW k \in 1 .. len + 1, j < k, new[k] # 0
               PROVE  new[k] > new[j] - Skew
    OBVIOUS
  <2>1. j \in 1 .. len /\ new[j] = log[j]
    BY <1>1
  <2>2. CASE k \in 1 .. len
    BY <1>1, <1>a, <2>1, <2>2
  <2>3. CASE k = len + 1
    BY <1>1, <1>5, <2>1, <2>3
  <2> QED
    BY <1>2, <2>2, <2>3
<1>8. ASSUME NEW k \in 1 .. len + 1, NEW c \in Cards, heard'[c] < new[k]
      PROVE  (len + 1) - k < BufSize
  <2>1. CASE k = len + 1
    BY <1>0, <1>1, <2>1
  <2>2. CASE k \in 1 .. len
    <3> DEFINE h == heard[c]
               n == log[k]
    <3>0. n \in 0 .. top /\ new[k] = n /\ h \in Nat /\ top - h <= Skew
      BY <1>1, <2>2
    <3>1. h < n
      <4> DEFINE g == heard'[c]
      <4>1. g \in Nat /\ g >= h /\ g < n
        BY <1>8, <3>0
      <4> HIDE DEF g, h, n
      <4> QED
        BY <3>0, <4>1
    <3>a. len - k < BufSize
      BY <1>a, <2>2, <3>1
    <3> HIDE DEF h, n
    <3>2. top < n + Skew
      BY <1>0, <1>1, <3>0, <3>1
    <3>3. new \in Seq(Nat) /\ \A x \in 1 .. len + 1 : new[x] \in 0 .. top
      <4>1. \A x \in 1 .. len + 1 : new[x] \in 0 .. top
        BY <1>1
      <4>2. 0 .. top \subseteq Nat
        BY <1>1
      <4>3. new \in Seq(Nat)
        BY <1>1, <4>2
      <4> QED
        BY <4>1, <4>3
    <3>4. \A x \in k + 1 .. len + 1 : x \in 1 .. len + 1 /\ k < x
      BY <1>1
    <3>5. \A x \in k + 1 .. len + 1 :
             new[x] # 0 => new[x] > new[k] - Skew /\ new[x] < new[k] + Skew
      <4> SUFFICES ASSUME NEW x \in k + 1 .. len + 1, new[x] # 0
                   PROVE  new[x] > new[k] - Skew /\ new[x] < new[k] + Skew
        OBVIOUS
      <4>1. new[x] > new[k] - Skew
        BY <1>7, <3>4
      <4>2. new[x] <= top /\ new[x] \in Nat
        BY <3>3, <3>4, <1>1
      <4> DEFINE m == new[x]
      <4>3. m < n + Skew
        <5>1. m <= top /\ m \in Nat
          BY <4>2
        <5> HIDE DEF m
        <5> QED
          BY <1>0, <1>1, <3>0, <3>2, <5>1
      <4> QED
        BY <3>0, <4>1, <4>3
    <3>6. \A x \in k + 1 .. len + 1 : new[x] # new[k]
      <4> SUFFICES ASSUME NEW x \in k + 1 .. len + 1, new[x] = new[k]  PROVE FALSE
        OBVIOUS
      <4>1. new[k] = 0
        BY <1>6, <3>4
      <4> QED
        BY <1>1, <3>0, <3>1, <4>1
    <3>7. \A x, y \in k + 1 .. len + 1 : x < y => new[x] # new[y]
      <4> SUFFICES ASSUME NEW x \in k + 1 .. len + 1, NEW y \in k + 1 .. len + 1, x < y,
                          new[x] = new[y]
                   PROVE  FALSE
        OBVIOUS
      <4>1. y - x > BufSize
        BY <1>6, <3>4
      <4> QED
        BY <1>0, <1>1, <3>a, <4>1
    <3>8. k \in 1 .. len + 1 /\ len + 1 \in Nat
      BY <1>1
    <3> QED
      BY <1>1, <3>3, <3>5, <3>6, <3>7, <3>8, FewSince
  <2> QED
    BY <1>2, <2>1, <2>2
<1>9. /\ bufPos' = RingPlace((len + 1) + 1)
      /\ \A k \in 1 .. len + 1 :
           (len + 1) - k < BufSize => buffer'[RingPlace(k)] = NumberOf(new[k])
  <2>1. bufPos' = Tele!NextPos(bufPos) /\ buffer' = [buffer EXCEPT ![bufPos] = NumberOf(v)]
    BY DEF Tele!Remember
  <2>2. len + 1 \in Nat \ {0} /\ RingPlace(len + 1) \in 0 .. BufSize - 1
    BY <1>1, RingPlaces
  <2>3. bufPos' = RingPlace((len + 1) + 1)
    BY <1>a, <2>1, <2>2, RingPlaces
  <2>4. ASSUME NEW k \in 1 .. len + 1, (len + 1) - k < BufSize
        PROVE  buffer'[RingPlace(k)] = NumberOf(new[k])
    <3>1. CASE k = len + 1
      BY <1>1, <1>a, <2>1, <2>2, <3>1 DEF TeleTypes
    <3>2. CASE k \in 1 .. len
      <4>1. k \in Nat \ {0} /\ k < len + 1 /\ len - k < BufSize
        BY <1>0, <1>1, <2>4, <3>2
      <4>2. RingPlace(k) # RingPlace(len + 1) /\ RingPlace(k) \in 0 .. BufSize - 1
        BY <2>2, <2>4, <4>1, RingPlaces
      <4>3. buffer'[RingPlace(k)] = buffer[RingPlace(k)]
        BY <1>a, <2>1, <4>2 DEF TeleTypes
      <4> QED
        BY <1>1, <1>a, <3>2, <4>1, <4>3
    <3> QED
      BY <1>2, <3>1, <3>2
  <2> QED
    BY <2>3, <2>4
<1>10. \A k \in 1 .. len + 1 : new[k] # 0 => new[k] \in Tele!Forwarded'
  <2> SUFFICES ASSUME NEW k \in 1 .. len + 1, new[k] # 0  PROVE new[k] \in Tele!Forwarded'
    OBVIOUS
  <2>1. CASE k \in 1 .. len
    BY <1>1, <1>a, <2>1
  <2>2. CASE k = len + 1
    BY <1>1, <2>2
  <2> QED
    BY <1>2, <2>1, <2>2
<1>11. \A n \in Tele!Forwarded' : \E k \in 1 .. len + 1 : new[k] = n
  <2> SUFFICES ASSUME NEW n \in Tele!Forwarded'  PROVE \E k \in 1 .. len + 1 : new[k] = n
    OBVIOUS
  <2>1. CASE n \in Tele!Forwarded
    <3>1. PICK k \in 1 .. len : log[k] = n
      BY <1>a, <2>1
    <3>2. k \in 1 .. len + 1
      BY <1>1
    <3> QED
      BY <1>1, <3>1, <3>2
  <2>2. CASE n = v
    <3>1. len + 1 \in 1 .. len + 1
      BY <1>1
    <3> QED
      BY <1>1, <2>2, <3>1
  <2> QED
    BY <2>1, <2>2
<1>12. \A n : NumberOf(n)' = NumberOf(n)
  BY DEF NumberOf
<1> QED
  <2>1. new \in Seq(0 .. Len(air'))
    BY <1>1, <1>b
  <2> QED
    BY <1>1, <1>6, <1>7, <1>8, <1>9, <1>10, <1>11, <1>12, <2>1 DEF RingLog, new

(* Nothing is remembered, and what is known of the packets stays.          *)
LEMMA RingStays ==
  ASSUME TeleTypes, NEW log \in Seq(0 .. Len(air)), RingLog(log),
         UNCHANGED <<buffer, bufPos, out>>, Len(air') \in Nat, Len(air') >= Len(air),
         \A n \in 1 .. Len(air) : air'[n] = air[n],
         \A c \in Cards : heard'[c] \in Nat /\ heard'[c] >= heard[c]
  PROVE  log \in Seq(0 .. Len(air')) /\ RingLog(log)'
<1>1. Len(log) \in Nat /\ \A k \in 1 .. Len(log) : log[k] \in 0 .. Len(air)
  OBVIOUS
<1>2. Len(air) \in Nat /\ \A c \in Cards : heard[c] \in Nat
  BY DEF TeleTypes
<1>3. log \in Seq(0 .. Len(air'))
  <2>1. \A k \in 1 .. Len(log) : log[k] \in 0 .. Len(air')
    BY <1>1, <1>2
  <2> QED
    BY <2>1
<1>4. \A k \in 1 .. Len(log) : NumberOf(log[k])' = NumberOf(log[k])
  <2> SUFFICES ASSUME NEW k \in 1 .. Len(log)
               PROVE  (IF log[k] = 0 THEN 0 ELSE air'[log[k]].seq)
                        = (IF log[k] = 0 THEN 0 ELSE air[log[k]].seq)
    BY DEF NumberOf
  <2>1. log[k] # 0 => log[k] \in 1 .. Len(air)
    BY <1>1, <1>2
  <2> QED
    BY <2>1
<1>5. Tele!Forwarded' = Tele!Forwarded
  BY DEF Tele!Forwarded
<1>6. \A k \in 1 .. Len(log) : \A c \in Cards : heard'[c] < log[k] => Len(log) - k < BufSize
  BY <1>1, <1>2 DEF RingLog
<1>7. /\ bufPos' = RingPlace(Len(log) + 1)
      /\ \A k \in 1 .. Len(log) :
           Len(log) - k < BufSize => buffer'[RingPlace(k)] = NumberOf(log[k])'
  BY <1>4 DEF RingLog
<1> QED
  BY <1>3, <1>5, <1>6, <1>7 DEF RingLog

LEMMA TeleInvInit == Tele!Init => TeleInv
<1> SUFFICES ASSUME Tele!Init  PROVE TeleInv
  OBVIOUS
<1> USE DEF Tele!Init
<1>0. BufSize \in Nat /\ BufSize > 2 /\ Skew \in Nat
  BY TeleSizes
<1>1. TeleTypes
  BY <1>0 DEF TeleTypes
<1>2. RingInv
  <2>1. <<>> \in Seq(0 .. Len(air)) /\ Len(<<>>) = 0 /\ Len(out) = 0 /\ 1 .. 0 = {}
    OBVIOUS
  <2>2. bufPos = RingPlace(Len(<<>>) + 1)
    <3>1. (BufSize * 0 + (BufSize - 2)) % BufSize = BufSize - 2
      BY <1>0, RemainderUnique
    <3>2. BufSize + 1 - 3 = BufSize - 2 /\ BufSize * 0 + (BufSize - 2) = BufSize - 2
      BY <1>0
    <3> QED
      BY <2>1, <3>1, <3>2 DEF RingPlace
  <2>3. RingLog(<<>>)
    BY <2>1, <2>2 DEF RingLog, Tele!Forwarded
  <2> QED
    BY <2>1, <2>3 DEF RingInv
<1>3. HeldInv
  <2>1. IsFiniteSet({0}) /\ Cardinality({0}) = 1
    BY FS_Singleton
  <2>2. Len(air) = 0 /\ 1 .. 0 = {}
    OBVIOUS
  <2>3. Robots(0) = {} /\ Tele!HeldBack = {}
    BY <2>2 DEF Robots, Tele!HeldBack
  <2>4. Numbered(0)
    <3>1. \A c \in Cards : heard[c] + 1 .. 0 = {}
      OBVIOUS
    <3> QED
      BY <2>2, <2>3, <3>1 DEF Numbered
  <2>5. HeldSince(0, {0})
    BY <1>0, <2>1, <2>3 DEF HeldSince, Early, Used
  <2>6. 0 \in 0 .. Len(air) /\ {0} \in SUBSET Nat
    OBVIOUS
  <2> QED
    BY <2>4, <2>5, <2>6 DEF HeldInv
<1> QED
  BY <1>1, <1>2, <1>3 DEF TeleInv

LEMMA InSeq ==
  ASSUME NEW T, NEW q \in Seq(T), NEW i \in 1 .. Len(q)
  PROVE  q[i] \in T
  OBVIOUS

LEMMA Widened ==
  ASSUME NEW S, NEW T, S \subseteq T, NEW q \in Seq(S)
  PROVE  q \in Seq(T)
  OBVIOUS

LEMMA RememberTypes ==
  ASSUME TeleTypes, NEW seq \in Nat, Tele!Remember(seq)
  PROVE  /\ buffer' \in [0 .. BufSize - 1 -> Nat] /\ bufPos' \in 0 .. BufSize - 1
         /\ \A i \in 0 .. BufSize - 1 : buffer'[i] = buffer[i] \/ buffer'[i] = seq
<1>1. /\ buffer \in [0 .. BufSize - 1 -> Nat] /\ bufPos \in 0 .. BufSize - 1
      /\ buffer' = [buffer EXCEPT ![bufPos] = seq] /\ bufPos' = Tele!NextPos(bufPos)
  BY DEF TeleTypes, Tele!Remember
<1>2. bufPos' \in 0 .. BufSize - 1
  BY <1>1, TeleSizes DEF Tele!NextPos
<1> QED
  BY <1>1, <1>2, Changed

LEMMA OneMore ==
  ASSUME NEW m \in Nat, m + 1 \in Nat
  PROVE  (m + 1) % SeqMod \in Nat
<1>1. SeqMod \in Nat \ {0}
  BY TeleSizes
<1>2. (m + 1) % SeqMod \in 0 .. SeqMod - 1
  BY <1>1, DivMod
<1>3. 0 .. SeqMod - 1 \subseteq Nat
  BY <1>1
<1> QED
  BY <1>2, <1>3

(* What a packet on the air changes.                                       *)
LEMMA OnTheAir ==
  ASSUME TeleTypes, NEW m \in Nat, NEW sender \in {"robot", "ground"}, Tele!Broadcast(m, sender)
  PROVE  /\ air' \in Seq(Packet) /\ Len(air) \in Nat /\ Len(air') = Len(air) + 1
         /\ air'[Len(air) + 1].seq = m /\ air'[Len(air) + 1].from = sender
         /\ \A n \in 1 .. Len(air) : air'[n] = air[n]
         /\ UNCHANGED <<heard, buffer, bufPos, run, out, withheld>>
         /\ heard' \in [Cards -> 0 .. Len(air')] /\ \A c \in Cards : Len(air') - heard'[c] <= Skew
         /\ out' \in Seq(1 .. Len(air')) /\ withheld' \subseteq 1 .. Len(air')
<1> DEFINE p == [seq |-> m, from |-> sender]
<1>0. Skew \in Nat /\ Len(air) \in Nat /\ \A c \in Cards : heard[c] \in Nat
  BY TeleSizes DEF TeleTypes
<1>1. /\ p \in Packet /\ p.seq = m /\ p.from = sender /\ air \in Seq(Packet) /\ air' = Append(air, p)
      /\ \A c \in Cards : Len(air) - heard[c] < Skew
  BY DEF TeleTypes, Tele!Broadcast, Packet
<1>2. UNCHANGED <<heard, buffer, bufPos, run, out, withheld>>
  BY DEF Tele!Broadcast, Tele!ring
<1>3. /\ air' \in Seq(Packet) /\ Len(air') = Len(air) + 1 /\ air'[Len(air) + 1] = p
      /\ \A n \in 1 .. Len(air) : air'[n] = air[n]
  <2> HIDE DEF p
  <2> QED
    BY <1>1, Behind
<1> HIDE DEF p
<1>4. PICK top \in Nat : top = Len(air)
  BY <1>0
<1>5. 0 .. top \subseteq 0 .. top + 1 /\ 1 .. top \subseteq 1 .. top + 1
  BY <1>4
<1>6. heard \in [Cards -> 0 .. top] /\ out \in Seq(1 .. top) /\ withheld \subseteq 1 .. top
  BY <1>4 DEF TeleTypes
<1>7. out \in Seq(1 .. top + 1)
  BY <1>5, <1>6, Widened
<1>8. \A c \in Cards : top + 1 - heard[c] <= Skew
  BY <1>0, <1>1, <1>4
<1>9. heard \in [Cards -> 0 .. top + 1] /\ withheld \subseteq 1 .. top + 1
  BY <1>5, <1>6
<1>10. Len(air') = top + 1
  BY <1>3, <1>4
<1> QED
  BY <1>0, <1>1, <1>2, <1>3, <1>7, <1>8, <1>9, <1>10

(* The air only grows and cards only go forward.                           *)
LEMMA TeleForward ==
  ASSUME TeleTypes, Tele!Next
  PROVE  /\ TeleTypes'
         /\ Len(air) \in Nat /\ Len(air') \in Nat /\ Len(air') >= Len(air)
         /\ \A n \in 1 .. Len(air) : air'[n] = air[n]
         /\ \A c \in Cards : heard'[c] \in Nat /\ heard'[c] >= heard[c]
<1> DEFINE top == Len(air)
<1>0. /\ BufSize \in Nat /\ BufSize > 2 /\ Skew \in Nat /\ SeqMod \in Nat \ {0}
      /\ top \in Nat /\ \A c \in Cards : heard[c] \in Nat
  BY TeleSizes DEF TeleTypes
<1>1. CASE Tele!Send \/ Tele!SendRc
  <2>0. PICK m \in Nat, sender \in {"robot", "ground"} : Tele!Broadcast(m, sender)
    BY <1>1 DEF TeleTypes, Tele!Send, Tele!SendRc
  <2>1. /\ air' \in Seq(Packet) /\ Len(air') = top + 1
        /\ \A n \in 1 .. top : air'[n] = air[n]
        /\ UNCHANGED <<heard, buffer, bufPos, run, out, withheld>>
        /\ heard' \in [Cards -> 0 .. Len(air')] /\ \A c \in Cards : Len(air') - heard'[c] <= Skew
        /\ out' \in Seq(1 .. Len(air')) /\ withheld' \subseteq 1 .. Len(air')
    BY <2>0, OnTheAir
  <2>2. seqno' \in Nat /\ rcSeqno' \in Nat
    <3>1. seqno \in Nat /\ rcSeqno \in Nat /\ seqno + 1 \in Nat /\ rcSeqno + 1 \in Nat
      BY DEF TeleTypes
    <3>2. (seqno + 1) % SeqMod \in Nat /\ (rcSeqno + 1) % SeqMod \in Nat
      BY <3>1, OneMore
    <3> QED
      BY <1>1, <3>1, <3>2 DEF Tele!Send, Tele!SendRc
  <2>3. run' \in Nat /\ buffer' \in [0 .. BufSize - 1 -> Nat] /\ bufPos' \in 0 .. BufSize - 1
    BY <2>1 DEF TeleTypes
  <2>4. TeleTypes'
    BY <2>1, <2>2, <2>3 DEF TeleTypes
  <2> QED
    BY <1>0, <2>1, <2>4
<1>2. CASE Tele!Restart
  BY <1>0, <1>2 DEF TeleTypes, Tele!Restart, Tele!ring
<1>3. CASE Tele!EmptyRead
  <2>1. UNCHANGED <<seqno, rcSeqno, air, heard, run, out, withheld>>
    BY <1>3 DEF Tele!EmptyRead
  <2>2. buffer' \in [0 .. BufSize - 1 -> Nat] /\ bufPos' \in 0 .. BufSize - 1
    <3>1. CASE Tele!Remember(0)
      <4>1. 0 \in Nat
        OBVIOUS
      <4> QED
        BY <3>1, <4>1, RememberTypes
    <3>2. CASE UNCHANGED <<buffer, bufPos>>
      BY <3>2 DEF TeleTypes
    <3> QED
      BY <1>3, <3>1, <3>2 DEF Tele!EmptyRead, Tele!ring
  <2>3. TeleTypes'
    BY <2>1, <2>2 DEF TeleTypes
  <2> QED
    BY <1>0, <2>1, <2>3
<1>4. ASSUME NEW c \in Cards, Tele!Process(c) \/ Tele!Miss(c)
      PROVE  /\ TeleTypes' /\ UNCHANGED air
             /\ \A d \in Cards : heard'[d] \in Nat /\ heard'[d] >= heard[d]
  <2> DEFINE n == heard[c] + 1
  <2>1. /\ heard[c] < top /\ heard' = [heard EXCEPT ![c] = n] /\ UNCHANGED <<seqno, rcSeqno, air, run>>
    BY <1>4 DEF Tele!Process, Tele!Miss
  <2>2. n \in 0 .. top /\ n \in 1 .. top /\ n = heard[c] + 1
    BY <1>0, <2>1
  <2>a. /\ heard' \in [Cards -> 0 .. top] /\ heard'[c] = n
        /\ \A d \in Cards : d # c => heard'[d] = heard[d]
    <3>1. heard \in [Cards -> 0 .. top]
      BY DEF TeleTypes
    <3> HIDE DEF n, top
    <3> QED
      BY <2>1, <2>2, <3>1, Changed
  <2>b. \A d \in Cards : /\ top - heard'[d] <= Skew
                         /\ heard'[d] \in Nat /\ heard'[d] >= heard[d]
    <3> SUFFICES ASSUME NEW d \in Cards
                 PROVE  top - heard'[d] <= Skew /\ heard'[d] \in Nat /\ heard'[d] >= heard[d]
      OBVIOUS
    <3> DEFINE h == heard[d]
    <3>1. h \in Nat /\ top - h <= Skew
      BY <1>0 DEF TeleTypes
    <3>2. heard'[d] = h \/ heard'[d] = h + 1
      BY <2>2, <2>a
    <3> HIDE DEF h, top
    <3>3. top - heard'[d] <= Skew /\ heard'[d] \in Nat /\ heard'[d] >= h
      BY <1>0, <3>1, <3>2
    <3> QED
      BY <3>3 DEF h, top
  <2>3. air[n].seq \in Nat
    <3>1. air \in Seq(Packet)
      BY DEF TeleTypes
    <3>2. n \in 1 .. Len(air)
      BY <2>2
    <3> HIDE DEF n
    <3>3. air[n] \in Packet
      BY <3>1, <3>2, InSeq
    <3> QED
      BY <3>3 DEF Packet
  <2>4. CASE UNCHANGED <<buffer, bufPos, out>> /\ withheld' \subseteq withheld \cup {n}
    <3>1. withheld' \subseteq 1 .. top
      <4> HIDE DEF n
      <4> QED
        BY <2>2, <2>4 DEF TeleTypes
    <3>2. TeleTypes'
      BY <2>1, <2>4, <2>a, <2>b, <3>1 DEF TeleTypes
    <3> QED
      BY <2>1, <2>b, <3>2
  <2>5. CASE Tele!Remember(air[n].seq) /\ out' = Append(out, n) /\ UNCHANGED withheld
    <3>1. out' \in Seq(1 .. top)
      BY <2>2, <2>5, Behind DEF TeleTypes
    <3>2. buffer' \in [0 .. BufSize - 1 -> Nat] /\ bufPos' \in 0 .. BufSize - 1
      BY <2>3, <2>5, RememberTypes
    <3>3. TeleTypes'
      BY <2>1, <2>5, <2>a, <2>b, <3>1, <3>2 DEF TeleTypes
    <3> QED
      BY <2>1, <2>b, <3>3
  <2> QED
    BY <1>4, <2>4, <2>5 DEF Tele!Process, Tele!Miss, Tele!ring
<1>5. \/ Tele!Send \/ Tele!SendRc \/ Tele!Restart \/ Tele!EmptyRead
      \/ \E c \in Cards : Tele!Process(c) \/ Tele!Miss(c)
  BY DEF Tele!Next
<1> QED
  <2>1. CASE \E c \in Cards : Tele!Process(c) \/ Tele!Miss(c)
    BY <1>0, <1>4, <2>1
  <2> QED
    BY <1>1, <1>2, <1>3, <1>5, <2>1

LEMMA RingInvStep ==
  ASSUME TeleTypes, RingInv, Tele!Next
  PROVE  RingInv'
<1> SUFFICES ASSUME 2 * Skew <= BufSize
             PROVE  /\ \E log \in Seq(0 .. Len(air')) : RingLog(log)'
                    /\ \A i, j \in 1 .. Len(out') : out'[i] = out'[j] => i = j
  BY DEF RingInv
<1>0. PICK log \in Seq(0 .. Len(air)) : RingLog(log)
  BY DEF RingInv
<1>1. \A i, j \in 1 .. Len(out) : out[i] = out[j] => i = j
  BY DEF RingInv
<1>2. /\ TeleTypes' /\ Len(air) \in Nat /\ Len(air') \in Nat /\ Len(air') >= Len(air)
      /\ \A n \in 1 .. Len(air) : air'[n] = air[n]
      /\ \A c \in Cards : heard'[c] \in Nat /\ heard'[c] >= heard[c]
  BY TeleForward
<1>3. CASE UNCHANGED <<buffer, bufPos, out>>
  <2>1. log \in Seq(0 .. Len(air')) /\ RingLog(log)'
    BY <1>0, <1>2, <1>3, RingStays
  <2> QED
    BY <1>1, <1>3, <2>1
<1>4. CASE Tele!EmptyRead /\ ~Tele!Known(0) /\ Tele!Remember(0)
  <2>1. UNCHANGED <<air, out>>
    BY <1>4 DEF Tele!EmptyRead
  <2>2. NumberOf(0) = 0 /\ 0 \in 0 .. Len(air)
    BY <1>2 DEF NumberOf
  <2>3. Tele!Forwarded' = Tele!Forwarded
    BY <2>1 DEF Tele!Forwarded
  <2>4. RingLog(Append(log, 0))'
    BY <1>0, <1>2, <1>4, <2>1, <2>2, <2>3, RingPushed
  <2>5. Append(log, 0) \in Seq(0 .. Len(air'))
    BY <1>0, <2>1, <2>2, Behind
  <2> QED
    BY <1>1, <2>1, <2>4, <2>5
<1>5. ASSUME NEW c \in Cards, heard[c] < Len(air), heard' = [heard EXCEPT ![c] = @ + 1],
             ~Tele!Known(air[heard[c] + 1].seq), Tele!Remember(air[heard[c] + 1].seq),
             out' = Append(out, heard[c] + 1), UNCHANGED air
      PROVE  /\ \E new \in Seq(0 .. Len(air')) : RingLog(new)'
             /\ \A i, j \in 1 .. Len(out') : out'[i] = out'[j] => i = j
  <2>0. PICK n \in 0 .. Len(air) : n = heard[c] + 1
    <3>1. heard[c] \in 0 .. Len(air)
      BY DEF TeleTypes
    <3> QED
      BY <1>2, <1>5, <3>1
  <2>1. n \in 1 .. Len(air) /\ n \in 0 .. Len(air) /\ n # 0 /\ heard[c] < n
    <3>1. heard[c] \in 0 .. Len(air)
      BY DEF TeleTypes
    <3> QED
      BY <1>2, <2>0, <3>1
  <2>2. NumberOf(n) = air[n].seq
    BY <2>1 DEF NumberOf
  <2>3. n \notin Tele!Forwarded
    BY <1>0, <1>5, <2>0, <2>1, <2>2, KnownWhenHeard
  <2>4. out \in Seq(1 .. Len(air))
    BY DEF TeleTypes
  <2>5. /\ Len(out) \in Nat /\ Len(out') = Len(out) + 1 /\ out'[Len(out) + 1] = n
        /\ \A i \in 1 .. Len(out) : out'[i] = out[i]
    <3>1. out' = Append(out, n) /\ n \in 1 .. Len(air)
      BY <1>5, <2>0, <2>1
    <3> QED
      BY <2>4, <3>1, Behind
  <2> DEFINE m == Len(out)
  <2>6. \A i \in 1 .. m + 1 : i \in 1 .. m \/ i = m + 1
    BY <2>5
  <2>7. Tele!Forwarded' = Tele!Forwarded \cup {n}
    <3>1. m + 1 \in 1 .. m + 1 /\ \A i \in 1 .. m : i \in 1 .. m + 1
      BY <2>5
    <3> HIDE DEF m
    <3>2. \A x : x \in {out'[i] : i \in 1 .. m + 1} <=> (x \in {out[i] : i \in 1 .. m} \/ x = n)
      BY <2>5, <2>6, <3>1 DEF m
    <3> QED
      BY <2>5, <3>2 DEF Tele!Forwarded, m
  <2>8. \A i, j \in 1 .. Len(out') : out'[i] = out'[j] => i = j
    <3>1. \A i \in 1 .. m : out[i] # n
      BY <2>3 DEF Tele!Forwarded
    <3> QED
      BY <1>1, <2>5, <2>6, <3>1
  <2>9. RingLog(Append(log, n))'
    <3>1. n # 0 => \E d \in Cards : heard[d] + 1 = n
      BY <2>0
    <3>2. Tele!Forwarded' = IF n = 0 THEN Tele!Forwarded ELSE Tele!Forwarded \cup {n}
      BY <2>1, <2>7
    <3>3. air' = air /\ ~Tele!Known(NumberOf(n)) /\ Tele!Remember(NumberOf(n))
      BY <1>5, <2>0, <2>2
    <3>4. /\ n \in 0 .. Len(air) /\ RingLog(log)
          /\ \A d \in Cards : heard'[d] \in Nat /\ heard'[d] >= heard[d]
          /\ log \in Seq(0 .. Len(air))
      BY <1>0, <1>2, <2>1
    <3> QED
      BY <3>1, <3>2, <3>3, <3>4, RingPushed
  <2>10. Append(log, n) \in Seq(0 .. Len(air'))
    <3> QED
      BY <1>0, <1>5, <2>1, Behind
  <2>11. \E new \in Seq(0 .. Len(air')) : RingLog(new)'
    <3> QED
      BY <2>9, <2>10, Zenon
  <2> QED
    BY <2>8, <2>11
<1>6. \/ UNCHANGED <<buffer, bufPos, out>>
      \/ Tele!EmptyRead /\ ~Tele!Known(0) /\ Tele!Remember(0)
      \/ \E c \in Cards : /\ heard[c] < Len(air) /\ heard' = [heard EXCEPT ![c] = @ + 1]
                          /\ ~Tele!Known(air[heard[c] + 1].seq)
                          /\ Tele!Remember(air[heard[c] + 1].seq)
                          /\ out' = Append(out, heard[c] + 1) /\ UNCHANGED air
  BY DEF Tele!Next, Tele!Send, Tele!SendRc, Tele!Broadcast, Tele!Restart, Tele!EmptyRead,
         Tele!Process, Tele!Miss, Tele!ring
<1> QED
  BY <1>3, <1>4, <1>5, <1>6

LEMMA ForwardedHeard ==
  ASSUME TeleTypes  PROVE \A m \in Tele!Forwarded : m \in 1 .. Len(air)
<1>1. out \in Seq(1 .. Len(air))
  BY DEF TeleTypes
<1>2. \A i \in 1 .. Len(out) : out[i] \in 1 .. Len(air)
  BY <1>1
<1> QED
  BY <1>2 DEF Tele!Forwarded

LEMMA NumbersTyped ==
  ASSUME TeleTypes  PROVE \A n \in 1 .. Len(air) : air[n].seq \in Nat
<1>1. air \in Seq(Packet)
  BY DEF TeleTypes
<1>2. \A n \in 1 .. Len(air) : air[n] \in Packet
  BY <1>1, InSeq
<1> QED
  BY <1>2 DEF Packet

(* How many packets can have been held back by the end of a run.           *)
LEMMA HeldBackFew ==
  ASSUME TeleTypes, NEW base \in 0 .. Len(air), NEW held \in SUBSET Nat,
         Numbered(base), HeldSince(base, held)
  PROVE  IsFiniteSet(Tele!HeldBack) /\ Cardinality(Tele!HeldBack) <= run * BufSize
<1> DEFINE S == Tele!HeldBack
           E == Early(base)
           L == {n \in Tele!HeldBack : n > base}
<1>0. /\ withheld \subseteq 1 .. Len(air) /\ Len(air) \in Nat /\ base \in Nat
      /\ BufSize \in Nat /\ run \in Nat /\ rcSeqno \in Nat
  BY TeleSizes DEF TeleTypes
<1>1. IsFiniteSet(1 .. Len(air))
  BY <1>0, FS_Interval
<1>2. S \in SUBSET (1 .. Len(air)) /\ E \in SUBSET (1 .. Len(air)) /\ L \in SUBSET (1 .. Len(air))
  BY <1>0 DEF Early, Tele!HeldBack
<1>3. IsFiniteSet(S) /\ IsFiniteSet(E) /\ IsFiniteSet(L)
  <2> HIDE DEF S, E, L
  <2> QED
    BY <1>1, <1>2, FS_Subset
<1>4. S = E \cup L
  <2>1. \A n \in S : n <= base \/ n > base
    BY <1>0, <1>2
  <2> QED
    BY <2>1 DEF Early
<1>5. Cardinality(S) <= Cardinality(E) + Cardinality(L)
  <2> HIDE DEF S, E, L
  <2>1. Cardinality(E \cup L) = Cardinality(E) + Cardinality(L) - Cardinality(E \cap L)
    BY <1>3, FS_Union
  <2>2. IsFiniteSet(E \cap L)
    BY <1>3, FS_Subset
  <2>3. Cardinality(E \cap L) \in Nat /\ Cardinality(E) \in Nat /\ Cardinality(L) \in Nat
    BY <1>3, <2>2, FS_CardinalityType
  <2> QED
    BY <1>4, <2>1, <2>3
<1>6. Cardinality(S) \in Nat /\ Cardinality(E) \in Nat /\ Cardinality(L) \in Nat
  <2> HIDE DEF S, E, L
  <2> QED
    BY <1>3, FS_CardinalityType
<1>a. \A n \in L : /\ n \in Robots(base) /\ n \in Nat /\ air[n].seq # 0
                   /\ air[n].seq \in held
  <2> SUFFICES ASSUME NEW n \in L
               PROVE  n \in Robots(base) /\ n \in Nat /\ air[n].seq # 0 /\ air[n].seq \in held
    OBVIOUS
  <2>1. /\ n \in withheld /\ n > base /\ air[n].from = "robot"
        /\ air[n].seq # 0 /\ air[n].seq >= rcSeqno
    BY DEF Tele!HeldBack
  <2>2. n \in 1 .. Len(air) /\ n \in base + 1 .. Len(air)
    BY <1>0, <2>1
  <2>3. n \in Robots(base)
    BY <2>1, <2>2 DEF Robots
  <2>4. Used(held, air[n].seq)
    BY <2>1, <2>3 DEF HeldSince
  <2>5. ~(air[n].seq < rcSeqno)
    <3>1. PICK q \in Nat : q = air[n].seq
      BY <2>2, NumbersTyped
    <3> QED
      BY <1>0, <2>1, <3>1
  <2> QED
    BY <2>1, <2>2, <2>3, <2>4, <2>5 DEF Used
<1>7. CASE run = 0
  <2>1. E = {} /\ held = {0}
    BY <1>7 DEF HeldSince
  <2>2. S = {}
    BY <1>4, <1>a, <2>1
  <2> HIDE DEF S, E, L
  <2>3. Cardinality(S) = 0
    BY <2>2, FS_EmptySet
  <2> QED
    BY <1>0, <1>3, <1>7, <2>3 DEF S
<1>8. CASE run # 0
  <2>1. Cardinality(E) <= (run - 1) * BufSize
    BY <1>8 DEF HeldSince
  <2> DEFINE f == [n \in L |-> air[n].seq]
  <2>2. f \in [L -> held]
    BY <1>a
  <2>3. \A m, n \in L : f[m] = f[n] => m = n
    <3> SUFFICES ASSUME NEW m \in L, NEW n \in L, m < n  PROVE f[m] # f[n]
      <4>1. \A m, n \in L : m = n \/ m < n \/ n < m
        BY <1>a
      <4> QED
        BY <4>1
    <3>1. air[m].seq < air[n].seq
      BY <1>a DEF Numbered
    <3>2. air[m].seq \in Nat /\ air[n].seq \in Nat
      BY <1>2, NumbersTyped
    <3> QED
      BY <3>1, <3>2
  <2> HIDE DEF f, S, E, L
  <2>4. f \in Injection(L, held)
    BY <2>2, <2>3, Fun_IsInj
  <2>5. Cardinality(L) <= Cardinality(held)
    BY <2>4, FS_Injection DEF HeldSince
  <2>6. Cardinality(held) \in Nat /\ Cardinality(held) <= BufSize
    BY FS_CardinalityType DEF HeldSince
  <2>7. Cardinality(S) <= (run - 1) * BufSize + BufSize
    <3>1. (run - 1) * BufSize \in Nat
      BY <1>0, <1>8
    <3> QED
      BY <1>0, <1>5, <1>6, <2>1, <2>5, <2>6, <3>1
  <2>8. (run - 1) * BufSize + BufSize = run * BufSize
    BY <1>0, <1>8
  <2> QED
    BY <1>3, <2>7, <2>8 DEF S
<1> QED
  BY <1>7, <1>8

(* A run begins: the ring holds BufSize numbers at most.                   *)
LEMMA NewRun ==
  ASSUME TeleTypes, NEW base \in 0 .. Len(air), NEW held \in SUBSET Nat,
         Numbered(base), HeldSince(base, held), Tele!Restart,
         NEW top, top = Len(air), NEW R, R = {buffer[i] : i \in 0 .. BufSize - 1}
  PROVE  Numbered(top)' /\ HeldSince(top, R)'
<1> DEFINE I == 0 .. BufSize - 1
<1>0. /\ BufSize \in Nat /\ BufSize > 2 /\ Len(air) \in Nat /\ run \in Nat
      /\ withheld \subseteq 1 .. Len(air) /\ buffer \in [I -> Nat]
  BY TeleSizes DEF TeleTypes
<1>1. /\ run' = run + 1 /\ seqno' = 0
      /\ UNCHANGED <<rcSeqno, air, heard, buffer, bufPos, out, withheld>>
      /\ \A c \in Cards : \A n \in heard[c] + 1 .. Len(air) : air[n].from = "ground"
  BY DEF Tele!Restart, Tele!ring
<1>2. IsFiniteSet(I) /\ Cardinality(I) = BufSize
  <2>1. IsFiniteSet(I) /\ Cardinality(I) = IF 0 > BufSize - 1 THEN 0 ELSE BufSize - 1 - 0 + 1
    <3>1. 0 \in Int /\ BufSize - 1 \in Int
      BY <1>0
    <3> QED
      BY <3>1, FS_Interval
  <2> HIDE DEF I
  <2> QED
    BY <1>0, <2>1
<1>3. IsFiniteSet(R) /\ Cardinality(R) <= BufSize
  <2>1. buffer \in [I -> R] /\ \A r \in R : \E i \in I : buffer[i] = r
    BY <1>0
  <2> HIDE DEF I
  <2>2. buffer \in Surjection(I, R)
    BY <2>1, Fun_IsSurj
  <2> QED
    BY <1>2, <2>2, FS_Surjection
<1>4. Robots(top)' = {}
  <2>1. Len(air) + 1 .. Len(air) = {}
    BY <1>0
  <2> QED
    BY <1>1, <2>1 DEF Robots
<1>5. Early(top)' = Tele!HeldBack
  <2>1. \A n \in withheld : n <= Len(air)
    BY <1>0
  <2> QED
    BY <1>1, <2>1 DEF Early, Tele!HeldBack
<1>6. Cardinality(Early(top)') <= run * BufSize
  BY <1>5, HeldBackFew
<1>7. run' # 0 /\ (run' - 1) * BufSize = run * BufSize
  BY <1>0, <1>1
<1>8. Numbered(top)'
  BY <1>0, <1>1, <1>4 DEF Numbered
<1>9. \A i \in I : Used(R, buffer[i])'
  BY <1>1 DEF Used
<1>10. HeldSince(top, R)'
  BY <1>3, <1>4, <1>6, <1>7, <1>9 DEF HeldSince
<1> QED
  BY <1>8, <1>10

(* Within a run: no number of the robot's is used twice.                   *)
LEMMA NumberedStep ==
  ASSUME TeleTypes, NEW base \in 0 .. Len(air), Numbered(base), Tele!Next, ~Tele!Restart,
         Len(air') <= SeqMod \div 2
  PROVE  Numbered(base)' /\ Robots(base) \subseteq Robots(base)' /\ rcSeqno' \in Nat /\ rcSeqno' >= rcSeqno
<1>0. /\ SeqMod \in Nat \ {0} /\ Len(air) \in Nat /\ base \in Nat
      /\ seqno \in Nat /\ rcSeqno \in Nat /\ heard \in [Cards -> 0 .. Len(air)]
      /\ \A n \in 1 .. Len(air) : air[n].seq \in Nat
  BY TeleSizes, NumbersTyped DEF TeleTypes
<1>1. PICK top \in Nat : top = Len(air)
  BY <1>0
<1>2. base <= top /\ base + 1 .. top \subseteq 1 .. top
  BY <1>0, <1>1
<1>3. \A c \in Cards : heard[c] + 1 .. base \subseteq 1 .. top
  <2>1. \A c \in Cards : heard[c] \in Nat
    BY <1>0
  <2> QED
    BY <1>2, <2>1
<1>4. CASE Tele!Send \/ Tele!SendRc
  <2>1. PICK m \in Nat, sender \in {"robot", "ground"} :
          /\ Tele!Broadcast(m, sender)
          /\ \/ /\ sender = "robot" /\ m = seqno /\ seqno' = (seqno + 1) % SeqMod /\ rcSeqno' = rcSeqno
             \/ /\ sender = "ground" /\ m = rcSeqno /\ rcSeqno' = (rcSeqno + 1) % SeqMod /\ seqno' = seqno
    BY <1>0, <1>4 DEF Tele!Send, Tele!SendRc
  <2>2. /\ Len(air') = top + 1 /\ air'[top + 1].seq = m /\ air'[top + 1].from = sender
        /\ \A n \in 1 .. top : air'[n] = air[n] /\ UNCHANGED heard
    BY <1>1, <2>1, OnTheAir
  <2>a. heard' = heard
    BY <2>1, OnTheAir
  <2>3. seqno <= top /\ rcSeqno <= top
    BY <1>1 DEF Numbered
  <2>4. m + 1 \in 0 .. SeqMod - 1
    <3>1. m <= top /\ top + 1 <= SeqMod \div 2
      BY <2>1, <2>2, <2>3
    <3>2. SeqMod \div 2 <= SeqMod - 1
      BY <1>0
    <3>3. SeqMod \div 2 \in Nat
      BY <1>0
    <3> QED
      BY <1>0, <3>1, <3>2, <3>3
  <2>5. (m + 1) % SeqMod = m + 1
    <3>1. (SeqMod * 0 + (m + 1)) % SeqMod = m + 1
      BY <1>0, <2>4, RemainderUnique
    <3>2. SeqMod * 0 + (m + 1) = m + 1
      BY <1>0
    <3> QED
      BY <3>1, <3>2
  <2>6. \/ sender = "robot" /\ m = seqno /\ seqno' = seqno + 1 /\ rcSeqno' = rcSeqno
        \/ sender = "ground" /\ m = rcSeqno /\ rcSeqno' = rcSeqno + 1 /\ seqno' = seqno
    BY <2>1, <2>5
  <2>7. Robots(base)' = IF sender = "robot" THEN Robots(base) \cup {top + 1} ELSE Robots(base)
    <3>1. base + 1 .. top + 1 = (base + 1 .. top) \cup {top + 1}
      BY <1>0, <1>2
    <3>2. Robots(base)' = {n \in base + 1 .. top + 1 : air'[n].from = "robot"}
      BY <2>2 DEF Robots
    <3>3. \A n \in base + 1 .. top : air'[n] = air[n]
      BY <1>2, <2>2
    <3> QED
      BY <1>1, <2>2, <2>6, <3>1, <3>2, <3>3 DEF Robots
  <2>8. \A n \in 1 .. top + 1 : n \in 1 .. top \/ n = top + 1
    OBVIOUS
  <2>9. \A n \in 1 .. top : air[n].seq < top /\ (air[n].from = "ground" => air[n].seq < rcSeqno)
    BY <1>1 DEF Numbered
  <2>10. \A n \in 1 .. top + 1 :
           air'[n].seq < top + 1 /\ (air'[n].from = "ground" => air'[n].seq < rcSeqno')
    <3> SUFFICES ASSUME NEW n \in 1 .. top + 1
                 PROVE  air'[n].seq < top + 1 /\ (air'[n].from = "ground" => air'[n].seq < rcSeqno')
      OBVIOUS
    <3>1. CASE n \in 1 .. top
      <4>1. PICK q \in Nat : q = air[n].seq
        BY <1>0, <1>1, <3>1
      <4>2. q < top /\ (air[n].from = "ground" => q < rcSeqno)
        BY <2>9, <3>1, <4>1
      <4>3. rcSeqno' >= rcSeqno /\ rcSeqno' \in Nat
        BY <1>0, <2>6
      <4>4. q < top + 1 /\ (air[n].from = "ground" => q < rcSeqno')
        BY <1>0, <4>2, <4>3
      <4> QED
        BY <2>2, <3>1, <4>1, <4>4
    <3>2. CASE n = top + 1
      BY <1>0, <2>2, <2>3, <2>6, <3>2
    <3> QED
      BY <2>8, <3>1, <3>2
  <2>11. \A n \in Robots(base) : n \in 1 .. top /\ air[n].seq < seqno /\ air'[n] = air[n]
    BY <1>1, <1>2, <2>2 DEF Robots, Numbered
  <2>12. \A n \in Robots(base)' : air'[n].seq < seqno'
    <3> SUFFICES ASSUME NEW n \in Robots(base)'  PROVE air'[n].seq < seqno'
      OBVIOUS
    <3>1. CASE n \in Robots(base)
      <4>1. PICK q \in Nat : q = air[n].seq
        BY <1>0, <1>1, <2>11, <3>1
      <4>2. q < seqno
        BY <2>11, <3>1, <4>1
      <4>3. q < seqno'
        BY <1>0, <2>6, <4>2
      <4> QED
        BY <2>11, <3>1, <4>1, <4>3
    <3>2. CASE n \notin Robots(base)
      <4>1. n = top + 1 /\ sender = "robot"
        BY <2>7, <3>2
      <4> QED
        BY <1>0, <2>2, <2>6, <4>1
    <3> QED
      BY <3>1, <3>2
  <2>13. \A k, n \in Robots(base)' : k < n => air'[k].seq < air'[n].seq
    <3> SUFFICES ASSUME NEW k \in Robots(base)', NEW n \in Robots(base)', k < n
                 PROVE  air'[k].seq < air'[n].seq
      OBVIOUS
    <3>1. k \in Robots(base)
      <4>1. \A x \in Robots(base)' : x \in Robots(base) \/ x = top + 1
        BY <2>7
      <4>2. \A x \in Robots(base)' : x \in Nat /\ x <= top + 1
        BY <2>11, <4>1
      <4> QED
        BY <4>1, <4>2
    <3>2. CASE n \in Robots(base)
      BY <2>11, <3>1, <3>2 DEF Numbered
    <3>3. CASE n \notin Robots(base)
      <4>1. n = top + 1 /\ sender = "robot"
        BY <2>7, <3>3
      <4>2. air'[n].seq = seqno
        BY <2>2, <2>6, <4>1
      <4> QED
        BY <2>11, <3>1, <4>2
    <3> QED
      BY <3>2, <3>3
  <2>14. \A c \in Cards : \A n \in heard'[c] + 1 .. base : air'[n].from = "ground"
    BY <1>3, <2>2, <2>a DEF Numbered
  <2>15. seqno' <= top + 1 /\ rcSeqno' <= top + 1 /\ rcSeqno' \in Nat /\ rcSeqno' >= rcSeqno
    BY <1>0, <2>3, <2>6
  <2> QED
    BY <2>2, <2>7, <2>10, <2>12, <2>13, <2>14, <2>15 DEF Numbered
<1>5. ASSUME UNCHANGED <<seqno, rcSeqno, air>>,
             \A c \in Cards : heard'[c] \in Nat /\ heard'[c] >= heard[c]
      PROVE  Numbered(base)' /\ Robots(base)' = Robots(base) /\ rcSeqno' = rcSeqno
  <2>1. \A c \in Cards : heard'[c] + 1 .. base \subseteq heard[c] + 1 .. base
    <3>1. \A c \in Cards : heard[c] \in Nat
      BY <1>0
    <3> QED
      BY <1>0, <1>5, <3>1
  <2>2. Robots(base)' = Robots(base)
    BY <1>5 DEF Robots
  <2> QED
    BY <1>5, <2>1, <2>2 DEF Numbered
<1>6. \A c \in Cards : heard'[c] \in Nat /\ heard'[c] >= heard[c]
  BY TeleForward
<1>7. Tele!Send \/ Tele!SendRc \/ UNCHANGED <<seqno, rcSeqno, air>>
  BY DEF Tele!Next, Tele!EmptyRead, Tele!Process, Tele!Miss
<1> QED
  BY <1>0, <1>4, <1>5, <1>6, <1>7

(* Within a run, what is remembered or withheld is nothing but packets of  *)
(* the run, and numbers that are used already.                             *)
LEMMA HeldKept ==
  ASSUME TeleTypes, NEW base \in 0 .. Len(air), NEW held \in SUBSET Nat, HeldSince(base, held),
         run' = run, \A n \in 1 .. Len(air) : air'[n] = air[n], Len(air') \in Nat,
         Robots(base) \subseteq Robots(base)', rcSeqno' \in Nat, rcSeqno' >= rcSeqno,
         Tele!Forwarded \subseteq Tele!Forwarded',
         buffer' \in [0 .. BufSize - 1 -> Nat],
         \A i \in 0 .. BufSize - 1 :
           \/ buffer'[i] = buffer[i]
           \/ Used(held, buffer'[i])
           \/ \E m \in Tele!Forwarded' : m \in Robots(base) /\ buffer'[i] = air[m].seq,
         \A n \in withheld' :
           \/ n \in withheld
           \/ (n \in Robots(base) /\ Used(held, air[n].seq))
           \/ n \in 1 .. Len(air) /\ air[n].from = "ground"
  PROVE  HeldSince(base, held)'
<1>0. /\ Len(air) \in Nat /\ base \in Nat /\ rcSeqno \in Nat /\ withheld \subseteq 1 .. Len(air)
      /\ buffer \in [0 .. BufSize - 1 -> Nat] /\ \A n \in 1 .. Len(air) : air[n].seq \in Nat
  BY NumbersTyped DEF TeleTypes
<1>1. \A n \in Robots(base) : n \in 1 .. Len(air) /\ n > base /\ air'[n] = air[n]
  BY <1>0 DEF Robots
<1>2. \A q \in Nat : Used(held, q) => Used(held, q)'
  BY <1>0 DEF Used
<1>3. ASSUME NEW i \in 0 .. BufSize - 1
      PROVE  (\/ Used(held, buffer[i])
              \/ \E m \in Tele!Forwarded : m \in Robots(base) /\ buffer[i] = air[m].seq)'
  <2>1. PICK q \in Nat : q = buffer'[i]
    OBVIOUS
  <2>2. CASE Used(held, q)
    BY <1>2, <2>1, <2>2
  <2>3. CASE \E m \in Tele!Forwarded' : m \in Robots(base) /\ q = air[m].seq
    BY <1>1, <2>1, <2>3
  <2>4. CASE q = buffer[i]
    <3>1. Used(held, q) \/ \E m \in Tele!Forwarded : m \in Robots(base) /\ q = air[m].seq
      BY <2>4 DEF HeldSince
    <3> QED
      BY <2>2, <2>3, <3>1
  <2> QED
    BY <2>1, <2>2, <2>3, <2>4
<1>4. \A n \in withheld' : n \in 1 .. Len(air)
  BY <1>0, <1>1
<1>5. \A n \in 1 .. Len(air) : n \in Robots(base)' => n \in Robots(base)
  BY <1>0 DEF Robots
<1>6. ASSUME NEW n \in withheld', n \in Robots(base)'
      PROVE  Used(held, air[n].seq)'
  <2>1. n \in Robots(base) /\ n \in 1 .. Len(air) /\ air'[n] = air[n] /\ air[n].seq \in Nat
    BY <1>0, <1>4, <1>5, <1>6
  <2>2. air[n].from = "robot"
    BY <2>1 DEF Robots
  <2>3. Used(held, air[n].seq)
    BY <1>6, <2>1, <2>2 DEF HeldSince
  <2>4. PICK q \in Nat : q = air[n].seq
    BY <2>1
  <2>5. Used(held, q)'
    BY <1>2, <2>3, <2>4
  <2> QED
    BY <2>1, <2>4, <2>5
<1>7. Early(base)' \subseteq Early(base)
  <2> SUFFICES ASSUME NEW n \in Early(base)'  PROVE n \in Early(base)
    OBVIOUS
  <2>1. /\ n \in withheld' /\ n <= base /\ air'[n].from = "robot"
        /\ air'[n].seq # 0 /\ air'[n].seq >= rcSeqno'
    BY DEF Early, Tele!HeldBack
  <2>2. n \in 1 .. Len(air) /\ air'[n] = air[n]
    BY <1>4, <2>1
  <2>3. n \in withheld
    BY <1>0, <1>1, <2>1, <2>2
  <2>4. air[n].seq >= rcSeqno
    <3>1. PICK q \in Nat : q = air[n].seq
      BY <1>0, <2>2
    <3> QED
      BY <1>0, <2>1, <2>2, <3>1
  <2> QED
    BY <2>1, <2>2, <2>3, <2>4 DEF Early, Tele!HeldBack
<1>8. /\ Cardinality(Early(base)') <= Cardinality(Early(base))
      /\ Cardinality(Early(base)') \in Nat /\ Cardinality(Early(base)) \in Nat
  <2>1. Early(base) \subseteq 1 .. Len(air)
    <3>1. Early(base) \subseteq withheld
      BY DEF Early, Tele!HeldBack
    <3> QED
      BY <1>0, <3>1
  <2>a. IsFiniteSet(1 .. Len(air))
    BY <1>0, FS_Interval
  <2>2. IsFiniteSet(Early(base)) /\ IsFiniteSet(Early(base)')
    BY <1>7, <2>1, <2>a, FS_Subset
  <2> QED
    BY <1>7, <2>2, FS_Subset, FS_CardinalityType
<1>9. run' = 0 => held = {0} /\ Early(base)' = {}
  BY <1>7 DEF HeldSince
<1>10. run' # 0 => Cardinality(Early(base)') <= (run' - 1) * BufSize
  <2>1. BufSize \in Nat /\ run \in Nat
    BY TeleSizes DEF TeleTypes
  <2>2. run # 0 => (run - 1) * BufSize \in Nat
    BY <2>1
  <2> QED
    BY <1>8, <2>1, <2>2 DEF HeldSince
<1>11. IsFiniteSet(held) /\ Cardinality(held) <= BufSize
  BY DEF HeldSince
<1>12. \A n \in withheld' : n \in Robots(base)' => Used(held, air[n].seq)'
  BY <1>6
<1> QED
  BY <1>3, <1>9, <1>10, <1>11, <1>12 DEF HeldSince

(* A card takes a packet: held back, it has a number that is used already. *)
LEMMA HeldByCard ==
  ASSUME TeleTypes, Len(air) <= SeqMod \div 2, NEW c \in Cards, Tele!Process(c) \/ Tele!Miss(c),
         NEW base \in 0 .. Len(air), NEW held \in SUBSET Nat, Numbered(base), HeldSince(base, held)
  PROVE  HeldSince(base, held)'
<1>0. /\ SeqMod \in Nat \ {0} /\ Len(air) \in Nat /\ base \in Nat /\ bufPos \in 0 .. BufSize - 1
      /\ heard[c] \in Nat /\ buffer \in [0 .. BufSize - 1 -> Nat] /\ rcSeqno \in Nat
      /\ \A n \in 1 .. Len(air) : air[n].seq \in Nat
  <2>1. heard \in [Cards -> 0 .. Len(air)] /\ Len(air) \in Nat
    BY DEF TeleTypes
  <2>2. heard[c] \in Nat
    BY <2>1
  <2> QED
    BY <2>2, TeleSizes, NumbersTyped DEF TeleTypes
<1>1. heard[c] < Len(air) /\ UNCHANGED <<seqno, rcSeqno, air, run>>
  BY DEF Tele!Process, Tele!Miss
<1>2. PICK n \in 1 .. Len(air) : n = heard[c] + 1
  BY <1>0, <1>1
<1>3. PICK seq \in Nat : seq = air[n].seq
  BY <1>0
<1>4. n \in Robots(base) \/ (air[n].from = "ground" /\ Used(held, seq))
  <2>1. air \in Seq(Packet)
    BY DEF TeleTypes
  <2>2. air[n].from \in {"robot", "ground"}
    <3>1. air[n] \in Packet
      BY <2>1, InSeq
    <3> QED
      BY <3>1 DEF Packet
  <2>3. CASE n > base /\ air[n].from = "robot"
    <3>1. n \in base + 1 .. Len(air)
      BY <1>0, <2>3
    <3> QED
      BY <2>3, <3>1 DEF Robots
  <2>4. CASE air[n].from = "ground"
    BY <1>3, <2>4 DEF Numbered, Used
  <2>5. CASE n <= base
    <3>1. n \in heard[c] + 1 .. base
      BY <1>0, <1>2, <2>5
    <3>2. air[n].from = "ground"
      BY <3>1 DEF Numbered
    <3> QED
      BY <2>4, <3>2
  <2>6. n > base \/ n <= base
    BY <1>0
  <2> QED
    BY <2>2, <2>3, <2>4, <2>5, <2>6
<1>5. /\ Robots(base)' = Robots(base) /\ rcSeqno' >= rcSeqno /\ Len(air') \in Nat
      /\ rcSeqno' \in Nat /\ \A k \in 1 .. Len(air) : air'[k] = air[k]
      /\ buffer' \in [0 .. BufSize - 1 -> Nat]
  <2>1. Tele!Next
    BY DEF Tele!Next
  <2>2. buffer' \in [0 .. BufSize - 1 -> Nat]
    BY <2>1, TeleForward DEF TeleTypes
  <2> QED
    BY <1>0, <1>1, <2>2 DEF Robots
<1>6. CASE UNCHANGED <<buffer, out, withheld>>
  <2>1. Tele!Forwarded' = Tele!Forwarded
    BY <1>6 DEF Tele!Forwarded
  <2> QED
    BY <1>1, <1>5, <1>6, <2>1, HeldKept
<1>7. CASE /\ Tele!Known(seq) \/ Tele!Old(seq)
           /\ n \notin Tele!Forwarded /\ withheld' = withheld \cup {n} /\ UNCHANGED <<buffer, out>>
  <2>1. ~Tele!Old(seq)
    <3>1. seq < Len(air)
      BY <1>3 DEF Numbered
    <3>2. (SeqMod - 1) \div 2 \in Nat /\ seq <= (SeqMod - 1) \div 2
      BY <1>0, <3>1
    <3> QED
      BY <3>2 DEF Tele!Old
  <2>2. PICK i \in 0 .. BufSize - 1 : buffer[i] = seq
    BY <1>0, <1>7, <2>1 DEF Tele!Known
  <2>3. n \in Robots(base) => Used(held, seq)
    <3> SUFFICES ASSUME n \in Robots(base), ~Used(held, seq)  PROVE FALSE
      OBVIOUS
    <3>1. PICK m \in Tele!Forwarded : m \in Robots(base) /\ seq = air[m].seq
      BY <2>2 DEF HeldSince
    <3>2. m # n /\ m \in Nat
      BY <1>0, <1>7, <3>1 DEF Robots
    <3>3. m < n \/ n < m
      BY <3>2
    <3>4. air[m].seq < air[n].seq \/ air[n].seq < air[m].seq
      BY <3>1, <3>3 DEF Numbered
    <3> QED
      BY <1>3, <3>1, <3>4
  <2>4. Tele!Forwarded' = Tele!Forwarded
    BY <1>7 DEF Tele!Forwarded
  <2> QED
    BY <1>1, <1>3, <1>4, <1>5, <1>7, <2>3, <2>4, HeldKept
<1>8. CASE Tele!Remember(seq) /\ out' = Append(out, n) /\ UNCHANGED withheld
  <2>1. \A m : m \in Tele!Forwarded \/ m = n => m \in Tele!Forwarded'
    <3>1. out \in Seq(1 .. Len(air))
      BY DEF TeleTypes
    <3>2. /\ Len(out) \in Nat /\ Len(out') = Len(out) + 1 /\ out'[Len(out) + 1] = n
          /\ \A j \in 1 .. Len(out) : out'[j] = out[j]
      BY <1>8, <3>1, Behind
    <3>3. Len(out) + 1 \in 1 .. Len(out') /\ \A j \in 1 .. Len(out) : j \in 1 .. Len(out')
      BY <3>2
    <3> QED
      BY <3>2, <3>3 DEF Tele!Forwarded
  <2>2. \A i \in 0 .. BufSize - 1 : buffer'[i] = buffer[i] \/ buffer'[i] = seq
    BY <1>0, <1>8 DEF Tele!Remember
  <2>3. Used(held, seq) \/ (n \in Robots(base) /\ seq = air[n].seq)
    BY <1>3, <1>4
  <2> QED
    BY <1>1, <1>5, <1>8, <2>1, <2>2, <2>3, HeldKept
<1> QED
  BY <1>2, <1>3, <1>6, <1>7, <1>8 DEF Tele!Process, Tele!Miss, Tele!ring

LEMMA HeldInvStep ==
  ASSUME TeleTypes, HeldInv, Tele!Next
  PROVE  HeldInv'
<1> SUFFICES ASSUME Len(air') <= SeqMod \div 2
             PROVE  \E base \in 0 .. Len(air'), held \in SUBSET Nat :
                      Numbered(base)' /\ HeldSince(base, held)'
  BY DEF HeldInv
<1>1. /\ Len(air') \in Nat /\ Len(air) \in Nat /\ Len(air') >= Len(air)
      /\ \A n \in 1 .. Len(air) : air'[n] = air[n]
      /\ buffer' \in [0 .. BufSize - 1 -> Nat]
  <2>1. buffer' \in [0 .. BufSize - 1 -> Nat]
    BY TeleForward DEF TeleTypes
  <2> QED
    BY <2>1, TeleForward
<1>2. Len(air) <= SeqMod \div 2
  <2>1. SeqMod \div 2 \in Nat
    BY TeleSizes
  <2> QED
    BY <1>1, <2>1
<1>3. PICK base \in 0 .. Len(air), held \in SUBSET Nat : Numbered(base) /\ HeldSince(base, held)
  BY <1>2 DEF HeldInv
<1>4. base \in 0 .. Len(air')
  BY <1>1
<1>5. CASE Tele!Restart
  <2>1. {buffer[i] : i \in 0 .. BufSize - 1} \in SUBSET Nat /\ Len(air) \in 0 .. Len(air')
    BY <1>1 DEF TeleTypes
  <2>2. PICK top \in 0 .. Len(air'), R \in SUBSET Nat :
          top = Len(air) /\ R = {buffer[i] : i \in 0 .. BufSize - 1}
    BY <2>1
  <2>3. Numbered(top)' /\ HeldSince(top, R)'
    BY <1>3, <1>5, <2>2, NewRun
  <2> QED
    BY <2>3
<1>6. CASE ~Tele!Restart
  <2>1. Numbered(base)' /\ Robots(base) \subseteq Robots(base)' /\ rcSeqno' \in Nat /\ rcSeqno' >= rcSeqno
    BY <1>3, <1>6, NumberedStep
  <2>2. CASE Tele!Send \/ Tele!SendRc
    <3>1. UNCHANGED <<buffer, run, out, withheld>>
      BY <2>2 DEF Tele!Send, Tele!SendRc, Tele!Broadcast, Tele!ring
    <3>2. Tele!Forwarded' = Tele!Forwarded
      BY <3>1 DEF Tele!Forwarded
    <3>3. HeldSince(base, held)'
      BY <1>1, <1>3, <2>1, <3>1, <3>2, HeldKept
    <3> QED
      BY <1>4, <2>1, <3>3
  <2>3. CASE Tele!EmptyRead
    <3>1. /\ UNCHANGED <<air, run, out, withheld>>
          /\ buffer' = buffer \/ buffer' = [buffer EXCEPT ![bufPos] = 0]
      BY <2>3 DEF Tele!EmptyRead, Tele!ring, Tele!Remember
    <3>2. Tele!Forwarded' = Tele!Forwarded /\ Used(held, 0)
      BY <3>1 DEF Tele!Forwarded, Used
    <3>3. \A i \in 0 .. BufSize - 1 : buffer'[i] = buffer[i] \/ buffer'[i] = 0
      BY <3>1 DEF TeleTypes
    <3>4. HeldSince(base, held)'
      BY <1>1, <1>3, <2>1, <3>1, <3>2, <3>3, HeldKept
    <3> QED
      BY <1>4, <2>1, <3>4
  <2>4. ASSUME NEW c \in Cards, Tele!Process(c) \/ Tele!Miss(c)
        PROVE  HeldSince(base, held)'
    BY <1>2, <1>3, <2>4, HeldByCard
  <2>5. \/ Tele!Send \/ Tele!SendRc \/ Tele!EmptyRead
        \/ \E c \in Cards : Tele!Process(c) \/ Tele!Miss(c)
    BY <1>6 DEF Tele!Next
  <2> QED
    BY <1>4, <2>1, <2>2, <2>3, <2>4, <2>5
<1> QED
  BY <1>5, <1>6

LEMMA TeleInvStep == TeleInv /\ [Tele!Next]_teleVars => TeleInv'
<1> SUFFICES ASSUME TeleInv, [Tele!Next]_teleVars  PROVE TeleInv'
  OBVIOUS
<1>1. CASE Tele!Next
  BY <1>1, TeleForward, RingInvStep, HeldInvStep DEF TeleInv
<1>2. CASE UNCHANGED teleVars
  <2>1. UNCHANGED <<seqno, rcSeqno, air, heard, buffer, bufPos, run, out, withheld>>
    BY <1>2 DEF teleVars
  <2>2. TeleTypes' = TeleTypes
    BY <2>1 DEF TeleTypes
  <2>3. Tele!Forwarded' = Tele!Forwarded /\ \A n : NumberOf(n)' = NumberOf(n)
    BY <2>1 DEF Tele!Forwarded, NumberOf
  <2>4. \A log : RingLog(log)' = RingLog(log)
    BY <2>1, <2>3 DEF RingLog
  <2>a. /\ Tele!HeldBack' = Tele!HeldBack /\ \A base : Robots(base)' = Robots(base)
        /\ \A held, q : Used(held, q)' = Used(held, q)
    BY <2>1 DEF Tele!HeldBack, Robots, Used
  <2>5. \A base, held : /\ Numbered(base)' = Numbered(base)
                        /\ HeldSince(base, held)' = HeldSince(base, held)
    BY <2>1, <2>3, <2>a DEF Numbered, HeldSince, Early
  <2>6. RingInv'
    BY <2>1, <2>4 DEF RingInv, TeleInv
  <2>7. HeldInv'
    BY <2>1, <2>5 DEF HeldInv, TeleInv
  <2> QED
    BY <2>2, <2>6, <2>7 DEF TeleInv
<1> QED
  BY <1>1, <1>2

LEMMA TeleInductive == Spec => []TeleInv
  BY Together, TeleInvInit, TeleInvStep, PTL DEF Spec

LEMMA TeleCount == \A S : Tele!Cardinality(S) = Cardinality(S)
  BY DEF Tele!Cardinality, Cardinality

(* No telemetry packet reaches QOpenHD twice, if no card is more than half *)
(* a ring behind another; and of those never passed on, but for the packets*)
(* numbered 0 and those whose number the remote control has had, few were  *)
(* held back for their number.                                             *)
THEOREM TelemetryOnce == Spec => []PassedOnOnce
<1>1. TeleInv => PassedOnOnce
  <2> SUFFICES ASSUME TeleInv  PROVE Tele!PassedOnOnce
    BY DEF PassedOnOnce
  <2>1. 2 * Skew <= BufSize => \A i, j \in 1 .. Len(out) : out[i] = out[j] => i = j
    BY DEF TeleInv, RingInv
  <2>2. ASSUME Len(air) <= SeqMod \div 2
        PROVE  Cardinality(Tele!HeldBack) <= run * BufSize
    <3>1. PICK base \in 0 .. Len(air), held \in SUBSET Nat :
            Numbered(base) /\ HeldSince(base, held)
      BY <2>2 DEF TeleInv, HeldInv
    <3> QED
      BY <3>1, HeldBackFew DEF TeleInv
  <2> QED
    BY <2>1, <2>2, TeleCount DEF Tele!PassedOnOnce
<1> QED
  BY <1>1, TeleInductive, PTL

-----------------------------------------------------------------------------
(* rhex_air/sensors/gps.c, for any sentences, lengths and cuts into reads. *)

(* What the status under construction and the published one are after n    *)
(* sentences.                                                              *)
FixAt(n) == LET any == Gps!Recent({"GGA", "NOFIX"}, n)
            IN  n > 0 /\ any > 0 /\ Kinds[any] = "GGA"
TmpAt(n) == [pos |-> Gps!Recent({"GGA", "RMC"}, n), alt |-> Gps!Recent({"GGA"}, n),
             fix |-> FixAt(n)]
ShmAt(n) == LET rmc == Gps!Recent({"RMC"}, n)
            IN  [pos |-> rmc, alt |-> Gps!Recent({"GGA"}, rmc), fix |-> FixAt(rmc)]

Sentences(m) == m \div (Length + 1)
Reader       == [line : Seq(Nat), tmp : [pos : Nat, alt : Nat, fix : BOOLEAN],
                 shm : [pos : Nat, alt : Nat, fix : BOOLEAN]]

(* The reader after m characters: the status of the sentences that ended,  *)
(* and the characters of the one that did not.                             *)
GpsAt(m, st) ==
  /\ st \in Reader
  /\ Len(st.line) = m % (Length + 1)
  /\ \A i \in 1 .. Len(st.line) : st.line[i] = Sentences(m) + 1
  /\ st.tmp = TmpAt(Sentences(m)) /\ st.shm = ShmAt(Sentences(m))

GpsInv ==
  /\ gSent \in 0 .. Gps!Total /\ taken \in 0 .. gSent
  /\ GpsAt(taken, [line |-> line, tmp |-> tmp, shm |-> shm])

LEMMA GpsSizes ==
  /\ Length \in Nat \ {0} /\ Length + 1 \in Nat \ {0} /\ ReadSize \in Nat
  /\ Len(Kinds) \in Nat /\ Gps!Total = (Length + 1) * Len(Kinds) /\ Gps!Total \in Nat
  /\ \A s \in 1 .. Len(Kinds) : Kinds[s] \in {"GGA", "NOFIX", "RMC", "bad"}
<1>1. Gps!GpsAssumption
  BY ServicesAssumption
<1>2. Len(Kinds) \in Nat /\ Length \in Nat
  BY <1>1 DEF Gps!GpsAssumption
<1>3. Len(Kinds) * (Length + 1) = (Length + 1) * Len(Kinds)
  BY <1>2
<1> QED
  BY <1>1, <1>2, <1>3 DEF Gps!GpsAssumption, Gps!Total

(* The last sentence of some kinds is the next one, if it is of them.      *)
LEMMA RecentStep ==
  ASSUME NEW K, NEW n \in Nat
  PROVE  /\ Gps!Recent(K, n) \in 0 .. n
         /\ Gps!Recent(K, 0) = 0
         /\ Gps!Recent(K, n + 1) = IF Kinds[n + 1] \in K THEN n + 1 ELSE Gps!Recent(K, n)
<1> DEFINE S(m) == {s \in 1 .. m : Kinds[s] \in K}
<1>1. \A m : Gps!Recent(K, m) = IF S(m) = {} THEN 0 ELSE CHOOSE s \in S(m) : \A t \in S(m) : t <= s
  BY DEF Gps!Recent
<1>2. Gps!Recent(K, n) \in 0 .. n
  <2>1. CASE S(n) = {}
    BY <1>1, <2>1
  <2>2. CASE S(n) # {}
    <3>1. S(n) \in SUBSET (0 .. n)
      OBVIOUS
    <3>2. \E s \in S(n) : \A t \in S(n) : t <= s
      BY <2>2, <3>1, Greatest
    <3> QED
      BY <1>1, <2>2, <3>1, <3>2
  <2> QED
    BY <2>1, <2>2
<1>3. Gps!Recent(K, 0) = 0
  BY <1>1
<1>4. CASE Kinds[n + 1] \in K
  <2>1. n + 1 \in S(n + 1) /\ \A t \in S(n + 1) : t \in Nat /\ t <= n + 1
    BY <1>4
  <2>2. \A s \in S(n + 1) : (\A t \in S(n + 1) : t <= s) => s = n + 1
    BY <2>1
  <2> HIDE DEF S
  <2> QED
    BY <1>1, <1>2, <1>3, <1>4, <2>1, <2>2
<1>5. CASE Kinds[n + 1] \notin K
  <2>1. S(n + 1) = S(n)
    BY <1>5
  <2> HIDE DEF S
  <2> QED
    BY <1>1, <1>2, <1>3, <1>5, <2>1
<1> QED
  BY <1>4, <1>5

LEMMA StatusTypes ==
  ASSUME NEW n \in Nat
  PROVE  /\ TmpAt(n) \in [pos : Nat, alt : Nat, fix : BOOLEAN]
         /\ ShmAt(n) \in [pos : Nat, alt : Nat, fix : BOOLEAN]
<1>1. \A K : \A m \in Nat : Gps!Recent(K, m) \in Nat
  BY RecentStep
<1>2. \A m \in Nat : FixAt(m) \in BOOLEAN
  BY DEF FixAt
<1> QED
  BY <1>1, <1>2 DEF TmpAt, ShmAt

(* parse_line for the sentence that follows n others.                      *)
LEMMA ParseStep ==
  ASSUME NEW n \in Nat, n < Len(Kinds), NEW st \in Reader,
         st.tmp = TmpAt(n), st.shm = ShmAt(n)
  PROVE  /\ Gps!Parse(st, n + 1) \in Reader
         /\ Gps!Parse(st, n + 1).line = st.line
         /\ Gps!Parse(st, n + 1).tmp = TmpAt(n + 1)
         /\ Gps!Parse(st, n + 1).shm = ShmAt(n + 1)
<1> DEFINE s == n + 1
           rmc == Gps!Recent({"RMC"}, n)
<1>0. s \in 1 .. Len(Kinds) /\ s \in Nat /\ s > 0
  BY GpsSizes
<1>1. Kinds[s] \in {"GGA", "NOFIX", "RMC", "bad"}
  BY <1>0, GpsSizes
<1>2. /\ \A K : Kinds[s] \in K => Gps!Recent(K, s) = s
      /\ \A K : Kinds[s] \notin K => Gps!Recent(K, s) = Gps!Recent(K, n)
  BY RecentStep
<1>3. \A K : Gps!Recent(K, n) \in 0 .. n
  BY RecentStep
<1>4. /\ TmpAt(s) \in [pos : Nat, alt : Nat, fix : BOOLEAN]
      /\ ShmAt(s) \in [pos : Nat, alt : Nat, fix : BOOLEAN]
  BY <1>0, StatusTypes
<1>5. /\ st.tmp.alt = Gps!Recent({"GGA"}, n)
      /\ st.tmp.pos = Gps!Recent({"GGA", "RMC"}, n)
      /\ st.tmp.fix = FixAt(n)
  BY DEF TmpAt
<1>6. Kinds[s] \notin {"GGA", "NOFIX"} => FixAt(s) = FixAt(n)
  BY <1>0, <1>2, <1>3 DEF FixAt
<1>7. Kinds[s] # "RMC" => ShmAt(s) = ShmAt(n)
  BY <1>2 DEF ShmAt
<1>8. CASE Kinds[s] = "GGA"
  <2>1. TmpAt(s) = [pos |-> s, alt |-> s, fix |-> TRUE]
    <3>1. FixAt(s) = TRUE
      BY <1>0, <1>2, <1>8 DEF FixAt
    <3> QED
      BY <1>2, <1>8, <3>1 DEF TmpAt
  <2>2. Gps!Parse(st, s) = [st EXCEPT !.tmp = [pos |-> s, alt |-> s, fix |-> TRUE]]
    BY <1>8 DEF Gps!Parse
  <2> QED
    BY <1>4, <1>7, <1>8, <2>1, <2>2 DEF Reader
<1>9. CASE Kinds[s] = "NOFIX"
  <2>1. FixAt(s) = FALSE
    BY <1>2, <1>9 DEF FixAt
  <2>2. TmpAt(s) = [st.tmp EXCEPT !.fix = FALSE]
    <3>0. \A b : [st.tmp EXCEPT !.fix = b] = [pos |-> st.tmp.pos, alt |-> st.tmp.alt, fix |-> b]
      BY DEF TmpAt
    <3>1. [st.tmp EXCEPT !.fix = FALSE] = [pos |-> st.tmp.pos, alt |-> st.tmp.alt, fix |-> FALSE]
      BY <3>0, Zenon
    <3>2. Kinds[s] \notin {"GGA", "RMC"} /\ Kinds[s] \notin {"GGA"}
      BY <1>9
    <3> QED
      BY <1>2, <1>5, <2>1, <3>1, <3>2 DEF TmpAt
  <2>3. Gps!Parse(st, s) = [st EXCEPT !.tmp = TmpAt(s)]
    BY <1>9, <2>2 DEF Gps!Parse, Reader
  <2> QED
    BY <1>4, <1>7, <1>9, <2>3 DEF Reader
<1>10. CASE Kinds[s] = "RMC"
  <2>1. TmpAt(s) = [st.tmp EXCEPT !.pos = s]
    BY <1>2, <1>5, <1>6, <1>10 DEF TmpAt, Reader
  <2>2. ShmAt(s) = TmpAt(s)
    BY <1>2, <1>10 DEF TmpAt, ShmAt
  <2>3. Gps!Parse(st, s) = [st EXCEPT !.tmp = TmpAt(s), !.shm = TmpAt(s)]
    BY <1>10, <2>1 DEF Gps!Parse, Reader
  <2> QED
    BY <1>4, <2>2, <2>3 DEF Reader
<1>11. CASE Kinds[s] = "bad"
  <2>1. TmpAt(s) = TmpAt(n)
    BY <1>2, <1>6, <1>11 DEF TmpAt
  <2>2. Gps!Parse(st, s) = st
    BY <1>11 DEF Gps!Parse
  <2> QED
    BY <1>7, <1>11, <2>1, <2>2
<1> QED
  BY <1>1, <1>8, <1>9, <1>10, <1>11

(* One character.                                                          *)
LEMMA TakeStep ==
  ASSUME NEW m \in Nat, m < Gps!Total, NEW st, GpsAt(m, st)
  PROVE  GpsAt(m + 1, Gps!Take(st, Gps!Char(m + 1)))
<1> DEFINE L == Length + 1
           n == Sentences(m)
           r == m % L
<1>1. /\ L \in Nat \ {0} /\ n \in Nat /\ r \in 0 .. L - 1 /\ m = L * n + r
  BY GpsSizes, DivMod DEF Sentences
<1>2. n < Len(Kinds)
  <2>1. m \in 0 .. L * Len(Kinds) - 1
    BY GpsSizes
  <2>2. m \div L \in 0 .. Len(Kinds) - 1
    BY <2>1, GpsSizes, BlockAndPlace
  <2> QED
    BY <2>2, GpsSizes DEF Sentences
<1>3. /\ Gps!Char(m + 1).s = n + 1
      /\ Gps!Char(m + 1).end = ((m + 1) % L = 0)
  BY DEF Gps!Char, Sentences
<1>4. /\ st \in Reader /\ Len(st.line) = r
      /\ \A i \in 1 .. Len(st.line) : st.line[i] = n + 1
      /\ st.tmp = TmpAt(n) /\ st.shm = ShmAt(n)
  BY DEF GpsAt
<1>5. CASE r = L - 1
  <2>1. m + 1 = L * (n + 1) + 0 /\ n + 1 \in Nat /\ 0 \in 0 .. L - 1
    BY <1>1, <1>5
  <2>2. (m + 1) % L = 0 /\ Sentences(m + 1) = n + 1
    <3> HIDE DEF L, n
    <3>1. (L * (n + 1) + 0) % L = 0 /\ (L * (n + 1) + 0) \div L = n + 1
      BY <1>1, <2>1, RemainderUnique, QuotientUnique
    <3> QED
      BY <2>1, <3>1 DEF Sentences, L
  <2> DEFINE st1 == [st EXCEPT !.line = <<>>]
  <2>3. Len(st.line) = Length /\ st.line[1] = n + 1
    BY <1>4, <1>5, GpsSizes
  <2>4. Gps!Take(st, Gps!Char(m + 1)) = Gps!Parse(st1, n + 1)
    BY <1>3, <2>2, <2>3 DEF Gps!Take
  <2>5. st1 \in Reader /\ st1.line = <<>> /\ st1.tmp = TmpAt(n) /\ st1.shm = ShmAt(n)
    <3>1. <<>> \in Seq(Nat)
      OBVIOUS
    <3> QED
      BY <1>4, <3>1 DEF Reader
  <2> HIDE DEF st1, n
  <2>6. /\ Gps!Parse(st1, n + 1) \in Reader
        /\ Gps!Parse(st1, n + 1).line = <<>>
        /\ Gps!Parse(st1, n + 1).tmp = TmpAt(n + 1)
        /\ Gps!Parse(st1, n + 1).shm = ShmAt(n + 1)
    BY <1>1, <1>2, <2>5, ParseStep
  <2> QED
    BY <2>2, <2>4, <2>6 DEF GpsAt
<1>6. CASE r # L - 1
  <2>1. m + 1 = L * n + (r + 1) /\ r + 1 \in 0 .. L - 1
    BY <1>1, <1>6
  <2>2. (m + 1) % L = r + 1 /\ Sentences(m + 1) = n
    <3> HIDE DEF L, n, r
    <3>1. (L * n + (r + 1)) % L = r + 1 /\ (L * n + (r + 1)) \div L = n
      BY <1>1, <2>1, RemainderUnique, QuotientUnique
    <3> QED
      BY <2>1, <3>1 DEF Sentences, L
  <2>3. r + 1 # 0
    BY <1>1
  <2>4. Gps!Take(st, Gps!Char(m + 1)) = [st EXCEPT !.line = Append(st.line, n + 1)]
    BY <1>3, <2>2, <2>3 DEF Gps!Take, Reader
  <2> HIDE DEF n, r
  <2>5. /\ st.line \in Seq(Nat) /\ n + 1 \in Nat
        /\ Append(st.line, n + 1) \in Seq(Nat)
        /\ Len(Append(st.line, n + 1)) = r + 1
        /\ \A i \in 1 .. r + 1 : Append(st.line, n + 1)[i] = n + 1
    BY <1>1, <1>4 DEF Reader
  <2>6. [st EXCEPT !.line = Append(st.line, n + 1)] \in Reader
    BY <1>4, <2>5 DEF Reader
  <2> QED
    BY <1>4, <2>2, <2>4, <2>5, <2>6 DEF GpsAt, Reader
<1> QED
  BY <1>5, <1>6

(* The loop over the characters of a read has a result.                    *)
Takes(f, n, st0, t) ==
  f = [k \in 0 .. n |-> IF k = 0 THEN st0 ELSE Gps!Take(f[k - 1], Gps!Char(t + k))]

LEMMA TakesExist ==
  ASSUME NEW n \in Nat, NEW st0, NEW t
  PROVE  \E f : Takes(f, n, st0, t)
<1> DEFINE Step(f, k) == IF k = 0 THEN st0 ELSE Gps!Take(f[k - 1], Gps!Char(t + k))
           S == {m \in Nat : \E f : f = [k \in 0 .. m |-> Step(f, k)]}
<1>1. 0 \in S
  <2> DEFINE f == [k \in 0 .. 0 |-> st0]
  <2>1. f = [k \in 0 .. 0 |-> Step(f, k)]
    OBVIOUS
  <2> QED
    BY <2>1
<1>2. ASSUME NEW m \in Nat, m \in S PROVE m + 1 \in S
  <2>1. PICK f : f = [k \in 0 .. m |-> Step(f, k)]
    BY <1>2
  <2> DEFINE g == [k \in 0 .. m + 1 |-> Step(f, k)]
  <2>2. \A k \in 0 .. m : g[k] = f[k]
    BY <2>1
  <2>3. \A k \in 0 .. m + 1 : k # 0 => k - 1 \in 0 .. m
    OBVIOUS
  <2>4. \A k \in 0 .. m + 1 : Step(g, k) = Step(f, k)
    <3> HIDE DEF g
    <3> QED
      BY <2>2, <2>3
  <2>5. g = [k \in 0 .. m + 1 |-> Step(g, k)]
    <3>1. g = [k \in 0 .. m + 1 |-> Step(f, k)]
      OBVIOUS
    <3> HIDE DEF g, Step
    <3> QED
      BY <2>4, <3>1
  <2> HIDE DEF g, Step
  <2> QED
    BY <2>5
<1> HIDE DEF S
<1>3. n \in S
  BY <1>1, <1>2, SetInduction
<1> QED
  BY <1>3 DEF S, Takes

LEMMA GpsRead ==
  ASSUME GpsInv, Gps!Read
  PROVE  GpsInv'
<1> DEFINE st0 == [line |-> line, tmp |-> tmp, shm |-> shm]
<1>1. PICK n \in 1 .. ReadSize :
        /\ n <= gSent - taken
        /\ LET st[k \in 0 .. n] == IF k = 0 THEN st0
                                            ELSE Gps!Take(st[k - 1], Gps!Char(taken + k))
           IN  line' = st[n].line /\ tmp' = st[n].tmp /\ shm' = st[n].shm
        /\ taken' = taken + n /\ gSent' = gSent
  BY Zenon DEF Gps!Read
<1> DEFINE st[k \in 0 .. n] == IF k = 0 THEN st0 ELSE Gps!Take(st[k - 1], Gps!Char(taken + k))
           f == st
<1>2. /\ Takes(f, n, st0, taken)
      /\ line' = f[n].line /\ tmp' = f[n].tmp /\ shm' = f[n].shm
  <2>1. n \in Nat
    BY GpsSizes
  <2>2. \E g : Takes(g, n, st0, taken)
    BY <2>1, TakesExist
  <2>3. Takes(f, n, st0, taken)
    BY <2>2, Zenon DEF Takes
  <2> QED
    BY <1>1, <2>3, Zenon
<1> HIDE DEF f
<1>3. /\ taken \in Nat /\ gSent \in Nat /\ gSent <= Gps!Total /\ Gps!Total \in Nat
      /\ n \in Nat /\ n >= 1 /\ GpsAt(taken, st0)
  BY GpsSizes DEF GpsInv
<1> HIDE DEF st0
<1> DEFINE S == {k \in Nat : k <= n => GpsAt(taken + k, f[k])}
<1>4. 0 \in S
  BY <1>2, <1>3 DEF Takes
<1>5. ASSUME NEW k \in Nat, k \in S PROVE k + 1 \in S
  <2> SUFFICES ASSUME k + 1 <= n PROVE GpsAt(taken + (k + 1), f[k + 1])
    OBVIOUS
  <2>1. GpsAt(taken + k, f[k])
    BY <1>3, <1>5
  <2>2. k + 1 \in 0 .. n /\ k + 1 # 0 /\ (k + 1) - 1 = k
    BY <1>3
  <2>3. f[k + 1] = Gps!Take(f[k], Gps!Char(taken + (k + 1)))
    BY <1>2, <2>2 DEF Takes
  <2>4. taken + k \in Nat /\ taken + k < Gps!Total /\ (taken + k) + 1 = taken + (k + 1)
    BY <1>1, <1>3
  <2> QED
    BY <2>1, <2>3, <2>4, TakeStep
<1>6. n \in S
  <2> HIDE DEF S
  <2> QED
    BY <1>3, <1>4, <1>5, SetInduction
<1>7. GpsAt(taken + n, f[n])
  BY <1>6
<1>8. f[n] = [line |-> line', tmp |-> tmp', shm |-> shm']
  BY <1>2, <1>7 DEF GpsAt, Reader
<1> QED
  BY <1>1, <1>3, <1>7, <1>8 DEF GpsInv

LEMMA GpsInvInit == Gps!Init => GpsInv
<1> SUFFICES ASSUME Gps!Init PROVE GpsInv
  OBVIOUS
<1> DEFINE st0 == [line |-> line, tmp |-> tmp, shm |-> shm]
<1>1. Sentences(0) = 0 /\ 0 % (Length + 1) = 0
  BY GpsSizes, RemainderUnique, QuotientUnique DEF Sentences
<1>2. \A K : Gps!Recent(K, 0) = 0
  BY RecentStep
<1>3. TmpAt(0) = Gps!NoFix /\ ShmAt(0) = Gps!NoFix
  <2>1. FixAt(0) = FALSE
    BY DEF FixAt
  <2> QED
    BY <1>2, <2>1, Zenon DEF TmpAt, ShmAt, Gps!NoFix
<1>4. line = <<>> /\ tmp = TmpAt(0) /\ shm = ShmAt(0) /\ taken = 0 /\ gSent = 0
  BY <1>3 DEF Gps!Init
<1>5. st0 \in Reader
  BY <1>4, StatusTypes DEF Reader
<1> QED
  BY <1>1, <1>4, <1>5, GpsSizes DEF GpsInv, GpsAt

LEMMA GpsInvStep ==
  ASSUME GpsInv, [Gps!Next]_gpsVars
  PROVE  GpsInv'
<1>1. CASE Gps!Transmit
  BY <1>1, GpsSizes DEF Gps!Transmit, GpsInv
<1>2. CASE Gps!Ready \/ Gps!Timeout \/ UNCHANGED gpsVars
  BY <1>2 DEF Gps!Ready, Gps!Timeout, gpsVars, GpsInv
<1>3. CASE Gps!Read
  BY <1>3, GpsRead
<1> QED
  BY <1>1, <1>2, <1>3 DEF Gps!Next

LEMMA GpsInductive == Spec => []GpsInv
  BY Together, GpsInvInit, GpsInvStep, PTL DEF Spec

(* gps_main publishes records of one moment, however the sentences are cut *)
(* into reads: the position of the last RMC sentence, with altitude and    *)
(* fix of the last GGA sentence before it.                                 *)
THEOREM RecordOfOneMoment == Spec => []PublishedIsRecent
<1>1. GpsInv => PublishedIsRecent
  <2> SUFFICES ASSUME GpsInv PROVE PublishedIsRecent
    OBVIOUS
  <2>1. shm = ShmAt(taken \div (Length + 1))
    BY DEF GpsInv, GpsAt, Sentences
  <2> QED
    BY <2>1 DEF ShmAt, FixAt, PublishedIsRecent, Gps!PublishedIsRecent
<1> QED
  BY <1>1, GpsInductive, PTL
=============================================================================
