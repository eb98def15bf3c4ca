----------------------------- MODULE MCServices -----------------------------
(***************************************************************************)
(* Model-checking instance of components that share no state with each     *)
(* other: on the robot the legs, the GPS reader and the camera; on the     *)
(* ground the control connections, the video player and the link status;   *)
(* the telemetry between the two; and the setup of the wifi cards in both. *)
(* A behaviour is one of them at work; the others rest in their initial    *)
(* states.                                                                 *)
(***************************************************************************)
EXTENDS Integers, Sequences

CONSTANTS
  Drives,                                       (* Motion                  *)
  Kinds, Length, ReadSize, LineSize,            (* GpsReader               *)
  PipeSize, ChunkSize, Messages, MaxVideo,      (* Camera                  *)
  MaxResult,                                    (* Player, with two above  *)
  MaxConns, Slots, MaxSent, MaxDeaf,            (* ControlClients          *)
  Cards, BufSize, SeqMod, Skew, Lossy, SendFails,
  MaxPhantoms, MaxPackets, MaxRc, MaxRestarts,  (* Telemetry               *)
  NumCards, Services, Programs, Parts, Kernels,
  Residues, MaxRefused, MaxSlips,               (* WifiSetup               *)
  MaxRuns                                       (* LinkStatus              *)

(* The sentences of three seconds: the fix is lost, and one is damaged.    *)
KindsOf == <<"RMC", "GGA", "RMC", "NOFIX", "bad", "RMC">>

VARIABLES
  who,                                                       (* at work    *)
  state, tgt, legsReady, rc, asked, answers, last, order,    (* Motion     *)
  gSent, taken, watched, gPc, line, tmp, shm,        (* GpsReader  *)
  child, wants, video, passed, notes, logged, main, cPc, cReady, killed,
  player, telling, told, feed, pShown, pPc, rest, pVideo, pMain,
  peer, queue, inbox, slot, ready, pc, writes, data, spilled, sent, orders, alone, acks, late,
  seqno, rcSeqno, air, heard, buffer, bufPos, run, phantoms, out, withheld,
  program, kernel, wQueue, dump, opened, wStep, card, count, wSvc, found,
  wAsked, slips,                                             (* WifiSetup  *)
  lRun, unlisted, here, record, kept, step, failed, mapped, svc, shown

motionVars  == <<state, tgt, legsReady, rc, asked, answers, last, order>>
gpsVars     == <<gSent, taken, watched, gPc, line, tmp, shm>>
cameraVars  == <<child, wants, video, passed, notes, logged, main, cPc, cReady, killed>>
playerVars  == <<player, telling, told, feed, pShown, pPc, rest, pVideo, pMain>>
controlVars == <<peer, queue, inbox, slot, ready, pc, writes, data, spilled, sent, orders, alone,
                 acks, late>>
teleVars    == <<seqno, rcSeqno, air, heard, buffer, bufPos, run, phantoms, out, withheld>>
wifiVars    == <<program, kernel, wQueue, dump, opened, wStep, card, count, wSvc, found,
                 wAsked, slips>>
linkVars    == <<lRun, unlisted, here, record, kept, step, failed, mapped, svc, shown>>

airVars     == <<motionVars, gpsVars, cameraVars>>
groundVars  == <<playerVars, controlVars, linkVars>>
vars        == <<who, airVars, groundVars, teleVars, wifiVars>>

Legs    == INSTANCE Motion WITH ready <- legsReady, inbox <- answers
Gps     == INSTANCE GpsReader WITH sent <- gSent, pc <- gPc
Cam     == INSTANCE Camera WITH pc <- cPc, ready <- cReady
Play    == INSTANCE Player WITH shown <- pShown, pc <- pPc, video <- pVideo, main <- pMain
Control == INSTANCE ControlClients
Tele    == INSTANCE Telemetry
Setup   == INSTANCE WifiSetup WITH queue <- wQueue, step <- wStep, svc <- wSvc, asked <- wAsked
Link    == INSTANCE LinkStatus WITH run <- lRun

ASSUME ServicesAssumption ==
  /\ Gps!GpsAssumption /\ Cam!PipeAssumption /\ Play!PlayerAssumption
  /\ Control!ControlAssumption /\ Tele!TelemetryAssumption
  /\ Setup!SetupAssumption /\ Link!LinkAssumption

Init ==
  /\ who \in {"motion", "gps", "camera", "player", "control", "telemetry", "setup", "link"}
  /\ Legs!Init /\ Gps!Init /\ Cam!Init /\ Play!Init /\ Control!Init /\ Tele!Init
  /\ Setup!Init /\ Link!Init
  /\ \/ who = "setup"
     \/ (program = CHOOSE p \in Programs : TRUE) /\ (kernel = CHOOSE k \in Kernels : TRUE)
  /\ who = "motion" \/ asked = Drives

(* Component w makes step A, and the others, whose variables are rest, none.*)
Alone(w, A, others) == who = w /\ A /\ UNCHANGED <<who, others>>

Moves(A)    == Alone("motion", A, <<gpsVars, cameraVars, groundVars, teleVars, wifiVars>>)
Locates(A)  == Alone("gps", A, <<motionVars, cameraVars, groundVars, teleVars, wifiVars>>)
Films(A)    == Alone("camera", A, <<motionVars, gpsVars, groundVars, teleVars, wifiVars>>)
Plays(A)    == Alone("player", A, <<airVars, controlVars, linkVars, teleVars, wifiVars>>)
Controls(A) == Alone("control", A, <<airVars, playerVars, linkVars, teleVars, wifiVars>>)
Links(A)    == Alone("link", A, <<airVars, playerVars, controlVars, teleVars, wifiVars>>)
Reports(A)  == Alone("telemetry", A, <<airVars, groundVars, wifiVars>>)
SetsUp(A)   == Alone("setup", A, <<airVars, groundVars, teleVars>>)

MotionNext    == Moves(Legs!Next)
GpsNext       == Locates(Gps!Next)
CameraNext    == Films(Cam!Next)
PlayerNext    == Plays(Play!Next)
ControlNext   == Controls(Control!Next)
TelemetryNext == Reports(Tele!Next)
SetupNext     == SetsUp(Setup!Next)
LinkNext      == Links(Link!Next)

Next == \/ MotionNext \/ GpsNext \/ CameraNext \/ PlayerNext \/ ControlNext
        \/ TelemetryNext \/ SetupNext \/ LinkNext

(* The fairness of each, where it is at work.                              *)
Fairness ==
  /\ WF_vars(Moves(Legs!Cycle)) /\ WF_vars(Moves(Legs!Take))
  /\ \A d \in Drives : WF_vars(Moves(Legs!Answer(d)))
  /\ WF_vars(Locates(Gps!Ready \/ Gps!Timeout \/ Gps!Read))
  /\ WF_vars(Films(Cam!Service)) /\ WF_vars(Films(Cam!Child))
  /\ WF_vars(Plays(Play!Service)) /\ WF_vars(Plays(Play!Child))
  /\ WF_vars(Controls(Control!Service))
  /\ WF_vars(SetsUp(Setup!Main)) /\ \A p \in Setup!Listers : WF_vars(SetsUp(Setup!Service(p)))
  /\ WF_vars(Links(Link!Start)) /\ WF_vars(Links(Link!Display))

Spec == Init /\ [][Next]_vars /\ Fairness

-----------------------------------------------------------------------------
TypeOK == /\ Legs!TypeOK /\ Gps!TypeOK /\ Cam!TypeOK /\ Play!TypeOK /\ Control!TypeOK
          /\ Tele!TypeOK /\ Setup!TypeOK /\ Link!TypeOK

(* The legs wait for all drives, move together, and obey.                  *)
LegsTogether   == Legs!LegsTogether
ObeysLastOrder == Legs!ObeysLastOrder
WalkIsObeyed   == Legs!WalkIsObeyed

(* What the GPS reader publishes is of one moment.                         *)
PublishedIsRecent == Gps!PublishedIsRecent

(* What the receiver sends is read, also when it has been silent.          *)
DataAfterSilenceRead == Gps!DataAfterSilenceRead

(* The camera's child does not outlive it, and its video is passed on.     *)
EndsAlone  == Cam!EndsAlone
VideoFlows == []<>Cam!PassedOn /\ []<>(who = "camera" => Cam!Filmed)

(* The player gets the video, and neither it nor its service stays behind. *)
NothingRemains == Play!NothingRemains
VideoShown     == Play!VideoShown

(* Each control client keeps its slot, gets its own answers and is read.   *)
OneSlotEach  == Control!OneSlotEach
AnsweredOnce == Control!AnsweredOnce
Heard        == Control!Heard

(* No telemetry packet is passed on twice, and few are held back.          *)
PassedOnOnce == Tele!PassedOnOnce

(* The cards are set up with every failure noticed and no wait for ever,   *)
(* and lists of interfaces arrive where the answers are not mixed up.      *)
NoFailureMissed == Setup!NoFailureMissed
SetupEnds       == []<>(who = "setup" => Setup!Finished)
ListsArrive     == Setup!ListsArrive

(* The link status shown on the ground is of this run of the program.      *)
OfThisRun      == Link!OfThisRun
RobotOfThisRun == Link!RobotOfThisRun
=============================================================================
