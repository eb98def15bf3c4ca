------------------------------- MODULE Player -------------------------------
(***************************************************************************)
(* rhex_ground/video.c: the video service starts gst-launch with pipes for *)
(* stdin, stdout and stderr and writes to the first what wfb_rx_stream     *)
(* rebuilds.  The service keeps both ends of every pipe: a write to a dead *)
(* player does not fail but fills the pipe, and what the player says is    *)
(* never read.                                                             *)
(***************************************************************************)
EXTENDS Integers

CONSTANTS
  PipeSize,     (* what a pipe holds                                       *)
  MaxResult,    (* the most wfb_rx_stream returns at once                  *)
  MaxVideo      (* bound on the video received                             *)

PlayerAssumption == /\ PipeSize \in Nat \ {0} /\ MaxResult \in Nat \ {0}
                    /\ MaxVideo \in Nat

VARIABLES
  player,     (* gst-launch: "none", "runs" or "dead"                      *)
  telling,    (* it is writing to stdout (or stderr)                       *)
  told,       (* bytes in that pipe                                        *)
  feed,       (* bytes in the pipe to its stdin                            *)
  shown,      (* bytes it has read                                         *)
  pc,         (* video_main: "start", "cycle", "write" or "left"           *)
  rest,       (* bytes of rx_data that write() has yet to put in the pipe  *)
  video,      (* bytes wfb_rx_stream has returned                          *)
  main        (* main lives and renews the watchdog                        *)

vars == <<player, telling, told, feed, shown, pc, rest, video, main>>

Init ==
  /\ player = "none" /\ telling = FALSE /\ told = 0 /\ feed = 0 /\ shown = 0
  /\ pc = "start" /\ rest = 0 /\ video = 0 /\ main = TRUE

-----------------------------------------------------------------------------
(* gstreamer_start: when fork() fails the pipes are closed; video_main     *)
(* does not ask.                                                           *)
Start ==
  /\ pc = "start"
  /\ pc' = "cycle"
  /\ player' \in {"runs", "none"}
  /\ UNCHANGED <<telling, told, feed, shown, rest, video, main>>

(* Mutant of Leave: the watchdog is tested only while the player runs.     *)
LeaveWatching ==
  /\ pc = "cycle" /\ ~main /\ player = "runs"
  /\ pc' = "left"
  /\ UNCHANGED <<player, telling, told, feed, shown, rest, video, main>>

(* svc_cycle, some time after main has died.                               *)
Leave ==
  /\ pc = "cycle" /\ ~main
  /\ pc' = "left"
  /\ UNCHANGED <<player, telling, told, feed, shown, rest, video, main>>

(* wfb_rx_stream, which waits for 100 ms, comes back with video.           *)
Receive ==
  /\ pc = "cycle"
  /\ \E n \in 1 .. MaxResult :
       /\ video + n <= MaxVideo
       /\ video' = video + n
       /\ rest' = n
  /\ pc' = "write"
  /\ UNCHANGED <<player, telling, told, feed, shown, main>>

Fits == IF rest <= PipeSize - feed THEN rest ELSE PipeSize - feed

(* Mutant of Write: what does not fit is given up.                         *)
WriteOnce ==
  /\ pc = "write"
  /\ feed' = IF player = "none" THEN feed ELSE feed + Fits
  /\ rest' = 0
  /\ pc' = "cycle"
  /\ UNCHANGED <<player, telling, told, shown, video, main>>

(* write() waits as long as the pipe is full; its result is not looked at, *)
(* so without pipes the video is dropped.                                  *)
Write ==
  /\ pc = "write"
  /\ \/ /\ player = "none"
        /\ rest' = 0 /\ UNCHANGED feed
     \/ /\ player # "none" /\ feed < PipeSize
        /\ feed' = feed + Fits
        /\ rest' = rest - Fits
  /\ pc' = IF rest' = 0 THEN "cycle" ELSE "write"
  /\ UNCHANGED <<player, telling, told, shown, video, main>>

MainDies ==
  /\ main
  /\ main' = FALSE
  /\ UNCHANGED <<player, telling, told, feed, shown, pc, rest, video>>

-----------------------------------------------------------------------------
Play ==
  /\ player = "runs" /\ ~telling /\ feed > 0
  /\ feed' = feed - 1 /\ shown' = shown + 1
  /\ telling' \in BOOLEAN
  /\ UNCHANGED <<player, told, pc, rest, video, main>>

(* It writes a message: into the pipe, or, when the service has left and   *)
(* nobody holds the reading end, to its own death by SIGPIPE.              *)
Tell ==
  /\ player = "runs" /\ telling
  /\ IF pc = "left" THEN player' = "dead" /\ UNCHANGED <<telling, told>>
     ELSE told < PipeSize /\ told' = told + 1 /\ telling' = FALSE /\ UNCHANGED player
  /\ UNCHANGED <<feed, shown, pc, rest, video, main>>

(* Mutant of Finish: the child has not closed its copy of the writing end. *)
FinishNever == FALSE /\ UNCHANGED vars

(* End of file on stdin: the child has closed its copy of the writing end. *)
Finish ==
  /\ player = "runs" /\ ~telling /\ feed = 0 /\ pc = "left"
  /\ player' = "dead"
  /\ UNCHANGED <<telling, told, feed, shown, pc, rest, video, main>>

(* It crashes, or execv() has failed.                                      *)
Crash ==
  /\ player = "runs"
  /\ player' = "dead"
  /\ UNCHANGED <<telling, told, feed, shown, pc, rest, video, main>>

Service == Start \/ Leave \/ Receive \/ Write
Child   == Play \/ Tell \/ Finish

Next == Service \/ Child \/ MainDies \/ Crash

Spec == Init /\ [][Next]_vars

(* Both processes run; each waits for the other only at a full pipe.       *)
Fairness == WF_vars(Service) /\ WF_vars(Child)
FairSpec == Spec /\ Fairness

-----------------------------------------------------------------------------
TypeOK ==
  /\ player \in {"none", "runs", "dead"} /\ telling \in BOOLEAN
  /\ told \in 0 .. PipeSize /\ feed \in 0 .. PipeSize
  /\ shown \in 0 .. MaxVideo /\ video \in 0 .. MaxVideo /\ rest \in 0 .. MaxResult
  /\ pc \in {"start", "cycle", "write", "left"} /\ main \in BOOLEAN

(* The player reads no more: it is dead, or waits for its messages to be   *)
(* read.                                                                   *)
Deaf == player = "dead" \/ (telling /\ told = PipeSize)

(* After main has died neither the service nor the player, which nobody    *)
(* kills, stays: unless a player that reads no more keeps the service in   *)
(* write() for ever.                                                       *)
NothingRemains ==
  []<>(main \/ (pc = "left" /\ player # "runs") \/ (pc = "write" /\ Deaf))

(* Again and again all that was received is shown, also what the service   *)
(* has left in the pipe, while the player is there and reads.              *)
VideoShown == []<>(shown = video \/ Deaf \/ player = "none")
=============================================================================
