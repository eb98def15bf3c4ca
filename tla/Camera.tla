------------------------------- MODULE Camera -------------------------------
(***************************************************************************)
(* rhex_air/control/camera.c: the camera service runs raspivid with pipes  *)
(* for its output, and camera_cycle takes the video from one and hands it  *)
(* to wfb_tx_stream, the messages from the other to the log.               *)
(*                                                                         *)
(* The service keeps the writing ends of the pipes, so they never report   *)
(* end of file.                                                            *)
(***************************************************************************)
EXTENDS Integers

CONSTANTS
  PipeSize,     (* what a pipe holds                                       *)
  ChunkSize,    (* MAX_PACKET_LENGTH: the most one read takes              *)
  Messages,     (* how much raspivid writes to stderr at most              *)
  MaxVideo      (* bound on what raspivid writes to stdout                 *)

PipeAssumption == /\ PipeSize \in Nat \ {0} /\ ChunkSize \in Nat \ {0}
                  /\ Messages \in Nat /\ MaxVideo \in Nat

VARIABLES
  child,      (* raspivid: "runs", "dead", or "reaped"                     *)
  wants,      (* where raspivid is going to write: "out", "err"            *)
  video,      (* bytes written to stdout                                   *)
  passed,     (* bytes handed to wfb_tx_stream                             *)
  notes,      (* bytes written to stderr                                   *)
  logged,     (* bytes of them logged                                      *)
  main,       (* svc_cycle says go on                                      *)
  pc,         (* camera_main: "cycle", "select", "read", "kill", "wait",   *)
              (* "end"                                                     *)
  ready,      (* the pipes select() reported                               *)
  killed      (* history: what the final kill() hit, or "none"             *)

childVars == <<wants, video, notes>>
vars      == <<child, childVars, passed, logged, main, pc, ready, killed>>

(* The reading ends of the pipes, in the order they are made.              *)
Fd    == [out |-> 3, err |-> 7]
Pipes == DOMAIN Fd

(* select(nfds, ...): nfds is the larger descriptor, and not one more.     *)
Nfds  == IF Fd["err"] > Fd["out"] THEN Fd["err"] ELSE Fd["out"]

Init ==
  /\ child = "runs" /\ wants = "out"
  /\ video = 0 /\ passed = 0 /\ notes = 0 /\ logged = 0
  /\ main = TRUE /\ pc = "cycle" /\ ready = {} /\ killed = "none"

-----------------------------------------------------------------------------
(* raspivid writes, and waits while the pipe is full.                      *)
Film ==
  /\ child = "runs" /\ wants = "out"
  /\ video - passed < PipeSize /\ video < MaxVideo
  /\ video' = video + 1
  /\ wants' \in IF notes < Messages THEN {"out", "err"} ELSE {"out"}
  /\ UNCHANGED <<child, notes, passed, logged, main, pc, ready, killed>>

Complain ==
  /\ child = "runs" /\ wants = "err"
  /\ notes - logged < PipeSize
  /\ notes' = notes + 1
  /\ wants' = "out"
  /\ UNCHANGED <<child, video, passed, logged, main, pc, ready, killed>>

Crash ==
  /\ child = "runs"
  /\ child' = "dead"
  /\ UNCHANGED <<childVars, passed, logged, main, pc, ready, killed>>

(* The main process dies, and the watchdog runs out.                       *)
Shutdown ==
  /\ main
  /\ main' = FALSE
  /\ UNCHANGED <<child, childVars, passed, logged, pc, ready, killed>>

-----------------------------------------------------------------------------
(* svc_cycle, then waitpid(): the death of raspivid is seen once; later    *)
(* calls find no child to wait for.                                        *)
Check ==
  /\ pc = "cycle"
  /\ IF ~main THEN pc' = "kill" /\ UNCHANGED child
     ELSE IF child = "dead" THEN child' = "reaped" /\ UNCHANGED pc
     ELSE pc' = "select" /\ UNCHANGED child
  /\ UNCHANGED <<childVars, passed, logged, main, ready, killed>>

Holds(p) == IF p = "out" THEN video - passed ELSE notes - logged

(* select(): reports what it looks at and has data, or nothing in a second.*)
Select ==
  /\ pc = "select"
  /\ ready' = {p \in Pipes : Fd[p] < Nfds /\ Holds(p) > 0}
  /\ pc' = IF ready' # {} THEN "read" ELSE "cycle"
  /\ UNCHANGED <<child, childVars, passed, logged, main, killed>>

(* Mutant of Chunk: only full packets are read.                            *)
ChunkWhole(p) == IF p \notin ready \/ Holds(p) < ChunkSize THEN 0 ELSE ChunkSize

Chunk(p) == IF p \notin ready THEN 0
            ELSE IF Holds(p) < ChunkSize THEN Holds(p) ELSE ChunkSize

(* The messages go to the log, the video to wfb_tx_stream.                 *)
Read ==
  /\ pc = "read"
  /\ logged' = logged + Chunk("err")
  /\ passed' = passed + Chunk("out")
  /\ pc' = "cycle"
  /\ UNCHANGED <<child, childVars, main, ready, killed>>

(* Mutant of Kill: the signal is not sent.                                 *)
KillForgotten ==
  /\ pc = "kill"
  /\ pc' = "wait"
  /\ UNCHANGED <<child, childVars, passed, logged, main, ready, killed>>

(* kill(cd.pid, SIGKILL): if the child was reaped before, the number       *)
(* belongs to nobody, or by now to somebody else.                          *)
Kill ==
  /\ pc = "kill"
  /\ pc' = "wait"
  /\ killed' \in IF child = "reaped" THEN {"nobody", "stranger"} ELSE {"raspivid"}
  /\ UNCHANGED <<child, childVars, passed, logged, main, ready>>

(* The signal takes effect.                                                *)
Die ==
  /\ child = "runs" /\ killed = "raspivid"
  /\ child' = "dead"
  /\ UNCHANGED <<childVars, passed, logged, main, pc, ready, killed>>

(* wait(NULL) waits for the child to die, and reaps it; without a child it *)
(* returns at once.                                                        *)
Wait ==
  /\ pc = "wait" /\ child # "runs"
  /\ child' = "reaped"
  /\ pc' = "end"
  /\ UNCHANGED <<childVars, passed, logged, main, ready, killed>>

Service == Check \/ Select \/ Read \/ Kill \/ Wait
Child   == Film \/ Complain \/ Die

Next == Service \/ Child \/ Crash \/ Shutdown

Spec == Init /\ [][Next]_vars

Fairness == WF_vars(Service) /\ WF_vars(Child)
FairSpec == Spec /\ Fairness

-----------------------------------------------------------------------------
TypeOK ==
  /\ child \in {"runs", "dead", "reaped"} /\ wants \in {"out", "err"}
  /\ video \in 0 .. MaxVideo /\ passed \in 0 .. video
  /\ notes \in 0 .. Messages /\ logged \in 0 .. notes
  /\ main \in BOOLEAN /\ pc \in {"cycle", "select", "read", "kill", "wait", "end"}
  /\ ready \in SUBSET Pipes
  /\ killed \in {"none", "raspivid", "nobody", "stranger"}

(* Raspivid waits to write a message to a pipe that nobody empties.        *)
Stuck == wants = "err" /\ notes - logged = PipeSize

PassedOn == passed = video \/ ~main
Filmed   == video = MaxVideo \/ child # "runs" \/ ~main \/ Stuck

(* Again and again all that raspivid has filmed is passed on, also what    *)
(* was in the pipe when it died; and it is never held up in filming, but   *)
(* by its own messages once they fill their pipe, which select() is never  *)
(* asked about.                                                            *)
VideoFlows == []<>PassedOn /\ []<>Filmed

(* Once main has died, and it does not come back, the service ends, and    *)
(* leaves no raspivid behind, running or as a zombie: not one held up at a *)
(* full pipe, which nobody empties any more, and not one that died before. *)
EndsAlone == []<>(main \/ (pc = "end" /\ child = "reaped"))
=============================================================================
