----------------------------- MODULE LinkStatus -----------------------------
(***************************************************************************)
(* How the status of the link reaches the operator on the ground.  main    *)
(* initialises the segments, service by service, and then forks; rssi_rx,  *)
(* telemetry_rx and the video receiver write their records, qgc_forward    *)
(* maps all segments and sends what it reads to the display.  A segment    *)
(* outlives the program, and shm_map_init clears its header only: until    *)
(* the first write of a run readers see what an earlier run has left in    *)
(* the slot of SHM_START_IDX.                                              *)
(*                                                                         *)
(* A record is abstracted to the number of the run that wrote it, 0 for    *)
(* zeros; the slots of shm_map_write are those of SharedMem.  Here it is   *)
(* enough to know what readers see and what the slot of SHM_START_IDX, to  *)
(* which every fourth write goes, has kept.                                *)
(***************************************************************************)
EXTENDS Integers

CONSTANT MaxRuns    (* bound on the runs of the ground program             *)

LinkAssumption == MaxRuns \in Nat \ {0}

(* shm_rx_status, shm_rx_status_rc and shm_rx_status_sysair, and           *)
(* shm_tx_status, which qgc_forward maps and does not use.                 *)
Statuses == {"video", "rc", "sysair"}
Segs     == Statuses \cup {"tx"}

VARIABLES
  run,      (* number of the run                                           *)
  unlisted, (* services whose wfb_rx_init has failed in this run           *)
  here,     (* segments that exist                                         *)
  record,   (* record[s]: the record readers of s are pointed to           *)
  kept,     (* kept[s]: the record in the slot of SHM_START_IDX            *)
  step,     (* what main does next: an init, "fork", "up" or "ended"       *)
  failed,   (* segments whose shm_map_init has failed in this run          *)
  mapped,   (* mapped[p]: segments service p has mapped                    *)
  svc,      (* svc[p]: "none", "starts", "runs", "over" or "crashed"       *)
  shown     (* shown[s]: the record displayed last in this run             *)

segVars == <<here, record, kept>>
vars    == <<run, unlisted, segVars, step, failed, mapped, svc, shown>>

Processes == {"rssi", "telemetry", "qgc", "video"}

Init ==
  /\ run = 1 /\ unlisted = {}
  /\ here = {}
  /\ record = [s \in Statuses |-> 0] /\ kept = [s \in Statuses |-> 0]
  /\ step = "rssi" /\ failed = {}
  /\ mapped = [p \in Processes |-> {}] /\ svc = [p \in Processes |-> "none"]
  /\ shown = [s \in Statuses |-> 0]

-----------------------------------------------------------------------------
(* shm_map_init of the segments is, then shm_map_write to those in ws.     *)
Store(is, ws) ==
  /\ here' = here \cup is
  /\ record' = [s \in Statuses |-> CASE s \in ws -> run
                                     [] s \in is \ ws -> kept[s]
                                     [] OTHER -> record[s]]
  /\ kept' \in {[s \in Statuses |-> IF s \in ks THEN run ELSE kept[s]] : ks \in SUBSET (ws \ is)}

(* rssi_rx_init: shm_tx_status, and if that succeeds the other.            *)
InitRssi ==
  /\ step = "rssi" /\ step' = "telemetry"
  /\ \E ok \in {{"tx", "sysair"}, {"tx"}, {}} :
       /\ failed' = {"tx", "sysair"} \ ok
       /\ Store(ok, {})
  /\ UNCHANGED <<run, unlisted, mapped, svc, shown>>

(* Mutant of InitTelemetry: the first record is left to the service.       *)
InitTelemetryBlank ==
  /\ step = "telemetry" /\ step' = "video"
  /\ Store({"rc"}, {}) /\ mapped' = [mapped EXCEPT !["telemetry"] = {"rc"}]
  /\ UNCHANGED <<run, unlisted, failed, svc, shown>>

(* telemetry_rx_init initialises its segment, maps it and writes to it.    *)
InitTelemetry ==
  /\ step = "telemetry" /\ step' = "video"
  /\ \/ /\ Store({"rc"}, {"rc"})
        /\ mapped' = [mapped EXCEPT !["telemetry"] = {"rc"}]
        /\ UNCHANGED failed
     \/ failed' = failed \cup {"rc"} /\ UNCHANGED <<segVars, mapped>>
  /\ UNCHANGED <<run, unlisted, svc, shown>>

(* wfb_rx_stream_init, called by video_init, does the same, but opens the  *)
(* wifi cards before it writes: if wfb_rx_init fails nothing is written,   *)
(* and a card that cannot be opened ends the program.                      *)
InitVideo ==
  /\ step = "video"
  /\ \/ /\ Store({"video"}, {"video"})
        /\ step' = "rc_tx"
        /\ UNCHANGED <<failed, unlisted>>
     \/ /\ Store({"video"}, {})
        /\ step' \in {"rc_tx", "ended"}
        /\ unlisted' = unlisted \cup {"video"}
        /\ UNCHANGED failed
     \/ /\ failed' = failed \cup {"video"}
        /\ step' = "rc_tx"
        /\ UNCHANGED <<segVars, unlisted>>
  /\ mapped' = [mapped EXCEPT !["video"] = {"video"} \ failed']
  /\ UNCHANGED <<run, svc, shown>>

(* rhex_tx_rc_init initialises shm_tx_status once more.                    *)
InitRcTx ==
  /\ step = "rc_tx" /\ step' = "fork"
  /\ Store({"tx"}, {}) \/ UNCHANGED segVars
  /\ UNCHANGED <<run, unlisted, failed, mapped, svc, shown>>

Fork ==
  /\ step = "fork" /\ step' = "up"
  /\ svc' = [p \in Processes |-> "starts"]
  /\ UNCHANGED <<run, unlisted, segVars, failed, mapped, shown>>

Main == InitRssi \/ InitTelemetry \/ InitVideo \/ InitRcTx \/ Fork

-----------------------------------------------------------------------------
(* What a service does first, and the mapping of its segments.             *)
Begin(p, state, segs) ==
  /\ svc[p] = "starts"
  /\ svc' = [svc EXCEPT ![p] = state]
  /\ mapped' = [mapped EXCEPT ![p] = segs]
  /\ UNCHANGED <<run, step, failed, shown>>

(* The service's own wfb_rx_init fails: it asks for a list of the cards on *)
(* a socket it shares with main and the others, and may get none (see      *)
(* WifiSetup), though others have got theirs; or a card cannot be opened.  *)
Unlisted(p) ==
  /\ Begin(p, "over", mapped[p])
  /\ unlisted' = unlisted \cup {p}
  /\ UNCHANGED segVars

(* Mutant of StartRssi: no record before the first packet.                 *)
StartRssiSilent ==
  \/ Unlisted("rssi")
  \/ /\ {"tx", "sysair"} \subseteq here /\ Begin("rssi", "runs", {"tx", "sysair"})
     /\ UNCHANGED <<unlisted, segVars>>
  \/ /\ ~({"tx", "sysair"} \subseteq here) /\ Begin("rssi", "over", mapped["rssi"])
     /\ UNCHANGED <<unlisted, segVars>>

(* rssi_rx_main: without its list or a segment it ends; else, even with no *)
(* card in the list, it writes records with nothing in them to both.       *)
StartRssi ==
  \/ Unlisted("rssi")
  \/ /\ {"tx", "sysair"} \subseteq here
     /\ Begin("rssi", "runs", {"tx", "sysair"})
     /\ Store({}, {"tx", "sysair"})
     /\ UNCHANGED unlisted
  \/ /\ ~({"tx", "sysair"} \subseteq here)
     /\ Begin("rssi", "over", mapped["rssi"])
     /\ UNCHANGED <<unlisted, segVars>>

(* telemetry_rx_main too ends without its list; video_main goes on without *)
(* video, and rssi_qgc_main without the segments it could not map.         *)
StartOther(p) ==
  /\ p # "rssi"
  /\ \/ p = "telemetry" /\ Unlisted(p)
     \/ /\ Begin(p, "runs", IF p = "qgc" THEN here ELSE mapped[p])
        /\ UNCHANGED <<unlisted, segVars>>

(* A packet has come, or the signal of the video is judged anew: the       *)
(* service writes what it has mapped.  With no card in its list that never *)
(* happens.  With only some of its cards open the video receiver does so   *)
(* too, but has no buffers: a packet of video crashes it.  (Packets for    *)
(* rssi_rx come only from a robot on which the segments rssi_tx_main opens *)
(* have been left by a ground program: the robot's own program makes none  *)
(* of them, and rssi_tx_main ends at once.)                                *)
Update(p) ==
  /\ p # "qgc" /\ svc[p] = "runs"
  /\ \/ Store({}, mapped[p]) /\ UNCHANGED svc
     \/ p \in unlisted /\ svc' = [svc EXCEPT ![p] = "crashed"] /\ UNCHANGED segVars
  /\ UNCHANGED <<run, unlisted, step, failed, mapped, shown>>

(* rssi_qgc_main: the pointer to a segment that is not mapped is NULL.     *)
Display ==
  /\ svc["qgc"] = "runs"
  /\ IF Statuses \subseteq mapped["qgc"]
     THEN shown' = record /\ UNCHANGED svc
     ELSE svc' = [svc EXCEPT !["qgc"] = "crashed"] /\ UNCHANGED shown
  /\ UNCHANGED <<run, unlisted, segVars, step, failed, mapped>>

(* The program is ended and, with all its services gone, started again.    *)
Restart ==
  /\ run < MaxRuns
  /\ run' = run + 1 /\ unlisted' = {}
  /\ step' = "rssi" /\ failed' = {}
  /\ mapped' = [p \in Processes |-> {}] /\ svc' = [p \in Processes |-> "none"]
  /\ shown' = [s \in Statuses |-> 0]
  /\ UNCHANGED segVars

(* main goes through its inits and every service through its beginning.    *)
Start == Main \/ StartRssi \/ \E p \in Processes : StartOther(p)

Next == Start \/ Display \/ Restart \/ \E p \in Processes : Update(p)

(* main and the services run: the program starts, however its processes    *)
(* take turns, and then qgc_forward displays every 250 ms.                 *)
Fairness == WF_vars(Start) /\ WF_vars(Display)

Spec == Init /\ [][Next]_vars /\ Fairness

-----------------------------------------------------------------------------
TypeOK ==
  /\ run \in 1 .. MaxRuns /\ unlisted \subseteq Processes
  /\ here \subseteq Segs /\ record \in [Statuses -> 0 .. MaxRuns]
  /\ kept \in [Statuses -> 0 .. MaxRuns]
  /\ step \in {"rssi", "telemetry", "video", "rc_tx", "fork", "up", "ended"}
  /\ failed \subseteq Segs /\ mapped \in [Processes -> SUBSET Segs]
  /\ svc \in [Processes -> {"none", "starts", "runs", "over", "crashed"}]
  /\ shown \in [Statuses -> 0 .. MaxRuns]

(* When no shm_map_init has failed qgc_forward finds every segment mapped, *)
(* and shows no telemetry status of an earlier run, whatever the order the *)
(* services start in; nor, if wfb_rx_init did not fail in video_init, a    *)
(* video status of an earlier run.                                         *)
OfThisRun ==
  failed = {} =>
    /\ svc["qgc"] # "crashed"
    /\ shown["rc"] \in {0, run}
    /\ "video" \notin unlisted => shown["video"] \in {0, run}

(* With all segments initialised what it shows of the robot is in the end  *)
(* of this run too, though the robot may never send and there may be no    *)
(* card to hear it: unless rssi_rx_main did not get its own list, or the   *)
(* program has been started again.                                         *)
RobotOfThisRun ==
  []<>((step = "up" /\ failed = {})
         => (shown["sysair"] = run \/ "rssi" \in unlisted))
=============================================================================
