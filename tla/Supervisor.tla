----------------------------- MODULE Supervisor -----------------------------
(***************************************************************************)
(* rhex_air/main.c and rhex_ground/main.c with libsvc/svc.c: the main      *)
(* process forks the services one by one, then every 50 ms puts the time   *)
(* into the watchdog of each (memory shared with it).  A service tests its *)
(* own watchdog in svc_cycle and leaves when it is older than              *)
(* TIME_DEADLINE, so that no service outlives main.                        *)
(*                                                                         *)
(* Time is the monotonic clock in units of one main_cycle.  Reading the    *)
(* clock and using what it showed are separate steps on both sides.  The   *)
(* timers (libsvc/timerfd.c) are absolute on the wall clock: when that is  *)
(* set back, main and every service that waits for its timer sleep longer  *)
(* by as much, while the watchdogs are of the monotonic clock.  (Set       *)
(* forward, a timer fires early, which the model allows at any time.)      *)
(***************************************************************************)
EXTENDS Integers, FiniteSets

CONSTANTS
  Services,    (* in the order of svc_start_list                           *)
  Deadline,    (* TIME_DEADLINE: 20 main cycles                            *)
  MainLag,     (* assumed: main writes each watchdog at least this often   *)
  Slice,       (* assumed: a running service is not kept from the CPU      *)
               (* longer between two of its steps                          *)
  Blocking,    (* services that may wait for data for ever (period 0)      *)
  ForkFails,   (* TRUE: fork() may fail                                    *)
  Steps,       (* by how much the wall clock may be set back at once       *)
  MaxBack,     (* bound on all of that together                            *)
  MaxTime      (* bound on the clock                                       *)

ASSUME TimeAssumption == /\ Deadline \in Nat \ {0} /\ MainLag \in Nat \ {0}
                         /\ Slice \in Nat \ {0} /\ MaxTime \in Nat
                         /\ Steps \subseteq Nat /\ MaxBack \in Nat
ASSUME ServiceAssumption == /\ Services \in SUBSET Nat /\ Blocking \subseteq Services
                            /\ ForkFails \in BOOLEAN

None == -1

VARIABLES
  now,       (* the monotonic clock                                        *)
  main,      (* "starting", "running" or "dead"                            *)
  next,      (* the service start_microservices or main_cycle comes to     *)
  stamp,     (* the time main read for the watchdog of next, or None       *)
  listed,    (* services in svc_list, those with a pid                     *)
  pc,        (* pc[s]: "none", "work", "wait", "test", "left"              *)
  tm,        (* tm[s]: the time check_watchdog read                        *)
  watchdog,  (* watchdog[s]: ctx->watchdog                                 *)
  ran,       (* ran[s]: when s last made a step                            *)
  wrote,     (* wrote[s]: when main last wrote watchdog[s]                 *)
  back,      (* how far the wall clock has been set back so far            *)
  fired,     (* what back was when main's timer last fired                 *)
  mark,      (* mark[s]: what fired was when main last wrote watchdog[s]   *)
  due        (* due[s]: what back was when the timer of s last fired       *)

clockVars == <<back, fired, mark, due>>
vars == <<now, main, next, stamp, listed, pc, tm, watchdog, ran, wrote, clockVars>>

After(s) == {t \in Services : t > s}
First(S) == CHOOSE s \in S : \A t \in S : s <= t

Init ==
  /\ now = 0
  /\ main = "starting" /\ next = First(Services) /\ stamp = None
  /\ listed = {}
  /\ pc = [s \in Services |-> "none"]
  /\ tm = [s \in Services |-> 0]
  /\ watchdog = [s \in Services |-> 0]
  /\ ran = [s \in Services |-> 0]
  /\ wrote = [s \in Services |-> 0]
  /\ back = 0 /\ fired = 0
  /\ mark = [s \in Services |-> 0]
  /\ due = [s \in Services |-> 0]

(* start_svc(next): the child sets its watchdog itself (svc_init_context); *)
(* a service that cannot be forked is left out and the rest are started.   *)
StartNext ==
  /\ main = "starting"
  /\ \/ /\ listed' = listed \cup {next}
        /\ pc' = [pc EXCEPT ![next] = "work"]
        /\ watchdog' = [watchdog EXCEPT ![next] = now]
        /\ ran' = [ran EXCEPT ![next] = now]
        /\ wrote' = [wrote EXCEPT ![next] = now]
        /\ mark' = [mark EXCEPT ![next] = fired]
        /\ due' = [due EXCEPT ![next] = back]
     \/ /\ ForkFails
        /\ UNCHANGED <<listed, pc, watchdog, ran, wrote, mark, due>>
  /\ IF After(next) # {}
     THEN next' = First(After(next)) /\ UNCHANGED main
     ELSE main' = "running" /\ next' = First(Services)
  /\ UNCHANGED <<now, stamp, tm, back, fired>>

(* main_cycle: svc_list[i].ctx->watchdog = svc_get_monotime(), for each i.  *)
(* Before the first of them main has waited for its timer.                 *)
ReadTime ==
  /\ main = "running" /\ stamp = None
  /\ stamp' = now
  /\ fired' = IF next = First(Services) THEN back ELSE fired
  /\ UNCHANGED <<now, main, next, listed, pc, tm, watchdog, ran, wrote, back, mark, due>>

WriteWatchdog ==
  /\ main = "running" /\ stamp # None
  /\ IF next \in listed
     THEN /\ watchdog' = [watchdog EXCEPT ![next] = stamp]
          /\ wrote' = [wrote EXCEPT ![next] = now]
          /\ mark' = [mark EXCEPT ![next] = fired]
     ELSE UNCHANGED <<watchdog, wrote, mark>>
  /\ stamp' = None
  /\ next' = IF After(next) = {} THEN First(Services) ELSE First(After(next))
  /\ UNCHANGED <<now, main, listed, pc, tm, ran, back, fired, due>>

(* main crashes or is killed.                                              *)
Die ==
  /\ main \in {"starting", "running"}
  /\ main' = "dead"
  /\ UNCHANGED <<now, next, stamp, listed, pc, tm, watchdog, ran, wrote, clockVars>>

(* Somebody, or NTP, sets the wall clock back.                             *)
SetBack(d) ==
  /\ back + d <= MaxBack
  /\ back' = back + d
  /\ UNCHANGED <<now, main, next, stamp, listed, pc, tm, watchdog, ran, wrote, fired, mark, due>>

Step(s, from, to) ==
  /\ pc[s] = from
  /\ pc' = [pc EXCEPT ![s] = to]
  /\ ran' = [ran EXCEPT ![s] = now]

(* A service does its work, calls svc_cycle and is woken by its timer; one *)
(* without a timer goes on at once, or waits for data.                     *)
Work(s) ==
  /\ \/ Step(s, "work", "check")
     \/ s \in Blocking /\ Step(s, "work", "wait")
  /\ due' = [due EXCEPT ![s] = back]
  /\ UNCHANGED <<now, main, next, stamp, listed, tm, watchdog, wrote, back, fired, mark>>

DataComes(s) ==
  /\ Step(s, "wait", "check")
  /\ UNCHANGED <<now, main, next, stamp, listed, tm, watchdog, wrote, clockVars>>

(* check_watchdog: tm = svc_get_monotime() ...                             *)
ReadClock(s) ==
  /\ Step(s, "check", "test")
  /\ tm' = [tm EXCEPT ![s] = now]
  /\ UNCHANGED <<now, main, next, stamp, listed, watchdog, wrote, clockVars>>

(* Mutants of Late: a difference that wraps counts as huge; the operands   *)
(* are swapped.                                                            *)
LateOnWrap(s)  == tm[s] - watchdog[s] > Deadline \/ tm[s] < watchdog[s]
LateSwapped(s) == watchdog[s] - tm[s] > Deadline

(* ... diff = tm - watchdog, unsigned: if main wrote in between it wraps   *)
(* to a huge number, which is taken as in time.                            *)
Late(s) == tm[s] - watchdog[s] > Deadline

(* Mutant of TestWatchdog: the result of svc_cycle is not looked at.       *)
TestIgnored(s) ==
  /\ Step(s, "test", "work")
  /\ tm' = [tm EXCEPT ![s] = 0]
  /\ UNCHANGED <<now, main, next, stamp, listed, watchdog, wrote, clockVars>>

TestWatchdog(s) ==
  /\ Step(s, "test", IF Late(s) THEN "left" ELSE "work")
  /\ tm' = [tm EXCEPT ![s] = 0]
  /\ UNCHANGED <<now, main, next, stamp, listed, watchdog, wrote, clockVars>>

Active(s) == pc[s] \in {"work", "check", "test"}

(* How much longer than its period s sleeps.                               *)
Asleep(s) == IF pc[s] = "work" /\ s \notin Blocking THEN back - due[s] ELSE 0

(* Time passes.  Main, while alive, and the services are on time but for   *)
(* what their timers are late.                                             *)
Tick ==
  /\ now < MaxTime
  /\ \/ main = "dead"
     \/ /\ \A s \in listed : now - wrote[s] < MainLag + (back - mark[s])
        /\ stamp # None => now - stamp < MainLag
  /\ \A s \in Services : Active(s) => now - ran[s] < Slice + Asleep(s)
  /\ now' = now + 1
  /\ UNCHANGED <<main, next, stamp, listed, pc, tm, watchdog, ran, wrote, clockVars>>

Main       == StartNext \/ ReadTime \/ WriteWatchdog
Service(s) == Work(s) \/ ReadClock(s) \/ TestWatchdog(s)

Next == \/ Main \/ Die \/ Tick
        \/ \E d \in Steps : SetBack(d)
        \/ \E s \in Services : Service(s) \/ DataComes(s)

Spec == Init /\ [][Next]_vars

-----------------------------------------------------------------------------
TypeOK ==
  /\ now \in 0 .. MaxTime
  /\ main \in {"starting", "running", "dead"}
  /\ next \in Services /\ stamp \in {None} \cup 0 .. now
  /\ listed \in SUBSET Services
  /\ pc \in [Services -> {"none", "work", "wait", "check", "test", "left"}]
  /\ tm \in [Services -> 0 .. now] /\ watchdog \in [Services -> 0 .. now]
  /\ ran \in [Services -> 0 .. now] /\ wrote \in [Services -> 0 .. now]
  /\ back \in 0 .. MaxBack /\ fired \in 0 .. back
  /\ mark \in [Services -> 0 .. fired] /\ due \in [Services -> 0 .. back]

(* What the deadline leaves for a clock that is set back: main may be late *)
(* in reading the clock and again in storing what it read.                 *)
Spare == Deadline - 2 * MainLag

(* As long as main is alive and on time no service leaves: not while the   *)
(* others are still being started, not when main is delayed between        *)
(* reading the clock and storing it, nor the service between reading the   *)
(* clock and the watchdog, nor when the wall clock is set back by less     *)
(* than the deadline can spare.                                            *)
NoFalseAlarm ==
  (main # "dead" /\ back <= Spare) => \A s \in Services : pc[s] # "left"

(* Once main is dead a service that does not wait for data is gone when    *)
(* the deadline and one cycle of its own have passed, which is longer by   *)
(* as much as the wall clock was set back.                                 *)
OrphansLeave ==
  \A s \in Services \ Blocking :
     (main = "dead" /\ Active(s)) => now <= watchdog[s] + Deadline + 4 * Slice + back
=============================================================================
