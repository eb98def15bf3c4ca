-------------------------- MODULE SupervisorProofs --------------------------
(***************************************************************************)
(* The watchdogs of libsvc/svc.c, for any number of services, any deadline *)
(* and however long the program runs.                                      *)
(***************************************************************************)
EXTENDS Supervisor, TLAPS

Places == {"none", "work", "wait", "check", "test", "left"}

ClockInv ==
  /\ now \in Nat
  /\ pc \in [Services -> Places]
  /\ tm \in [Services -> Nat] /\ watchdog \in [Services -> Nat]
  /\ ran \in [Services -> Nat] /\ wrote \in [Services -> Nat]
  /\ back \in Nat /\ fired \in Nat
  /\ mark \in [Services -> Nat] /\ due \in [Services -> Nat]
  /\ \A s \in Services : /\ tm[s] <= now /\ watchdog[s] <= wrote[s] /\ wrote[s] <= now
                          /\ due[s] <= back

(* Main stores no time older than its last store to the same watchdog.     *)
StampInv ==
  /\ main \in {"starting", "running", "dead"}
  /\ main = "starting" => stamp = None
  /\ stamp # None => /\ stamp \in Nat /\ stamp <= now
                     /\ next \in Services => wrote[next] <= stamp
                     /\ main # "dead" => now <= stamp + MainLag

(* While main is alive every watchdog was written lately, if the wall      *)
(* clock was not set back, with a time that was recent then, and nobody    *)
(* has left.                                                               *)
AliveInv ==
  \A s \in Services :
    /\ s \notin listed => pc[s] = "none"
    /\ main # "dead" /\ s \in listed => /\ now <= wrote[s] + MainLag + back
                                        /\ wrote[s] <= watchdog[s] + MainLag
    /\ main # "dead" /\ back <= Spare => pc[s] # "left"

(* How far a service that does not wait can get behind a watchdog nobody   *)
(* writes: one slice for each step of its loop, and the time its timer is  *)
(* late.                                                                   *)
LoopInv ==
  \A s \in Services :
    /\ Active(s) => ran[s] <= now /\ now <= ran[s] + Slice + Asleep(s)
    /\ s \notin Blocking =>
         /\ pc[s] # "wait"
         /\ pc[s] = "work"  => ran[s] <= watchdog[s] + Deadline + Slice
         /\ pc[s] = "check" => ran[s] <= watchdog[s] + Deadline + 2 * Slice + back
         /\ pc[s] = "test"  => ran[s] <= watchdog[s] + Deadline + 3 * Slice + back
    /\ pc[s] = "test" => tm[s] = ran[s]

IInv == ClockInv /\ StampInv /\ AliveInv /\ LoopInv

-----------------------------------------------------------------------------
LEMMA IInvInit == Init => IInv
  BY DEF Init, IInv, ClockInv, StampInv, AliveInv, LoopInv, Active, Asleep, Places, None

LEMMA IInvStartNext == IInv /\ StartNext => IInv'
<1> SUFFICES ASSUME IInv, StartNext  PROVE IInv'
  OBVIOUS
<1> USE TimeAssumption DEF IInv, clockVars
<1>1. /\ main = "starting" /\ stamp = None /\ stamp' = stamp
      /\ main' \in {"starting", "running"} /\ now' = now /\ tm' = tm
      /\ back' = back /\ fired' = fired
  BY DEF StartNext, StampInv
<1>2. CASE /\ listed' = listed \cup {next}
           /\ pc' = [pc EXCEPT ![next] = "work"]
           /\ watchdog' = [watchdog EXCEPT ![next] = now]
           /\ ran' = [ran EXCEPT ![next] = now]
           /\ wrote' = [wrote EXCEPT ![next] = now]
           /\ mark' = [mark EXCEPT ![next] = fired]
           /\ due' = [due EXCEPT ![next] = back]
  <2>1. ClockInv'
    <3>1. pc' \in [Services -> Places]
      BY <1>2 DEF ClockInv, Places
    <3>2. /\ watchdog' \in [Services -> Nat] /\ ran' \in [Services -> Nat]
          /\ wrote' \in [Services -> Nat]
          /\ mark' \in [Services -> Nat] /\ due' \in [Services -> Nat]
      BY <1>2 DEF ClockInv
    <3>3. \A s \in Services : /\ watchdog'[s] <= wrote'[s] /\ wrote'[s] <= now
                              /\ due'[s] <= back
      BY <1>2 DEF ClockInv
    <3> QED
      BY <1>1, <3>1, <3>2, <3>3 DEF ClockInv
  <2>2. StampInv'
    BY <1>1 DEF StampInv
  <2>3. AliveInv'
    BY <1>1, <1>2 DEF AliveInv, ClockInv
  <2>4. LoopInv'
    BY <1>1, <1>2 DEF LoopInv, ClockInv, Active, Asleep
  <2> QED
    BY <2>1, <2>2, <2>3, <2>4
<1>3. CASE UNCHANGED <<listed, pc, watchdog, ran, wrote, mark, due>>
  BY <1>1, <1>3 DEF ClockInv, StampInv, AliveInv, LoopInv, Active, Asleep
<1> QED
  BY <1>2, <1>3 DEF StartNext

LEMMA IInvReadTime == IInv /\ ReadTime => IInv'
<1> SUFFICES ASSUME IInv, ReadTime  PROVE IInv'
  OBVIOUS
<1>1. StampInv'
  BY TimeAssumption DEF IInv, ReadTime, StampInv, ClockInv
<1>2. ClockInv'
  BY DEF IInv, ReadTime, ClockInv
<1>3. AliveInv' /\ LoopInv'
  BY DEF IInv, ReadTime, AliveInv, LoopInv, Active, Asleep
<1> QED
  BY <1>1, <1>2, <1>3 DEF IInv

LEMMA IInvWriteWatchdog == IInv /\ WriteWatchdog => IInv'
<1> SUFFICES ASSUME IInv, WriteWatchdog  PROVE IInv'
  OBVIOUS
<1> USE TimeAssumption DEF IInv, clockVars
<1>1. /\ main = "running" /\ stamp \in Nat /\ stamp <= now /\ stamp' = None
      /\ next \in Services => wrote[next] <= stamp
      /\ main # "dead" => now <= stamp + MainLag
      /\ UNCHANGED <<now, main, listed, pc, tm, ran, back, fired, due>>
  BY DEF WriteWatchdog, StampInv
<1>2. StampInv'
  BY <1>1 DEF StampInv
<1>3. CASE /\ next \in listed
           /\ watchdog' = [watchdog EXCEPT ![next] = stamp]
           /\ wrote' = [wrote EXCEPT ![next] = now]
           /\ mark' = [mark EXCEPT ![next] = fired]
  <2>1. ClockInv'
    <3>1. watchdog' \in [Services -> Nat] /\ wrote' \in [Services -> Nat]
          /\ mark' \in [Services -> Nat]
      BY <1>1, <1>3 DEF ClockInv
    <3>2. \A s \in Services : watchdog'[s] <= wrote'[s] /\ wrote'[s] <= now
      BY <1>1, <1>3 DEF ClockInv
    <3> QED
      BY <1>1, <3>1, <3>2 DEF ClockInv
  <2>2. \A s \in Services : watchdog[s] <= watchdog'[s]
    BY <1>1, <1>3 DEF ClockInv
  <2>3. AliveInv'
    BY <1>1, <1>3 DEF AliveInv, ClockInv
  <2>4. LoopInv'
    BY <1>1, <2>1, <2>2 DEF LoopInv, ClockInv, Active, Asleep
  <2> QED
    BY <1>2, <2>1, <2>3, <2>4
<1>4. CASE UNCHANGED <<watchdog, wrote, mark>>
  BY <1>1, <1>2, <1>4 DEF ClockInv, AliveInv, LoopInv, Active, Asleep
<1> QED
  BY <1>3, <1>4 DEF WriteWatchdog

LEMMA IInvDie == IInv /\ Die => IInv'
  BY DEF IInv, Die, clockVars, ClockInv, StampInv, AliveInv, LoopInv, Active, Asleep

(* More lateness is allowed for, and nobody leaves.                        *)
LEMMA IInvSetBack ==
  ASSUME IInv, NEW d \in Steps, SetBack(d)
  PROVE  IInv'
<1> USE TimeAssumption DEF IInv, clockVars
<1>1. /\ d \in Nat /\ back' = back + d
      /\ UNCHANGED <<now, main, next, stamp, listed, pc, tm, watchdog, ran, wrote, fired, mark, due>>
  BY DEF SetBack
<1>2. ClockInv'
  BY <1>1 DEF ClockInv
<1>3. StampInv'
  BY <1>1 DEF StampInv
<1>4. AliveInv'
  BY <1>1 DEF AliveInv, ClockInv, Spare
<1>5. LoopInv'
  BY <1>1 DEF LoopInv, ClockInv, Active, Asleep
<1> QED
  BY <1>2, <1>3, <1>4, <1>5

LEMMA IInvTick == IInv /\ Tick => IInv'
<1> SUFFICES ASSUME IInv, Tick  PROVE IInv'
  OBVIOUS
<1> USE TimeAssumption DEF IInv, clockVars
<1>1. now' = now + 1 /\ UNCHANGED <<main, next, stamp, listed, pc, tm, watchdog, ran, wrote, back, fired, mark, due>>
  BY DEF Tick
<1>2. ClockInv'
  BY <1>1 DEF ClockInv
<1>3. StampInv'
  <2>1. main # "dead" /\ stamp # None => now - stamp < MainLag
    BY DEF Tick
  <2> QED
    BY <1>1, <2>1 DEF StampInv, ClockInv
<1>4. AliveInv'
  <2>1. main # "dead" => \A s \in listed : now - wrote[s] < MainLag + (back - mark[s])
    BY DEF Tick
  <2> QED
    BY <1>1, <2>1 DEF AliveInv, ClockInv
<1>5. LoopInv'
  <2>1. \A s \in Services : Active(s) => now - ran[s] < Slice + Asleep(s)
    BY DEF Tick
  <2> QED
    BY <1>1, <2>1 DEF LoopInv, ClockInv, Active, Asleep
<1> QED
  BY <1>2, <1>3, <1>4, <1>5

(* A step of service s to another place of its loop.                       *)
LEMMA IInvWork ==
  ASSUME IInv, NEW s \in Services, Work(s) \/ DataComes(s)
  PROVE  IInv'
<1> USE TimeAssumption DEF IInv, clockVars
<1>1. PICK from \in Places, to \in Places :
        /\ pc[s] = from /\ pc' = [pc EXCEPT ![s] = to] /\ ran' = [ran EXCEPT ![s] = now]
        /\ from # "none" /\ to \in {"check", "wait"}
        /\ s \notin Blocking => from \in {"work", "wait"} /\ to = "check"
        /\ due' = [due EXCEPT ![s] = back] \/ due' = due
  BY DEF Work, DataComes, Step, Places, clockVars
<1>2. UNCHANGED <<now, main, next, stamp, listed, tm, watchdog, wrote, back, fired, mark>>
  BY DEF Work, DataComes, clockVars
<1>3. ClockInv'
  BY <1>1, <1>2 DEF ClockInv
<1>4. StampInv'
  BY <1>2 DEF StampInv
<1>5. AliveInv'
  BY <1>1, <1>2 DEF AliveInv, ClockInv
<1>6. LoopInv'
  BY <1>1, <1>2 DEF LoopInv, ClockInv, Active, Asleep
<1> QED
  BY <1>3, <1>4, <1>5, <1>6

LEMMA IInvReadClock ==
  ASSUME IInv, NEW s \in Services, ReadClock(s)
  PROVE  IInv'
<1> USE TimeAssumption DEF IInv, clockVars
<1>1. /\ pc[s] = "check" /\ pc' = [pc EXCEPT ![s] = "test"]
      /\ ran' = [ran EXCEPT ![s] = now] /\ tm' = [tm EXCEPT ![s] = now]
      /\ UNCHANGED <<now, main, next, stamp, listed, watchdog, wrote, back, fired, mark, due>>
  BY DEF ReadClock, Step
<1>2. ClockInv'
  BY <1>1 DEF ClockInv, Places
<1>3. StampInv'
  BY <1>1 DEF StampInv
<1>4. AliveInv'
  BY <1>1 DEF AliveInv, ClockInv
<1>5. LoopInv'
  BY <1>1 DEF LoopInv, ClockInv, Active, Asleep
<1> QED
  BY <1>2, <1>3, <1>4, <1>5

(* The test fails only when main is dead.                                  *)
LEMMA IInvTestWatchdog ==
  ASSUME IInv, NEW s \in Services, TestWatchdog(s)
  PROVE  IInv'
<1> USE TimeAssumption DEF IInv, clockVars
<1> DEFINE to == IF Late(s) THEN "left" ELSE "work"
<1>1. /\ pc[s] = "test" /\ pc' = [pc EXCEPT ![s] = to]
      /\ ran' = [ran EXCEPT ![s] = now] /\ tm' = [tm EXCEPT ![s] = 0]
      /\ UNCHANGED <<now, main, next, stamp, listed, watchdog, wrote, back, fired, mark, due>>
  BY DEF TestWatchdog, Step
<1>2. main # "dead" /\ back <= Spare => ~Late(s)
  <2>1. main # "dead" => now <= wrote[s] + MainLag + back /\ wrote[s] <= watchdog[s] + MainLag
    BY <1>1 DEF AliveInv
  <2> QED
    BY <2>1 DEF Late, ClockInv, Spare
<1>3. ~Late(s) => now <= watchdog[s] + Deadline + Slice
  BY <1>1 DEF Late, LoopInv, Active, Asleep, ClockInv
<1>t. to \in {"left", "work"} /\ (to = "work" <=> ~Late(s))
  OBVIOUS
<1> HIDE DEF to
<1>4. ClockInv'
  BY <1>1, <1>t DEF ClockInv, Places
<1>5. StampInv'
  BY <1>1 DEF StampInv
<1>6. AliveInv'
  BY <1>1, <1>2, <1>t DEF AliveInv, ClockInv
<1>7. LoopInv'
  BY <1>1, <1>3, <1>t DEF LoopInv, ClockInv, Active, Asleep
<1> QED
  BY <1>4, <1>5, <1>6, <1>7

LEMMA IInvStep == IInv /\ [Next]_vars => IInv'
<1> SUFFICES ASSUME IInv, [Next]_vars  PROVE IInv'
  OBVIOUS
<1>1. CASE UNCHANGED vars
  BY <1>1 DEF vars, clockVars, IInv, ClockInv, StampInv, AliveInv, LoopInv, Active, Asleep
<1>2. ASSUME NEW s \in Services, Service(s) \/ DataComes(s)  PROVE IInv'
  BY <1>2, IInvWork, IInvReadClock, IInvTestWatchdog DEF Service
<1> QED
  BY <1>1, <1>2, IInvStartNext, IInvReadTime, IInvWriteWatchdog, IInvDie, IInvSetBack, IInvTick DEF Next, Main

LEMMA Inductive == Spec => []IInv
  BY IInvInit, IInvStep, PTL DEF Spec

-----------------------------------------------------------------------------
(* No service takes a main that is alive and on time for dead.             *)
THEOREM MainAliveNoAlarm == Spec => []NoFalseAlarm
<1>1. IInv => NoFalseAlarm
  BY DEF IInv, AliveInv, NoFalseAlarm
<1> QED
  BY <1>1, Inductive, PTL

(* A service that does not wait for data does not outlive main by more     *)
(* than the deadline and one turn of its loop.                             *)
THEOREM OrphansEnd == Spec => []OrphansLeave
<1>1. IInv => OrphansLeave
  <2> SUFFICES ASSUME IInv, NEW s \in Services \ Blocking, Active(s)
               PROVE  now <= watchdog[s] + Deadline + 4 * Slice + back
    BY DEF OrphansLeave
  <2> QED
    BY TimeAssumption DEF IInv, ClockInv, LoopInv, Active, Asleep
<1> QED
  BY <1>1, Inductive, PTL
=============================================================================
