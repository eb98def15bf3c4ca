-------------------------------- MODULE Gait --------------------------------
(***************************************************************************)
(* The gait of rhex_air/control/motion.c: make_step turns a phase common   *)
(* to all legs and from it computes the angle of each, which it sends to   *)
(* the drives with the speed it takes to get there within one cycle.       *)
(*                                                                         *)
(* The floats of the code are integers here: a stick is -500 .. 500, a     *)
(* phase is in 1/20000 of a step and an angle in 1/50 of the drive's unit, *)
(* so that what the code adds up is exact but for the advance of the phase *)
(* and the two products that scale it, which are rounded down.             *)
(***************************************************************************)
EXTENDS Integers

Legs     == 0 .. 5
Left     == {0, 2, 5}      (* drv_status[d].side                            *)
Step     == 20000          (* phases of a step: 1.0                         *)
Circle   == 38400          (* FULL_CIRCLE                                   *)
MaxSpeed == 1536           (* of a drive                                    *)

Abs(x) == IF x < 0 THEN -x ELSE x

(* rc_main: an axis of the remote control, 1000 .. 2000, and 0 in the      *)
(* packet of an empty read; flimit holds it to full deflection.            *)
Stick(axis) ==
  LET v == axis - 1500 IN IF v > 500 THEN 500 ELSE IF v < -500 THEN -500 ELSE v

(* Where a leg touches the ground and leaves it: the faster, the longer.   *)
DownStart(speed) == 15500 + 5 * speed
DownEnd(speed)   == 7000 - 4 * speed

(* How far the phase turns in a cycle; slower in a turn, except a turn so  *)
(* tight that the steering is twice the speed or more.                     *)
Advance(speed, steering) ==
  IF Abs(steering) < 2 * Abs(speed)
  THEN (4 * speed * Abs(speed)) \div (5 * (2 * Abs(speed) + Abs(steering)))
  ELSE (2 * speed) \div 5

NextPhase(phase, speed, steering) ==
  LET n == phase + Advance(speed, steering)
  IN  IF n > Step THEN n - Step ELSE IF n < 0 THEN n + Step ELSE n

(* Mutant of Offset: the legs of a side move together.                     *)
OffsetBySide(d) == IF d \in Left THEN 0 ELSE Step \div 2

(* drv_status[d].phase_offset: two legs of one side and the middle one of  *)
(* the other move together.                                                *)
Offset(d) == IF d \in {0, 3, 5} THEN 0 ELSE Step \div 2

Centered(p) == IF p > Step \div 2 THEN p - Step ELSE IF p < -(Step \div 2) THEN p + Step ELSE p

(* The phase of leg d, above 0 while it is down; in a turn the legs of the *)
(* inner side stay down for the same time but on a shorter way.            *)
LegPhase(phase, d, steering) ==
  LET inner == IF steering > 0 THEN d \notin Left ELSE d \in Left
      from  == IF inner THEN 10 * Abs(steering) ELSE 0
      down  == Step \div 2 - 2 * from
      p     == Centered(Step \div 2 - (phase + Offset(d)))
  IN  Centered((2 * p * (IF p > 0 THEN down ELSE Step - down)) \div Step + from)

Angle(p, speed) ==
  LET down == DownStart(speed) - DownEnd(speed)
      a    == (2 * p * (IF p > 0 THEN down ELSE Circle - down)) \div Step + DownEnd(speed)
  IN  IF a > Circle THEN a - Circle ELSE IF a < 0 THEN a + Circle ELSE a

Angles(phase, speed, steering) ==
  [d \in Legs |-> Angle(LegPhase(phase, d, steering), speed)]

(* fdiff: the shorter way round.                                           *)
Between(a, b) == LET d == Abs(b - a) IN IF d > Circle \div 2 THEN Circle - d ELSE d

(* The command for leg d: the last two drives are mounted the other way.   *)
Command(d, from, to) ==
  LET v == (Between(to, from) * 105) \div 50
  IN  [position |-> IF d \in {4, 5} THEN 768 - to \div 50 ELSE to \div 50,
       speed    |-> IF v > MaxSpeed THEN MaxSpeed ELSE v]

(* make_step, from a common phase and the angles of the legs.              *)
MakeStep(phase, pos, speed, steering) ==
  LET next == NextPhase(phase, speed, steering)
      to   == Angles(next, speed, steering)
  IN  [phase |-> next, pos |-> to, cmd |-> [d \in Legs |-> Command(d, pos[d], to[d])]]
=============================================================================
