----------------------------- MODULE GpsReader ------------------------------
(***************************************************************************)
(* rhex_air/sensors/gps.c: gps_main waits with select() for up to a second *)
(* for the serial line, reads what is there in pieces that need not end    *)
(* with a sentence, puts the lines together again and hands each to        *)
(* parse_line, which publishes the position when an RMC sentence has come. *)
(*                                                                         *)
(* The line carries sentences one after the other.  A character is         *)
(* abstracted to [s, end]: the ordinal of its sentence and whether it is   *)
(* the newline that ends it.  Sentence s is of kind Kinds[s].              *)
(***************************************************************************)
EXTENDS Integers, Sequences

CONSTANTS
  Kinds,       (* the sentences: "GGA" (with a fix), "NOFIX", "RMC", "bad" *)
  Length,      (* characters of a sentence before its newline              *)
  ReadSize,    (* sizeof(buffer): 128                                      *)
  LineSize     (* sizeof(line): 256                                        *)

GpsAssumption == /\ Kinds \in Seq({"GGA", "NOFIX", "RMC", "bad"})
                 /\ Length \in Nat \ {0} /\ ReadSize \in Nat \ {0}
                 /\ LineSize \in Nat /\ Length < LineSize

VARIABLES
  sent,      (* characters the receiver has sent so far                    *)
  taken,     (* characters read so far                                     *)
  watched,   (* the line is in readfs                                      *)
  pc,        (* "select" or "read"                                         *)
  line,      (* line[0 .. line_len - 1]                                    *)
  tmp,       (* tmp_gps_status: [pos, alt, fix], the ordinals of the       *)
             (* sentences the position and the altitude come from          *)
  shm        (* the record in shm_gps                                      *)

vars == <<sent, taken, watched, pc, line, tmp, shm>>

Total   == Len(Kinds) * (Length + 1)
Char(n) == [s |-> ((n - 1) \div (Length + 1)) + 1, end |-> n % (Length + 1) = 0]

NoFix == [pos |-> 0, alt |-> 0, fix |-> FALSE]

(* FD_SET(gps_fd, &readfs), once and for all.                              *)
Init ==
  /\ sent = 0 /\ taken = 0
  /\ watched = TRUE
  /\ pc = "select"
  /\ line = <<>>
  /\ tmp = NoFix /\ shm = NoFix

Transmit ==
  /\ sent < Total
  /\ sent' = sent + 1
  /\ UNCHANGED <<taken, watched, pc, line, tmp, shm>>

(* select() returns: with the line ready if it is watched and has data, or *)
(* after a second without.  The set is filled once, before the loop, and a *)
(* select() that times out clears it: from then on the line is not looked  *)
(* at, though the comment goes on "waiting for new data ...".              *)
Ready ==
  /\ pc = "select"
  /\ watched /\ taken < sent
  /\ pc' = "read"
  /\ UNCHANGED <<sent, taken, watched, line, tmp, shm>>

Timeout ==
  /\ pc = "select"
  /\ ~watched \/ taken = sent
  /\ watched' = FALSE
  /\ UNCHANGED <<sent, taken, pc, line, tmp, shm>>

-----------------------------------------------------------------------------
(* Mutant of Parse: RMC publishes before it writes its position.           *)
ParseEarly(st, s) ==
  CASE Kinds[s] = "GGA"   -> [st EXCEPT !.tmp = [pos |-> s, alt |-> s, fix |-> TRUE]]
    [] Kinds[s] = "NOFIX" -> [st EXCEPT !.tmp.fix = FALSE]
    [] Kinds[s] = "RMC"   -> [st EXCEPT !.shm = st.tmp, !.tmp.pos = s]
    [] OTHER              -> st

(* parse_line: GGA and RMC write into tmp_gps_status, RMC publishes it.    *)
Parse(st, s) ==
  CASE Kinds[s] = "GGA"   -> [st EXCEPT !.tmp = [pos |-> s, alt |-> s, fix |-> TRUE]]
    [] Kinds[s] = "NOFIX" -> [st EXCEPT !.tmp.fix = FALSE]
    [] Kinds[s] = "RMC"   -> [st EXCEPT !.tmp.pos = s, !.shm = [st.tmp EXCEPT !.pos = s]]
    [] OTHER              -> st

(* One character: a newline ends a line that is not empty.                 *)
Take(st, c) ==
  IF c.end
  THEN LET st1 == [st EXCEPT !.line = <<>>]
       IN  IF Len(st.line) = Length THEN Parse(st1, st.line[1]) ELSE st1
  ELSE [st EXCEPT !.line = Append(@, c.s)]

(* read() returns some of what is there, at most ReadSize characters, and  *)
(* the loop goes through them.                                             *)
Read ==
  /\ pc = "read"
  /\ \E n \in 1 .. ReadSize :
       /\ n <= sent - taken
       /\ LET st0 == [line |-> line, tmp |-> tmp, shm |-> shm]
              st[k \in 0 .. n] == IF k = 0 THEN st0 ELSE Take(st[k - 1], Char(taken + k))
          IN  /\ line' = st[n].line /\ tmp' = st[n].tmp
              /\ shm' = st[n].shm
       /\ taken' = taken + n
  /\ pc' = "select"
  /\ UNCHANGED <<sent, watched>>

Next == Transmit \/ Ready \/ Timeout \/ Read

Spec == Init /\ [][Next]_vars

-----------------------------------------------------------------------------
TypeOK ==
  /\ sent \in 0 .. Total /\ taken \in 0 .. sent
  /\ watched \in BOOLEAN
  /\ pc \in {"select", "read"}
  /\ Len(line) < LineSize
  /\ tmp.fix \in BOOLEAN /\ shm.fix \in BOOLEAN

(* However the sentences are cut into reads, the published record is of    *)
(* one moment: the position comes from the last RMC sentence read whole,   *)
(* altitude and fix from the last GGA before it.                           *)
Recent(kinds, n) ==
  LET S == {s \in 1 .. n : Kinds[s] \in kinds}
  IN  IF S = {} THEN 0 ELSE CHOOSE s \in S : \A t \in S : t <= s

PublishedIsRecent ==
  LET rmc == Recent({"RMC"}, taken \div (Length + 1))
      gga == Recent({"GGA"}, rmc)
      any == Recent({"GGA", "NOFIX"}, rmc)
  IN  shm = [pos |-> rmc, alt |-> gga, fix |-> (rmc > 0 /\ any > 0 /\ Kinds[any] = "GGA")]

(* After a second without data the reader goes on: what the receiver sends *)
(* later is read.  (gps.c: "waiting for new data ...".)                    *)
DataAfterSilenceRead == \A n \in 1 .. Total : (sent >= n) ~> (taken >= n)
=============================================================================
