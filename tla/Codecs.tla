------------------------------- MODULE Codecs -------------------------------
(***************************************************************************)
(* The pure computations on the way of an order: the frame (WfbFrame) and  *)
(* the radiotap iterators (Radiotap) of libwfb, and the gait (Gait), each  *)
(* against what it is meant to compute.  A behaviour takes one input and   *)
(* computes its result.                                                    *)
(***************************************************************************)
EXTENDS Radiotap, WfbFrame, Gait, FiniteSets

CONSTANTS Headers, Frames, Ticks      (* the inputs                        *)

(* Any bitmap words whatsoever; frames of any cards, as long as            *)
(* wfb_write's buffers hold them; any phase and any two axes.              *)
ASSUME HeaderAssumption ==
  Headers \subseteq [what : {"header"}, words : Seq(SUBSET (0 .. 30)) \ {<<>>}, len : Nat, vlen : Nat,
                      ours : SUBSET (Nat \ {0}), stray : Int]
ASSUME FrameAssumption ==
  /\ Frames \subseteq [what : {"frame"}, drivers : Seq(STRING), useCts : BOOLEAN,
                       len : Nat, addHeader : BOOLEAN, before : Nat]
  /\ \A f \in Frames : FitsBuffers(TxTypes(f.drivers), f.useCts, f.len, f.addHeader)
ASSUME TickAssumption ==
  Ticks \subseteq [what : {"tick"}, phase : 0 .. Step, speed : Nat, steering : Nat]

VARIABLES
  job,      (* the input                                                   *)
  done,     (* the result is there                                         *)
  result

codecVars == <<job, done, result>>

CodecInit == job \in Headers \cup Frames \cup Ticks /\ done = FALSE /\ result = 0

Walk  == /\ job.what = "header"
         /\ result' = [old |-> Iterate(job), rc |-> IterateRc(job)]
Carry == /\ job.what = "frame"
         /\ LET frames == WfbWrite(TxTypes(job.drivers), job.useCts, job.len, job.addHeader)
            IN  result' = [i \in DOMAIN frames |-> [frame |-> frames[i], rx |-> RxPayload(frames[i], job.before)]]
Tick  == /\ job.what = "tick"
         /\ LET speed == Stick(job.speed)  steering == Stick(job.steering)
            IN  result' = MakeStep(job.phase, Angles(job.phase, speed, steering), speed, steering)

Compute(step) == ~done /\ done' = TRUE /\ UNCHANGED job /\ step

CodecNext == Compute(Walk) \/ Compute(Carry) \/ Compute(Tick)

CodecSpec == CodecInit /\ [][CodecNext]_codecVars

Done(what) == done /\ job.what = what

-----------------------------------------------------------------------------
(* What a header announces.  Bit b of word w is at place 32 * (w - 1) + b. *)
Word(k)  == (k \div 32) + 1
Field(k) == k % 32
Places(words) == {k \in 0 .. 32 * Len(words) - 1 : Field(k) \in words[Word(k)]}

(* Where the numbering starts anew, and where it is a vendor's.            *)
Anew(words, w)   == RadiotapNs \in words[w] /\ VendorNs \notin words[w]
Fresh(words, w)  == w = 1 \/ Anew(words, w - 1)
Vendor(words, w) ==
  \E v \in 1 .. w - 1 : VendorNs \in words[v] /\ \A u \in v + 1 .. w - 1 : ~Anew(words, u)

(* A field behind the end of the table ends the walk; those of a vendor    *)
(* are skipped together.                                                   *)
Unknown(words, k) ==
  /\ Field(k) < RadiotapNs /\ ~Vendor(words, Word(k))
  /\ Fresh(words, Word(k)) => Field(k) \notin 0 .. 22

(* Where it goes astray: field 18, which has no size, and the namespace    *)
(* that wfb_rx.c registers, whose fields are reported as the radiotap ones *)
(* of their numbers, and behind which it may go on anywhere in its data.   *)
Astray(h, k) ==
  \/ Field(k) = VendorNs /\ Word(k) \in h.ours
  \/ Field(k) = 18 /\ Fresh(h.words, Word(k)) /\ ~Vendor(h.words, Word(k))
StaysOn(h) ==
  \A k \in Places(h.words) :
    Astray(h, k) => \E j \in Places(h.words) : j < k /\ Unknown(h.words, j)

Announced(h) ==
  {k \in Places(h.words) :
     /\ Field(k) = VendorNs \/ (Field(k) < RadiotapNs /\ ~Vendor(h.words, Word(k)))
     /\ \A j \in Places(h.words) : j <= k => ~Unknown(h.words, j) /\ ~Astray(h, j)}

Rank(A, a) == Cardinality({b \in A : b < a}) + 1

(* Each field found is the next one announced, at its own alignment right  *)
(* behind the one before, and the next one that is not would not fit.      *)
Size(h, f)          == IF f = VendorNs THEN <<2, 6 + h.vlen>> ELSE NamespaceSizes[f]
Behind(h, found, i) == IF i = 1 THEN FirstArg(h) ELSE found[i - 1][2] + Size(h, found[i - 1][1])[2]
RightPlace(h, f, from, p) == p >= from /\ p < from + Size(h, f)[1] /\ p % Size(h, f)[1] = 0
FindsEach(h, found, A) ==
  \A a \in A :
    LET i    == Rank(A, a)
        from == Behind(h, found, i)
        last == h.len - Size(h, Field(a))[2]
    IN  /\ i <= Len(found) => /\ found[i][1] = Field(a) /\ found[i][2] <= last
                              /\ RightPlace(h, Field(a), from, found[i][2])
        /\ i = Len(found) + 1 => \A p \in from .. last : ~RightPlace(h, Field(a), from, p)
FindsAll(h, found, A) == Len(found) <= Cardinality(A) /\ FindsEach(h, found, A)

(* For every header both iterators report the fields that the bitmap       *)
(* announces, in order and each in its place, until one does not fit, and  *)
(* no others; the old one up to field 13 of the first word.  Of the new    *)
(* one nothing is said from where it goes astray.                          *)
FieldsWherePut ==
  Done("header") =>
    /\ FindsAll(job, result.old.found, job.words[1] \cap 0 .. 13)
    /\ FindsEach(job, result.rc.found, Announced(job))
    /\ StaysOn(job) => FindsAll(job, result.rc.found, Announced(job))

(* Every card's frame, whatever kind it is, is opened behind its header;   *)
(* what is read is the payload, padded only up to the minimum of the card. *)
PayloadFound ==
  Done("frame") => \A i \in DOMAIN result :
    LET r     == result[i]
        least == IF r.frame.kind = "short" THEN 18 ELSE 5
        head  == IF job.addHeader THEN SeqHeader ELSE 0
    IN  r.rx = <<IeeeLen(r.frame.kind), head + (IF job.len < least THEN least ELSE job.len)>>

(* At every phase one whole tripod, two legs of a side and the middle one  *)
(* of the other, is on the ground, also in a turn; and with steady sticks  *)
(* no drive is asked for more than it can do, except in a turn walked      *)
(* backwards.  The angle asked for is one of the drive's.                  *)
WalksSteadily ==
  Done("tick") =>
    LET speed == Stick(job.speed)
    IN  /\ \E tripod \in {{0, 3, 5}, {1, 2, 4}} :
             \A d \in tripod : result.pos[d] \in DownEnd(speed) .. DownStart(speed)
        /\ speed >= 0 \/ job.steering = 1500 => \A d \in Legs : result.cmd[d].speed < MaxSpeed
        /\ \A d \in Legs : result.cmd[d].position \in 0 .. 768
=============================================================================
