------------------------------ MODULE MCCodecs ------------------------------
(***************************************************************************)
(* Model-checking instance of the pure computations: inputs for Codecs,    *)
(* and the erasure code (Fec) of libwfb as one more computation.           *)
(***************************************************************************)
EXTENDS Codecs, Fec, FiniteSetsExt

CONSTANTS
  DataPkts, FecPkts,     (* packets of a block: 8 and 4                    *)
  MaxWords,              (* bound: bitmap words of a radiotap header       *)
  PhaseGrid              (* the phases of the gait looked at: every so many *)

(* Headers as drivers write them: the first word, then a word for each     *)
(* antenna; whole, or with a length that cuts fields off.  And ones no     *)
(* driver here writes: unknown fields, vendors before and after, wfb_rx.c's*)
(* own among them.                                                         *)
Words1   == {{0, 1, 2, 3, 5, 11, 14}, {1, 3, 5, 14, 19}, {1, 2, 3, 5, 6, 7, 11}, {3, 5, 12, 20, 22}}
WordsN   == {{5, 11}, {5, 6}}
WordSeqs == {<<w \cup last>> : w \in Words1, last \in {{}, {29}}}
              \cup {<<w \cup s, v>> : w \in Words1, s \in {{}, {29}, {30}}, v \in WordsN}
              \cup {<<w \cup {29}, v \cup s, u>> : w \in Words1, v \in WordsN, s \in {{29}, {29, 30}}, u \in WordsN}
              \cup {<<{2} \cup s, v, u>> : s \in {{}, {17, 18}, {16, 25}, {29}, {30}, {29, 30}},
                                           v \in {{0}, {4, 29}, {29}, {30}, {18, 30}}, u \in {{1, 3}, {18, 20}}}
Lengths == {6, 9, 12, 15, 17, 20, 21, 26, 36, 41, 90}
Vendors(words) == {w \in DOMAIN words : VendorNs \in words[w]}
MCHeaders ==
  UNION {[what : {"header"}, words : {words}, len : Lengths, vlen : {0, 3}, ours : SUBSET Vendors(words),
          stray : IF \E w \in DOMAIN words : 18 \in words[w] THEN {-3, 12} ELSE {-3}] :
           words \in {s \in WordSeqs : Len(s) <= MaxWords}}

(* Up to three cards, payloads around the minimum lengths and as long as   *)
(* the buffers hold.                                                       *)
MCFrames ==
  {f \in [what : {"frame"}, drivers : BoundedSeq({"ath9k_htc", "rtl88xxau", "rt2800usb"}, 3) \ {<<>>},
          useCts : BOOLEAN, len : {0, 1, 4, 5, 17, 18, 300, 360, 366, 378, 384}, addHeader : BOOLEAN,
          before : {0, 5, 24}] :
     FitsBuffers(TxTypes(f.drivers), f.useCts, f.len, f.addHeader)}

(* Phases all round the step, and steady sticks: at rest, hardly moved,    *)
(* half and full, and as a packet of zeros sets them.                      *)
Axes    == {0, 1000, 1250, 1499, 1500, 1501, 1640, 1750, 2000}
MCTicks == [what : {"tick"}, phase : {PhaseGrid * i : i \in 0 .. Step \div PhaseGrid}, speed : Axes, steering : Axes]

(* Blocks with any packets missing, and any parity packets in their stead. *)
Data == {[i \in 0 .. DataPkts - 1 |-> IF i = j THEN 1 ELSE 0] : j \in 0 .. DataPkts - 1}
          \cup {[i \in 0 .. DataPkts - 1 |-> (37 * i + 200) % 256]}
Blocks == {b \in [what : {"block"}, data : Data, erased : SUBSET (0 .. DataPkts - 1),
                  nos : kSubset(1, 0 .. FecPkts - 1) \cup kSubset(2, 0 .. FecPkts - 1)
                          \cup kSubset(3, 0 .. FecPkts - 1) \cup kSubset(4, 0 .. FecPkts - 1)] :
             Cardinality(b.erased) = Cardinality(b.nos)}

Sorted(S) == [i \in 1 .. Cardinality(S) |-> CHOOSE x \in S : Cardinality({y \in S : y < x}) = i - 1]

Decode == /\ job.what = "block"
          /\ LET parity == FecEncode(job.data, FecPkts)
                 nos    == Sorted(job.nos)
             IN  result' = FecDecode([i \in DOMAIN job.data |-> IF i \in job.erased THEN 255 ELSE job.data[i]],
                                     [j \in 1 .. Len(nos) |-> parity[nos[j]]], nos, Sorted(job.erased))

Init == CodecInit \/ (job \in Blocks /\ done = FALSE /\ result = 0)
Next == CodecNext \/ Compute(Decode)
Spec == Init /\ [][Next]_codecVars

(* Any packets of a block, as many as there are data packets, give all its *)
(* data back: which data are missing and which parity came does not matter.*)
AnyPacketsDo == Done("block") => result = job.data
=============================================================================
