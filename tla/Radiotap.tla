------------------------------ MODULE Radiotap ------------------------------
(***************************************************************************)
(* libwfb/radiotap.c and libwfb/radiotap_rc.c: the two iterators over the  *)
(* radiotap header that the card puts before a received frame.             *)
(*                                                                         *)
(* A header is [words, len, vlen, ours, stray]: the bitmap words as sets   *)
(* of the bits 0 to 30 (bit 31, another word follows, is set in all but    *)
(* the last), its length, the length of the data of a vendor namespace,    *)
(* the words whose vendor is the one that wfb_rx.c registers, and where    *)
(* the iterator's _next_ns_data, never initialised, happens to point.  A   *)
(* field is found as <<number, offset>>.                                   *)
(***************************************************************************)
EXTENDS Integers, Sequences

RadiotapNs == 29   (* IEEE80211_RADIOTAP_RADIOTAP_NAMESPACE                *)
VendorNs   == 30   (* IEEE80211_RADIOTAP_VENDOR_NAMESPACE                  *)
Ext        == 31   (* IEEE80211_RADIOTAP_EXT                               *)

(* rt_sizes: <<alignment, size>> of the fields 0 to 13.                    *)
RtSizes ==
  [f \in 0 .. 13 |-> CASE f = 0                -> <<8, 8>>
                       [] f = 3                -> <<2, 4>>
                       [] f \in {4, 7, 8, 9}   -> <<2, 2>>
                       [] OTHER                -> <<1, 1>>]

(* rtap_namespace_sizes goes on to 22; 18 has no entry.                    *)
NsBits == 23
NamespaceSizes ==
  [f \in 0 .. 22 |-> CASE f \in 0 .. 13        -> RtSizes[f]
                       [] f \in {14, 15}       -> <<2, 2>>
                       [] f \in {16, 17}       -> <<1, 1>>
                       [] f = 18               -> <<0, 0>>
                       [] f = 19               -> <<1, 3>>
                       [] f = 20               -> <<4, 8>>
                       [] f = 21               -> <<2, 12>>
                       [] f = 22               -> <<8, 12>>]

(* align_size_000000_00, the namespace that wfb_rx.c registers: two fields *)
(* of four bytes.  The others have no alignment, as in any namespace those *)
(* behind its end (n_bits, a sizeof, is right as an entry is one byte).    *)
OwnFields == {0, 52}

(* Offsets are from the start of the header.                               *)
Aligned(at, a) == at + ((a - (at % a)) % a)

(* Where the fields start: behind the fixed part and the further words.    *)
FirstArg(h) == 8 + 4 * (Len(h.words) - 1)

(* Both iterators in a while loop: [found, status].  "more" while it goes  *)
(* on, "end" when it is through, "bad" for a header that claims more than  *)
(* its length.                                                             *)
Start(h, ok) == [at |-> FirstArg(h), found |-> <<>>, status |-> IF ok THEN "more" ELSE "bad",
                 base |-> 0, ns |-> "radiotap", next |-> h.stray, reset |-> FALSE]

(* The field f of so many bytes, if the header is long enough.  (The       *)
(* lengths compared are unsigned: no field ends before the header.)        *)
TakeField(h, st, f, size) ==
  LET p == Aligned(st.at, size[1])
  IN  IF p + size[2] \notin 0 .. h.len THEN [st EXCEPT !.status = "bad"]
      ELSE [st EXCEPT !.at = p + size[2], !.found = Append(@, <<f, p>>)]

-----------------------------------------------------------------------------
(* radiotap.c: only the first word counts, up to field 13.  The words are  *)
(* read before their place is checked, and the check lets one pass that    *)
(* starts where the header ends.                                           *)
IteratorInit(h) == Start(h, Len(h.words) = 1 \/ FirstArg(h) - 4 <= h.len)

Iterate(h) ==
  LET st[k \in 0 .. 14] ==
        IF k = 0 THEN IteratorInit(h)
        ELSE LET s == st[k - 1]
             IN  IF s.status # "more" \/ k - 1 \notin h.words[1] THEN s
                 ELSE TakeField(h, s, k - 1, RtSizes[k - 1])
  IN  [found |-> st[14].found, status |-> IF st[14].status = "more" THEN "end" ELSE st[14].status]

-----------------------------------------------------------------------------
(* radiotap_rc.c: all words.  base is _arg_index at the start of the word; *)
(* ns: current_namespace, "radiotap", the registered "vendor"'s or "none"; *)
(* next: _next_ns_data; reset: _reset_on_ext.                              *)
IteratorInitRc(h) == Start(h, h.len >= 8 /\ (Len(h.words) = 1 \/ FirstArg(h) <= h.len))

(* Mutant of NextWord: the numbering always goes on.                       *)
NextWordOn(s) == [s EXCEPT !.base = @ + 32, !.reset = FALSE]
NextWord(s)   == [s EXCEPT !.base = IF s.reset THEN 0 ELSE @ + 32, !.reset = FALSE]

(* A vendor namespace nobody registered is reported and skipped as a whole.*)
(* Of the registered one nothing is reported but its fields, further on.   *)
TakeVendor(h, s, w) ==
  LET p    == Aligned(s.at, 2)
      next == p + 6 + h.vlen
  IN  IF p + 6 \notin 0 .. h.len THEN [s EXCEPT !.status = "bad"]
      ELSE IF w \in h.ours
      THEN [s EXCEPT !.at = p + 6, !.next = next, !.ns = "vendor", !.reset = TRUE]
      ELSE [TakeField(h, s, VendorNs, <<2, 6 + h.vlen>>)
              EXCEPT !.next = next, !.ns = "none", !.reset = TRUE]

(* "give up on this namespace": its data are taken to end at next, which   *)
(* for field 18 of the radiotap namespace is not the end of anything.      *)
GiveUp(s) == [s EXCEPT !.at = s.next, !.ns = "none"]

(* One bit of a word.                                                      *)
Bit(h, s, w, b) ==
  IF b = Ext THEN IF w = Len(h.words) THEN [s EXCEPT !.status = "end"]
                  ELSE IF s.at \notin 0 .. h.len THEN [s EXCEPT !.status = "bad"] ELSE NextWord(s)
  ELSE IF b \notin h.words[w] THEN s
  ELSE IF b = RadiotapNs
       THEN IF s.at \notin 0 .. h.len THEN [s EXCEPT !.status = "bad"]
            ELSE [s EXCEPT !.ns = "radiotap", !.reset = TRUE]
  ELSE IF b = VendorNs THEN TakeVendor(h, s, w)
  ELSE LET f == s.base + b
       IN  CASE s.ns = "radiotap" /\ f >= NsBits               -> [s EXCEPT !.status = "end"]
             [] s.ns = "radiotap" /\ f \in 0 .. NsBits - 1 \ {18} -> TakeField(h, s, f, NamespaceSizes[f])
             [] s.ns = "vendor" /\ f \in OwnFields              -> TakeField(h, s, f, <<1, 4>>)
             [] OTHER                                          -> GiveUp(s)

IterateRc(h) ==
  LET st[k \in 0 .. 32 * Len(h.words)] ==
        IF k = 0 THEN IteratorInitRc(h)
        ELSE LET s == st[k - 1]
             IN  IF s.status # "more" THEN s ELSE Bit(h, s, (k - 1) \div 32 + 1, (k - 1) % 32)
      last == st[32 * Len(h.words)]
  IN  [found |-> last.found, status |-> last.status]
=============================================================================
