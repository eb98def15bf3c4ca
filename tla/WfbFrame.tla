------------------------------ MODULE WfbFrame ------------------------------
(***************************************************************************)
(* The frame around a packet: what wfb_tx.c puts before and behind the     *)
(* payload on each kind of card, and where wfb_rx.c and wfb_rx_rawsock.c   *)
(* look for it in what a card receives.  The contents are left out; a      *)
(* frame is [kind, body]: its 802.11 header and the bytes behind it.       *)
(***************************************************************************)
EXTENDS Integers, Sequences

(* The headers u8aIeeeHeader_rts, _data_short and _data: their lengths and *)
(* the second byte, by which the receiver tells them apart.                *)
Kinds      == {"rts", "short", "data"}
IeeeLen(k) == IF k = "data" THEN 24 ELSE 5
Byte1(k)   == IF k = "data" THEN 2 ELSE 1

SeqHeader    == 6     (* struct header_s: sequence number and length       *)
MaxMtu       == 1500  (* MAX_MTU                                           *)
PacketBuffer == 402   (* packet_buffer_ath, _ral and _rea                  *)

-----------------------------------------------------------------------------
(* wfb_tx_init: the type of a card goes into type[num_interfaces], which   *)
(* is never counted up, so the first card has the type of the last and the *)
(* others have type 0.                                                     *)
TypeOf(driver) == CASE driver = "ath9k_htc" -> 1
                    [] driver = "rtl88xxau" -> 2
                    [] OTHER                -> 0
TxTypes(drivers) ==
  [i \in 1 .. Len(drivers) |-> IF i = 1 THEN TypeOf(drivers[Len(drivers)]) ELSE 0]

(* "for Ralink always use data short", "for Realtek use rts frames"; data  *)
(* frames on Atheros if CTS protection is enabled.                         *)
TxKind(type, useCts) == CASE type = 0 -> "short"
                          [] type = 1 -> IF useCts THEN "data" ELSE "rts"
                          [] type = 2 -> "rts"

(* wfb_write: one frame for each card.  padlen is not set back for the     *)
(* next card.                                                              *)
MinLen(type) == IF type = 0 THEN 18 ELSE 5
Padding(types, len) ==
  LET pad[i \in 0 .. Len(types)] ==
        IF i = 0 THEN 0
        ELSE IF len < MinLen(types[i]) THEN MinLen(types[i]) - len ELSE pad[i - 1]
  IN  pad

(* wfb_write copies a packet of any length into the buffer of the card:    *)
(* what it would do with one that does not fit is not modelled.            *)
RadiotapLen(type) == IF type = 2 THEN 13 ELSE 12
FitsBuffers(types, useCts, len, addHeader) ==
  \A i \in DOMAIN types :
    RadiotapLen(types[i]) + IeeeLen(TxKind(types[i], useCts))
      + (IF addHeader THEN SeqHeader ELSE 0) + len <= PacketBuffer

WfbWrite(types, useCts, len, addHeader) ==
  LET offset == IF addHeader THEN SeqHeader ELSE 0
  IN  [i \in 1 .. Len(types) |-> [kind |-> TxKind(types[i], useCts),
                                  body |-> offset + len + Padding(types, len)[i]]]

-----------------------------------------------------------------------------
(* Mutant of HeaderLength: a data frame does not set it.                   *)
HeaderLengthShort(frame, before) == IF Byte1(frame.kind) = 1 THEN 5 ELSE before

(* The 802.11 header length the receivers assume, n80211HeaderLength: set  *)
(* by the second byte, else as it was.                                     *)
HeaderLength(frame, before) ==
  CASE Byte1(frame.kind) = 1 -> 5
    [] Byte1(frame.kind) = 2 -> 24
    [] OTHER                 -> before

(* wfb_rx_packet_interface, wfb_rx_stream_interface: the payload is        *)
(* <<where it starts in the frame, bytes>>.  (A frame shorter than its     *)
(* header ends the process; none that wfb_write makes is.)                 *)
RawPayload(frame, before) ==
  LET n == HeaderLength(frame, before) IN <<n, IeeeLen(frame.kind) + frame.body - n>>
RxPayload(frame, before) ==
  LET p == RawPayload(frame, before) IN <<p[1], IF p[2] > MaxMtu THEN MaxMtu ELSE p[2]>>
=============================================================================
