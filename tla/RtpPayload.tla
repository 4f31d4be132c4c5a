----------------------------- MODULE RtpPayload -----------------------------
(***************************************************************************)
(* Packing NAL units into RTP packets and back: rtp-h264-pack.c,           *)
(* rtp-h265-pack.c, rtp-h264-unpack.c, rtp-h265-unpack.c and rtp-unpack.c  *)
(* of lib/librtp/payload.  The two codecs share their control; what        *)
(* differs is the size of the headers and the start codes.                 *)
(*                                                                         *)
(* The bytes of a NAL unit are its positions 0 .. len - 1: a piece is      *)
(* [nal, from, to) of them.  A payload is a record                         *)
(*   kind    "single", "fu", "agg", "reserved", or "short" for one that is *)
(*           too short to have a kind                                      *)
(*   pieces  one for "single" and "fu" (none when it has no room for its   *)
(*           header), several for "agg"                                    *)
(*   s, e    the start and end bits of a fragment; e also marks an         *)
(*           aggregate with a length that cannot be after its pieces       *)
(***************************************************************************)
EXTENDS Integers, Sequences

CONSTANT RTP_PAYLOAD_MAX_SIZE

NalCodecs == {"H264", "H265"}

RTP_FIXED_HEADER == 12
NalHeader(codec) == IF codec = "H264" THEN 1 ELSE 2
FuHeader(codec) == NalHeader(codec) + 1

Piece(n, from, to) == [nal |-> n.id, from |-> from, to |-> to]
Payload(kind, pieces, s, e) == [kind |-> kind, pieces |-> pieces, s |-> s, e |-> e]
Bytes(piece) == piece.to - piece.from

-----------------------------------------------------------------------------
(* Packing.  size is the largest packet, headers included. *)

Single(n) == <<Payload("single", <<Piece(n, 0, n.len)>>, FALSE, FALSE)>>

(* The NAL header travels in the fragment header; the loop cuts the rest.  *)
(* The start bit is the first fragment's, the end bit that of the one that *)
(* fits.                                                                   *)
Fragments(codec, size, n) ==
    LET Cut[from \in 0 .. n.len] ==
            IF from >= n.len THEN <<>>
            ELSE LET bytes == n.len - from
                     ends == bytes + RTP_FIXED_HEADER <= size - FuHeader(codec)
                     payloadlen == IF ends THEN bytes
                                   ELSE size - RTP_FIXED_HEADER - FuHeader(codec)
                 IN  <<Payload("fu", <<Piece(n, from, from + payloadlen)>>,
                               ~ends /\ from = NalHeader(codec), ends)>>
                         \o Cut[from + payloadlen]
    IN  Cut[NalHeader(codec)]

rtp_h264_pack_nalu(n) == Single(n)
rtp_h264_pack_fu_a(size, n) == Fragments("H264", size, n)
rtp_h264_pack_handler(size, n) ==
    IF n.len + RTP_FIXED_HEADER <= size THEN rtp_h264_pack_nalu(n)
                                        ELSE rtp_h264_pack_fu_a(size, n)

rtp_h265_pack_nalu(n) == Single(n)
rtp_h265_pack_fu(size, n) == Fragments("H265", size, n)
rtp_h265_pack_handler(size, n) ==
    IF n.len + RTP_FIXED_HEADER <= size THEN rtp_h265_pack_nalu(n)
                                        ELSE rtp_h265_pack_fu(size, n)

rtp_payload_encode_input(codec, size, n) ==
    IF codec = "H264" THEN rtp_h264_pack_handler(size, n) ELSE rtp_h265_pack_handler(size, n)

-----------------------------------------------------------------------------
(* Unpacking.  The unpacker holds the flags, the sequence number of the    *)
(* last packet and the fragments received so far; size is their bytes.     *)

LOST == 256   \* RTP_PAYLOAD_FLAG_PACKET_LOST

rtp_h264_unpack_create == [flags |-> -1, seq |-> 0, buf |-> <<>>]
rtp_h265_unpack_create == [flags |-> -1, seq |-> 0, buf |-> <<>>]

Size(buf) ==
    LET S[i \in 0 .. Len(buf)] == IF i = 0 THEN 0 ELSE S[i - 1] + Bytes(buf[i])
    IN  S[Len(buf)]

(* What the handler is given: the bytes, whether a start code precedes     *)
(* them, and the flags.                                                    *)
Handed(pieces, start_code, flags) ==
    [pieces |-> pieces, start_code |-> start_code, flags |-> flags]

Unpacked(u, out, r) == [u |-> u, out |-> out, r |-> r]

EINVAL == 22

unpack_single(u, p) ==
    Unpacked([u EXCEPT !.flags = 0, !.buf = <<>>],
             <<Handed(p.pieces, TRUE, u.flags)>>, 1)

(* Only the first NAL unit of an aggregate carries the flags.              *)
Disaggregate(u, p, start_code) ==
    Unpacked(IF p.pieces = <<>> THEN u ELSE [u EXCEPT !.flags = 0, !.buf = <<>>],
             [i \in 1 .. Len(p.pieces) |->
                Handed(<<p.pieces[i]>>, start_code, IF i = 1 THEN u.flags ELSE 0)], 1)

(* STAP-A, STAP-B, MTAP16 and MTAP24, which rtp_h264_unpack_input() walks  *)
(* itself; an H265 aggregate is passed on without start codes.  A length   *)
(* that cannot be ends the first, and is an error of the second (after an  *)
(* assert(0) that ends the process where it is compiled in).               *)
rtp_h264_unpack_stap(u, p) == Disaggregate(u, p, TRUE)
rtp_h265_unpack_ap(u, p) ==
    LET d == Disaggregate(u, p, FALSE)
    IN  IF p.e THEN Unpacked([d.u EXCEPT !.flags = LOST, !.buf = <<>>], d.out, -EINVAL)
               ELSE d

(* A fragment.  One without its header or that would exceed the maximum is *)
(* refused with the buffer kept; one that is not a start and finds no      *)
(* start is discarded.                                                     *)
Reassemble(codec, u, p) ==
    LET piece == p.pieces[1]
        header == [nal |-> piece.nal, from |-> 0, to |-> NalHeader(codec)]
        buf == Append(IF p.s THEN <<header>> ELSE u.buf, piece)
    IN  CASE Size(u.buf) + Bytes(piece) > RTP_PAYLOAD_MAX_SIZE ->
                Unpacked(u, <<>>, -EINVAL)
          [] Size(u.buf) + Bytes(piece) <= RTP_PAYLOAD_MAX_SIZE /\ ~p.s /\ u.buf = <<>> ->
                Unpacked([u EXCEPT !.flags = LOST], <<>>, 0)
          [] OTHER ->
                IF p.e
                THEN Unpacked([u EXCEPT !.flags = 0, !.buf = <<>>],
                              <<Handed(buf, TRUE, u.flags)>>, 1)
                ELSE Unpacked([u EXCEPT !.buf = buf], <<>>, 1)

rtp_h264_unpack_fu(u, p) ==
    IF p.pieces = <<>> THEN Unpacked(u, <<>>, -EINVAL) ELSE Reassemble("H264", u, p)
rtp_h265_unpack_fu(u, p) ==
    IF p.pieces = <<>> THEN Unpacked(u, <<>>, -EINVAL) ELSE Reassemble("H265", u, p)

(* Altered: a gap leaves the fragments received so far. *)
SequenceKeepsFragments(u, seq, SeqMod) ==
    LET gap == u.flags # -1 /\ seq # (u.seq + 1) % SeqMod
    IN  [flags |-> IF gap THEN LOST ELSE IF u.flags = -1 THEN 0 ELSE u.flags,
         seq |-> seq, buf |-> u.buf]

(* A gap in the sequence numbers discards the fragments received so far.   *)
unpack_sequence(u, seq, SeqMod) ==
    LET first == u.flags = -1
        gap == ~first /\ seq # (u.seq + 1) % SeqMod
    IN  [flags |-> IF gap THEN LOST ELSE IF first THEN 0 ELSE u.flags,
         seq |-> seq,
         buf |-> IF gap THEN <<>> ELSE u.buf]

rtp_h264_unpack_input(u, pkt, SeqMod) ==
    LET v == unpack_sequence(u, pkt.seq, SeqMod)
        p == pkt.payload
    IN  CASE p.kind = "short" -> Unpacked(u, <<>>, -EINVAL)
          [] p.kind = "single" -> unpack_single(v, p)
          [] p.kind = "agg" -> rtp_h264_unpack_stap(v, p)
          [] p.kind = "fu" -> rtp_h264_unpack_fu(v, p)
          [] p.kind = "reserved" -> Unpacked(v, <<>>, 0)

rtp_h265_unpack_input(u, pkt, SeqMod) ==
    LET v == unpack_sequence(u, pkt.seq, SeqMod)
        p == pkt.payload
    IN  CASE p.kind = "short" -> Unpacked(u, <<>>, -EINVAL)
          [] p.kind = "single" -> unpack_single(v, p)
          [] p.kind = "agg" -> rtp_h265_unpack_ap(v, p)
          [] p.kind = "fu" -> rtp_h265_unpack_fu(v, p)
          [] p.kind = "reserved" -> Unpacked(v, <<>>, 0)

(* The decoder of the static audio types: the payload as it comes. *)
rtp_decode_rfc2250(u, pkt) ==
    Unpacked(u, <<Handed(pkt.payload.pieces, FALSE, 0)>>, 1)

-----------------------------------------------------------------------------
(* Which decoder a payload type and an encoding name select; "none" is the *)
(* error return.                                                           *)

RTP_PAYLOAD_DYNAMIC == 96
RTP_PAYLOAD_PCMU == 0

rtp_payload_find(payload, encoding) ==
    IF payload >= RTP_PAYLOAD_DYNAMIC /\ encoding # ""
    THEN CASE encoding = "H264" -> "h264"
           [] encoding \in {"H265", "HEVC"} -> "h265"
           [] encoding = "H266" -> "h266"
           [] encoding \in {"MP4V-ES", "MPEG4"} -> "mp4v_es"
           [] encoding = "MP4A-LATM" -> "mp4a_latm"
           [] encoding = "mpeg4-generic" -> "mpeg4_generic"
           [] encoding = "VP8" -> "vp8"
           [] encoding = "VP9" -> "vp9"
           [] encoding = "AV1" -> "av1"
           [] encoding \in {"MP2P", "PS"} -> "ps"
           [] encoding = "MP1S" -> "ts"
           [] encoding \in {"opus", "G726-16", "G726-24", "G726-32", "G726-40", "G7221"} ->
                "common"
           [] OTHER -> "none"
    ELSE CASE payload \in {RTP_PAYLOAD_PCMU, 8, 9, 18} -> "common"
           [] payload \in {14, 32} -> "mpeg1or2es"
           [] payload = 33 -> "ts"
           [] payload = 35 -> "av1"
           [] OTHER -> "none"

(* The two that the program asks for. *)
rtp_payload_decode_create(decoder) ==
    IF decoder = "h265" THEN rtp_h265_unpack_create ELSE rtp_h264_unpack_create

rtp_payload_decode_input(decoder, u, pkt, SeqMod) ==
    CASE decoder = "h264" -> rtp_h264_unpack_input(u, pkt, SeqMod)
      [] decoder = "h265" -> rtp_h265_unpack_input(u, pkt, SeqMod)
      [] decoder = "common" -> rtp_decode_rfc2250(u, pkt)

-----------------------------------------------------------------------------
(* The pieces are the whole of one NAL unit, in order. *)
Whole(pieces, n) ==
    /\ pieces # <<>>
    /\ \A i \in 1 .. Len(pieces) : pieces[i].nal = n.id
    /\ pieces[1].from = 0 /\ pieces[Len(pieces)].to = n.len
    /\ \A i \in 1 .. Len(pieces) - 1 : pieces[i].to = pieces[i + 1].from
=============================================================================
