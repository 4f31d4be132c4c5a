---------------------------- MODULE RtcpFormats ----------------------------
(***************************************************************************)
(* The feedback messages of librtp (rtcp-rtpfb.c, rtcp-psfb.c, rtcp-xr.c): *)
(* what *_pack() writes and what *_unpack() hands to on_rtcp().            *)
(*                                                                         *)
(* A message is [kind, items]; an item is a function from field names to   *)
(* numbers (sets of bits), with a sequence "payload" where the format has  *)
(* one.  A format's pack is [r, buf], what the function returns and        *)
(* writes; its unpack is the items delivered.                              *)
(***************************************************************************)
EXTENDS BitFields

(* rtcp-rtpfb.c *)
nack == [size |-> 4, words |-> <<Whole(0, 2, "pid"), Whole(2, 2, "blp")>>]
tllei == nack

tmmbr == [size |-> 8,
          words |-> <<Whole(0, 4, "ssrc"),
                      Word(4, 4, {Field("exp", 6, 26), Field("mantissa", 17, 9),
                                  Field("overhead", 9, 0)})>>]
tmmbn == tmmbr

EcnCounters(o) ==
    <<Whole(o, 4, "ext_highest_seq"), Whole(o + 4, 4, "ect0"), Whole(o + 8, 4, "ect1"),
      Whole(o + 12, 2, "ect_ce"), Whole(o + 14, 2, "not_ect"),
      Whole(o + 16, 2, "lost_packets"), Whole(o + 18, 2, "duplication")>>

ecn == [size |-> 20, words |-> EcnCounters(0)]

ps == [size |-> 8,
       words |-> <<Whole(0, 4, "target"),
                   Word(4, 4, {Field("cmd", 4, 28), Field("len", 8, 16), Field("id", 16, 0)})>>]

(* rtcp-psfb.c.  sli and lrr are written otherwise than they are read: sli *)
(* masks its two counts with 17 bits, and lrr writes its three words over  *)
(* each other.                                                             *)
SliWord(w) == <<Word(0, 4, {Field("first", w, 19), Field("number", w, 6),
                            Field("picture_id", 6, 0)})>>
sli == [size |-> 4, words |-> SliWord(13)]
sli_written == [size |-> 4, words |-> SliWord(17)]

fir == [size |-> 8, words |-> <<Whole(0, 4, "ssrc"), Word(4, 4, {Field("sn", 8, 24)})>>]
tstr == [size |-> 8,
         words |-> <<Whole(0, 4, "ssrc"), Word(4, 4, {Field("sn", 8, 24), Field("index", 5, 0)})>>]
tstn == tstr
pslei == [size |-> 4, words |-> <<Whole(0, 4, "ssrc")>>]

LrrWords(a, b) ==
    <<Whole(0, 4, "ssrc"),
      Word(a, 4, {Field("sn", 8, 24), Field("c", 1, 23), Field("payload", 7, 16)}),
      Word(b, 4, {Field("ttid", 3, 24), Field("tlid", 8, 16),
                  Field("ctid", 3, 8), Field("clid", 8, 0)})>>
lrr == [size |-> 12, words |-> LrrWords(4, 8)]
lrr_written == [size |-> 12, words |-> LrrWords(0, 0)]

vbcm == [size |-> 8,
         words |-> <<Whole(0, 4, "ssrc"),
                     Word(4, 4, {Field("sn", 8, 24), Field("pt", 7, 16), Field("len", 16, 0)})>>]

(* 'R' 'E' 'M' 'B', and the word that all the SSRCs share. *)
RembId == Shl({6, 4, 1}, 24) \cup Shl({6, 2, 0}, 16) \cup Shl({6, 3, 2, 0}, 8) \cup {6, 1}
remb == [size |-> 8,
         words |-> <<Whole(0, 4, "id"),
                     Word(4, 4, {Field("count", 8, 24), Field("exp", 6, 18),
                                 Field("mantissa", 18, 0)})>>]

(* rtcp-xr.c: a block has a word of its own before it.  The ECN summary is *)
(* read from the block's first octet and written after that word.          *)
rrt == [size |-> 8, words |-> <<Whole(0, 4, "ntpmsw"), Whole(4, 4, "ntplsw")>>]
dlrr == [size |-> 12, words |-> <<Whole(0, 4, "ssrc"), Whole(4, 4, "lrr"), Whole(8, 4, "dlrr")>>]
xr_ecn == [size |-> 20, words |-> EcnCounters(0)]
xr_ecn_read == [size |-> 20, words |-> EcnCounters(-4)]

ListFormats == [nack |-> nack, tllei |-> tllei, tmmbr |-> tmmbr, tmmbn |-> tmmbn,
                sli |-> sli, fir |-> fir, tstr |-> tstr, tstn |-> tstn, pslei |-> pslei,
                lrr |-> lrr]
BlockFormats == [rrt |-> rrt, dlrr |-> dlrr, xr_ecn |-> xr_ecn]
BlockType == [rrt |-> 4, dlrr |-> 5, xr_ecn |-> 13]

-----------------------------------------------------------------------------
(* The loops over items, which stop when no further one fits; -1 is the    *)
(* error of the formats that have to fit as a whole.                       *)

Failed == [r |-> -1, buf |-> {}]
E2BIG == 7
Padded(n) == ((n + 3) \div 4) * 4

PackList(words, size, items, room) ==
    LET n == Min({Len(items), room \div size})
        P[i \in 0 .. n] == IF i = 0 THEN {} ELSE PackItem(words, P[i - 1], (i - 1) * size, items[i])
    IN  [r |-> n * size, buf |-> P[n]]

UnpackList(format, buf, bytes) ==
    [i \in 1 .. bytes \div format.size |-> UnpackItem(format.words, buf, (i - 1) * format.size)]

(* sli->, never sli[i]. : the first item, as often as there are items. *)
rtcp_psfb_sli_pack(items, room) ==
    PackList(sli_written.words, 4, [i \in DOMAIN items |-> items[1]], room)

(* A head with the payload's length, in units of n octets, and the payload. *)
PackPayload(format, item, n, room) ==
    LET len == Len(item.payload) * n
        head == PackItem(format.words, {}, 0,
                         [f \in FieldsOf(format.words) |->
                            IF f = "len" THEN BitsOf(Len(item.payload)) ELSE item[f]])
    IN  IF room < 8 + Padded(len) THEN Failed
        ELSE [r |-> 8 + Padded(len),
              buf |-> FoldLeft(LAMBDA b, k : Put(b, 8 + (k - 1) * n, n, item.payload[k]),
                               head, [k \in DOMAIN item.payload |-> k])]

(* ps reads a head that is all there is, vbcm does not (> 8). *)
UnpackPayload(format, n, least, buf, bytes) ==
    LET At[o \in 0 .. bytes] ==
            LET h == UnpackItem(format.words, buf, o)
                len == Number(h.len)
            IN  IF bytes - o < least \/ len * n + 8 > bytes - o THEN <<>>
                ELSE <<[f \in (DOMAIN h \ {"len"}) \cup {"payload"} |->
                          IF f = "payload"
                          THEN [k \in 1 .. len |-> Get(buf, o + 8 + (k - 1) * n, n)]
                          ELSE h[f]]>> \o At[o + 8 + Padded(len * n)]
    IN  At[0]

rtcp_psfb_remb_pack(items, room) ==
    LET head == [id |-> RembId, count |-> BitsOf(Len(items)),
                 exp |-> items[1].exp, mantissa |-> items[1].mantissa]
    IN  IF items = <<>> \/ room < 8 + 4 * Len(items) THEN [Failed EXCEPT !.r = -E2BIG]
        ELSE [r |-> 8 + 4 * Len(items),
              buf |-> FoldLeft(LAMBDA b, i : Put(b, 4 + 4 * i, 4, items[i].ssrc),
                               PackItem(remb.words, {}, 0, head), [i \in DOMAIN items |-> i])]

rtcp_psfb_afb_unpack(buf, bytes) ==
    LET h == UnpackItem(remb.words, buf, 0)
        n == Number(h.count)
    IN  IF bytes < 8 \/ h.id # RembId \/ n * 4 > bytes - 8 THEN <<>>
        ELSE [i \in 1 .. n |-> [ssrc |-> Get(buf, 4 + 4 * i, 4), exp |-> h.exp,
                                mantissa |-> h.mantissa]]

(* The bits that pad the string are counted in its first octet; the reader *)
(* takes them off the whole length, its two octets of head included.       *)
rtcp_psfb_rpsi_pack(item, room) ==
    LET bits == Number(item.len)
        whole == Padded(2 + (bits + 7) \div 8)
    IN  IF room < whole THEN Failed
        ELSE [r |-> whole,
              buf |-> Put(Put({}, 0, 1, BitsOf(whole * 8 - (16 + bits))), 1, 1, item.pt)]

rtcp_psfb_rpsi_unpack(buf, bytes) ==
    IF bytes < 4 THEN <<>>
    ELSE <<[pt |-> Low(Get(buf, 1, 1), 7), len |-> BitsOf(bytes * 8 - Number(Get(buf, 0, 1)))]>>

(* RFC 8888: the reader takes the media SSRC's place for its first stream, *)
(* the writer starts after it, gives every report the first one's offset   *)
(* and does not pad an odd number of them.                                 *)
rtcp_rtpfb_ccfb_pack(item, room) ==
    LET n == Len(item.payload)
        Report(i) == (IF item.payload[i].received THEN {15} ELSE {})
                     \cup Shl(Low(item.payload[i].ecn, 2), 13) \cup Low(item.payload[1].ato, 13)
        head == Put(Put(Put({}, 0, 4, item.ssrc), 4, 2, item.begin), 6, 2, BitsOf(n))
    IN  IF room < 8 + n * 2 + 4 THEN Failed
        ELSE [r |-> 8 + n * 2 + 4,
              buf |-> FoldLeft(LAMBDA b, i : Put(b, 6 + 2 * i, 2, Report(i)), head,
                               [i \in 1 .. n |-> i])]

rtcp_rtpfb_ccfb_unpack(buf, bytes) ==
    LET At[o \in -4 .. bytes] ==
            LET n == Number(Get(buf, o + 6, 2))
                Report(i) == LET v == Get(buf, o + 6 + 2 * i, 2)
                             IN  [received |-> 15 \in v, ecn |-> Low(Shr(v, 13), 2), ato |-> Low(v, 13)]
            IN  IF bytes - o < 8 \/ Padded(n * 2) > bytes - o - 8 THEN <<>>
                ELSE <<[ssrc |-> Get(buf, o, 4), begin |-> Get(buf, o + 4, 2),
                        payload |-> [i \in 1 .. n |-> Report(i)]]>> \o At[o + 8 + Padded(n * 2)]
    IN  At[-4]

(* An extended report's block, with its type and its length in words. *)
PackBlock(kind, items, room) ==
    LET format == BlockFormats[kind]
        body == PackList(format.words, format.size, items, room - 4)
        words == Len(items) * (format.size \div 4)
    IN  IF room < 4 + Len(items) * format.size THEN Failed
        ELSE [r |-> 4 + body.r,
              buf |-> Put({p + 32 : p \in body.buf}, 0, 4, Shl(BitsOf(BlockType[kind]), 24) \cup BitsOf(words))]

UnpackBlock(kind, buf, bytes) ==
    LET len == Number(Get(buf, 2, 2))
        format == IF kind = "xr_ecn" THEN xr_ecn_read ELSE BlockFormats[kind]
        least == IF kind = "dlrr" THEN 8 ELSE 4 + format.size
    IN  IF bytes < least \/ (len + 1) * 4 > bytes THEN <<>>
        ELSE [i \in 1 .. IF kind = "dlrr" THEN len \div 3 ELSE 1 |->
                UnpackItem(format.words, buf, 4 + (i - 1) * format.size)]

-----------------------------------------------------------------------------
(* A packet is [bytes, buf]: bytes counts what follows its header, buf     *)
(* holds the format's own part.  Between the two stand head octets, two    *)
(* SSRCs or one.  The length is computed from r whether r is an error or   *)
(* not; -1 is no packet, for want of room even for the head.               *)

RtpfbKinds == {"nack", "tllei", "tmmbr", "tmmbn", "ecn", "ps", "ccfb"}
PsfbKinds == {"pli", "sli", "rpsi", "fir", "tstr", "tstn", "vbcm", "pslei", "lrr", "remb"}
XrKinds == DOMAIN BlockFormats

Packet(head, room, f) ==
    IF room < 4 + head THEN [bytes |-> -1, buf |-> {}]
    ELSE [bytes |-> ((f.r + head + 3) \div 4) * 4, buf |-> f.buf]

PackItems(m, room) == PackList(ListFormats[m.kind].words, ListFormats[m.kind].size, m.items, room)

rtcp_rtpfb_pack(m, room) ==
    LET left == room - 12
    IN  Packet(8, room,
               CASE m.kind \in DOMAIN ListFormats -> PackItems(m, left)
                 [] m.kind = "ecn" -> IF left < 20 THEN Failed ELSE PackList(ecn.words, 20, m.items, left)
                 [] m.kind = "ps" -> PackPayload(ps, m.items[1], 4, left)
                 [] m.kind = "ccfb" -> rtcp_rtpfb_ccfb_pack(m.items[1], left))

rtcp_psfb_pack(m, room) ==
    LET left == room - 12
    IN  Packet(8, room,
               CASE m.kind = "sli" -> rtcp_psfb_sli_pack(m.items, left)
                 [] m.kind = "lrr" -> PackList(lrr_written.words, 12, m.items, left)
                 [] m.kind \in DOMAIN ListFormats \ {"sli", "lrr"} -> PackItems(m, left)
                 [] m.kind = "pli" -> [r |-> 0, buf |-> {}]
                 [] m.kind = "vbcm" -> PackPayload(vbcm, m.items[1], 1, left)
                 [] m.kind = "remb" -> rtcp_psfb_remb_pack(m.items, left)
                 [] m.kind = "rpsi" -> rtcp_psfb_rpsi_pack(m.items[1], left))

rtcp_xr_pack(m, room) == Packet(4, room, PackBlock(m.kind, m.items, room - 8))

(* A packet with less than 8 octets after its header is refused. *)
rtcp_rtpfb_unpack(kind, p) ==
    LET left == p.bytes - 8
    IN  IF left < 0 THEN <<>>
        ELSE CASE kind \in DOMAIN ListFormats -> UnpackList(ListFormats[kind], p.buf, left)
               [] kind = "ecn" -> IF left < 20 THEN <<>> ELSE UnpackList(ecn, p.buf, 20)
               [] kind = "ps" -> UnpackPayload(ps, 4, 8, p.buf, left)
               [] kind = "ccfb" -> rtcp_rtpfb_ccfb_unpack(p.buf, left)

rtcp_psfb_unpack(kind, p) ==
    LET left == p.bytes - 8
    IN  IF left < 0 THEN <<>>
        ELSE CASE kind \in DOMAIN ListFormats -> UnpackList(ListFormats[kind], p.buf, left)
               [] kind = "pli" -> <<>>
               [] kind = "vbcm" -> UnpackPayload(vbcm, 1, 9, p.buf, left)
               [] kind = "remb" -> rtcp_psfb_afb_unpack(p.buf, left)
               [] kind = "rpsi" -> rtcp_psfb_rpsi_unpack(p.buf, left)

(* One turn of the loop. *)
rtcp_xr_unpack(kind, p) ==
    IF p.bytes < 8 THEN <<>> ELSE UnpackBlock(kind, p.buf, p.bytes - 4)
=============================================================================
