----------------------------- MODULE RtpSession -----------------------------
(***************************************************************************)
(* The session a demuxer keeps beside its queue (lib/librtp/source/rtp.c,  *)
(* rtcp.c, rtp-member.c, rtp-member-list.c, rtcp-sr.c, rtcp-rr.c,          *)
(* rtcp-sdec.c, rtcp-bye.c): who takes part, who sends, and what has been  *)
(* received of every sender.  A session is a record                        *)
(*                                                                         *)
(*   members, senders   the two lists, of SSRCs in order of arrival        *)
(*   mem                the member objects; ref = 0 when there is none     *)
(*                                                                         *)
(* Clocks, jitter, octet counts, descriptions and the average RTCP size    *)
(* only feed what reports say and are left out.                            *)
(***************************************************************************)
EXTENDS RtpQueue, SequencesExt

CONSTANTS Ssrcs,              \* the SSRCs on the network; 0 is our own
          RTP_PROBATION,      \* of rtp-member.h, which has its own
          MEMBER_DROPOUT,     \* RTP_DROPOUT and
          MEMBER_MISORDER     \* RTP_MISORDER

ASSUME MemberAssumption ==
    /\ 0 \in Ssrcs
    /\ RTP_PROBATION \in Nat \ {0}
    /\ MEMBER_DROPOUT \in 1 .. RTP_SEQMOD \div 2
    /\ MEMBER_MISORDER \in 1 .. RTP_SEQMOD \div 2

(* rtp_demuxer_init() runs before the demuxer draws its SSRC. *)
self == 0

rtp_member_create ==
    [ref |-> 1, probation |-> RTP_PROBATION, seq |-> 0, base |-> 0, bad |-> 0,
     cycles |-> 0, packets |-> 0, packets0 |-> 0, expected0 |-> 0]

NoMember == [rtp_member_create EXCEPT !.ref = 0]

rtp_member_addref(c, s) == [c EXCEPT !.mem[s].ref = @ + 1]
rtp_member_release(c, s) ==
    LET m == c.mem[s]
    IN  [c EXCEPT !.mem[s] = IF m.ref = 1 THEN NoMember ELSE [m EXCEPT !.ref = @ - 1]]

(* l is "members" or "senders". *)
rtp_member_list_find(c, l, s) == s \in Range(c[l])
rtp_member_list_add(c, l, s) == rtp_member_addref([c EXCEPT ![l] = Append(@, s)], s)
rtp_member_list_delete(c, l, s) ==
    IF rtp_member_list_find(c, l, s)
    THEN rtp_member_release([c EXCEPT ![l] = RemoveFirst(@, s)], s)
    ELSE c

rtp_create ==
    rtp_member_list_add([members |-> <<>>, senders |-> <<>>,
                         mem |-> [s \in Ssrcs |-> IF s = self THEN rtp_member_create
                                                  ELSE NoMember]],
                        "members", self)

(* Both lists give back their members, then the session its own. *)
rtp_destroy(c) ==
    LET objects == c.members \o c.senders \o <<self>>
        D[i \in 0 .. Len(objects)] ==
            IF i = 0 THEN [c EXCEPT !.members = <<>>, !.senders = <<>>]
            ELSE rtp_member_release(D[i - 1], objects[i])
    IN  D[Len(objects)]

rtp_member_fetch(c, s) ==
    IF rtp_member_list_find(c, "members", s) THEN c
    ELSE rtp_member_release(
            rtp_member_list_add([c EXCEPT !.mem[s] = rtp_member_create], "members", s), s)

rtp_sender_fetch(c, s) ==
    IF rtp_member_list_find(c, "senders", s) THEN c
    ELSE rtp_member_list_add(rtp_member_fetch(c, s), "senders", s)

-----------------------------------------------------------------------------
(* Received RTP. *)

rtp_seq_init(m, seq) ==
    [ref |-> m.ref, probation |-> 0, seq |-> seq, base |-> seq, bad |-> RTP_SEQMOD + 1,
     cycles |-> 0, packets |-> 0, packets0 |-> 0, expected0 |-> 0]

(* Altered: a wrap of the sequence number is not counted. *)
UpdateWithoutCycles(m, seq) ==
    LET delta == U16(seq - m.seq)
        R(n, r) == [m |-> n, r |-> r]
    IN  CASE m.probation > 0 /\ m.seq + 1 = seq ->
                IF m.probation = 1
                THEN R(rtp_seq_init([m EXCEPT !.seq = seq], seq), 1)
                ELSE R([m EXCEPT !.seq = seq, !.probation = @ - 1], 0)
          [] m.probation > 0 /\ m.seq + 1 # seq ->
                R([m EXCEPT !.seq = seq, !.probation = RTP_PROBATION], 0)
          [] m.probation = 0 /\ delta < MEMBER_DROPOUT -> R([m EXCEPT !.seq = seq], 1)
          [] m.probation = 0 /\ delta >= MEMBER_DROPOUT
             /\ delta <= RTP_SEQMOD - MEMBER_MISORDER ->
                IF m.bad + 1 = seq THEN R(rtp_seq_init(m, seq), 1)
                ELSE R([m EXCEPT !.bad = seq], 0)
          [] OTHER -> R(m, 1)

(* The member afterwards, and whether the packet counts.  seq + 1 and      *)
(* bad + 1 are ints here: neither meets a sequence number of 0.            *)
rtp_seq_update(m, seq) ==
    LET delta == U16(seq - m.seq)
        R(n, r) == [m |-> n, r |-> r]
    IN  CASE m.probation > 0 /\ m.seq + 1 = seq ->
                IF m.probation = 1
                THEN R(rtp_seq_init([m EXCEPT !.seq = seq], seq), 1)
                ELSE R([m EXCEPT !.seq = seq, !.probation = @ - 1], 0)
          [] m.probation > 0 /\ m.seq + 1 # seq ->
                R([m EXCEPT !.seq = seq, !.probation = RTP_PROBATION], 0)
          [] m.probation = 0 /\ delta < MEMBER_DROPOUT ->
                R([m EXCEPT !.seq = seq,
                            !.cycles = IF seq < m.seq THEN @ + RTP_SEQMOD ELSE @], 1)
          [] m.probation = 0 /\ delta >= MEMBER_DROPOUT
             /\ delta <= RTP_SEQMOD - MEMBER_MISORDER ->
                IF m.bad + 1 = seq THEN R(rtp_seq_init(m, seq), 1)
                ELSE R([m EXCEPT !.bad = seq], 0)
          [] OTHER -> R(m, 1)        \* duplicate or reordered

rtcp_input_rtp(c, s, seq) ==
    LET d == rtp_sender_fetch(c, s)
        u == rtp_seq_update(d.mem[s], seq)
    IN  [d EXCEPT !.mem[s] = [u.m EXCEPT !.packets = @ + u.r]]

-----------------------------------------------------------------------------
(* Received RTCP.  A packet is a record with its kind and its SSRCs; the   *)
(* first is the originator.                                                *)

rtcp_sr_unpack(c, p) == rtp_sender_fetch(c, p.ssrcs[1])
rtcp_rr_unpack(c, p) == rtp_member_fetch(c, p.ssrcs[1])

(* One chunk after the other; the descriptions in them are left out. *)
rtcp_sdes_unpack(c, p) ==
    LET F[i \in 0 .. Len(p.ssrcs)] ==
            IF i = 0 THEN c ELSE rtp_member_fetch(F[i - 1], p.ssrcs[i])
    IN  F[Len(p.ssrcs)]

(* The first SSRC is taken out of both lists, then the loop takes as many  *)
(* words again, starting with the second: its last one lies after the list *)
(* and may hold anything.                                                  *)
rtcp_bye_unpack(c, p, after) ==
    LET gone == Append(p.ssrcs, after)
        D[i \in 0 .. Len(gone)] ==
            IF i = 0 THEN c
            ELSE rtp_member_list_delete(
                    rtp_member_list_delete(D[i - 1], "members", gone[i]), "senders", gone[i])
    IN  IF p.ssrcs = <<>> THEN c ELSE D[Len(gone)]

(* rtpfb, psfb and xr enlist their originator as a sender before they look *)
(* at what follows; app enlists nobody.                                    *)
rtcp_feedback_unpack(c, p) == rtp_sender_fetch(c, p.ssrcs[1])

rtcp_parse(c, p, after) ==
    CASE p.kind = "SR" -> rtcp_sr_unpack(c, p)
      [] p.kind = "RR" -> rtcp_rr_unpack(c, p)
      [] p.kind = "SDES" -> rtcp_sdes_unpack(c, p)
      [] p.kind = "BYE" -> rtcp_bye_unpack(c, p, after)
      [] p.kind = "FB" -> rtcp_feedback_unpack(c, p)
      [] p.kind = "APP" -> c

(* A compound datagram, packet by packet. *)
rtcp_input_rtcp(c, ps, after) ==
    LET P[i \in 0 .. Len(ps)] == IF i = 0 THEN c ELSE rtcp_parse(P[i - 1], ps[i], after)
    IN  P[Len(ps)]

-----------------------------------------------------------------------------
(* Our own reports. *)

extseq(m) == m.cycles + m.seq
expected(m) == extseq(m) - m.base + 1

(* What a report block says: the fraction lost in the interval, in 1/256,  *)
(* and the cumulative loss.                                                *)
rtcp_report_block(m) ==
    LET expected_interval == expected(m) - m.expected0
        lost_interval == expected_interval - (m.packets - m.packets0)
        lost == expected(m) - m.packets
    IN  [fraction |-> IF lost_interval < 0 \/ expected_interval = 0 THEN 0
                      ELSE (lost_interval * 256) \div expected_interval,
         lost |-> IF lost < 0 THEN 0 ELSE lost]

Reported(c) == {s \in Range(c.senders) : c.mem[s].packets > 0 /\ s # self}

(* rtcp_rr_pack() with room for every block; rtcp_sdes_pack() adds nothing *)
(* because no name was ever set.                                           *)
rtp_rtcp_report(c) ==
    [c EXCEPT !.mem = [s \in Ssrcs |->
                          IF s \in Reported(c)
                          THEN [c.mem[s] EXCEPT !.expected0 = expected(c.mem[s]),
                                                !.packets0 = c.mem[s].packets]
                          ELSE c.mem[s]]]
=============================================================================
