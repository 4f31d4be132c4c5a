------------------------------ MODULE RtpLink ------------------------------
(***************************************************************************)
(* A sender, a datagram network and the demuxer of the receiver            *)
(* (lib/librtp/source/rtp-demuxer.c over RtpQueue, RtpPayload and          *)
(* RtpSession), in the two uses the program makes of it:                   *)
(*                                                                         *)
(*   "main"    rtp_receiver_thread(): no jitter, the codec's unpacker      *)
(*   "detect"  detect_codec(): a jitter, payloads handed on as they come,  *)
(*             until one of them tells the codec                           *)
(*                                                                         *)
(* The sender packs NAL units as rtp-h264-pack.c and rtp-h265-pack.c do    *)
(* and aggregates some; it restarts once, with another SSRC and another    *)
(* sequence number.  The network may lose, delay and duplicate packets and *)
(* deliver garbage.                                                       *)
(***************************************************************************)
EXTENDS RtpSession, RtpPayload, FiniteSets

CONSTANTS PACKET_SIZE,        \* the largest packet the sender makes
          JITTER,             \* the detector's, in timestamp units
          Scenarios,          \* a codec, the first numbers of two runs, and
                              \* whether the network is noisy
          MaxEvents           \* faults and RTCP datagrams

(* A packet has room for its headers and more, and the two runs of the     *)
(* sender have an SSRC each.                                               *)
ASSUME LinkAssumption ==
    /\ PACKET_SIZE \in Nat /\ PACKET_SIZE > RTP_FIXED_HEADER + 3
    /\ Scenarios \subseteq [codec : NalCodecs, first : Nat, second : Nat, noisy : BOOLEAN]
    /\ {1, 2} \subseteq Ssrcs
    /\ MaxEvents \in Nat

-----------------------------------------------------------------------------
(* What is sent: the NAL units of two runs of the sender.  A run of one    *)
(* element is a packet of its own, a longer one an aggregate.              *)

Lens == <<3, 10, 3, 4, 3, 4, 3, 4, 10, 4, 3, 4>>
Nal(i) == [id |-> i, len |-> Lens[i]]
FirstRun == <<<<1>>, <<2>>>>
SecondRun == <<<<3, 4>>, <<5>>, <<6>>, <<7>>, <<8>>, <<9>>, <<10>>,
               <<11>>, <<12>>>>

PayloadsOf(cd, group) ==
    IF Len(group) = 1 THEN rtp_payload_encode_input(cd, PACKET_SIZE, Nal(group[1]))
    ELSE <<Payload("agg", [i \in DOMAIN group |-> Piece(Nal(group[i]), 0, Lens[group[i]])],
                   FALSE, FALSE)>>

Payloads(cd, run) == FlattenSeq([i \in DOMAIN run |-> PayloadsOf(cd, run[i])])

(* The packets of a run; a packet ends a NAL unit or does not. *)
Packets(cd, run, ssrc, start) ==
    LET ps == Payloads(cd, run)
    IN  [i \in DOMAIN ps |->
            [ssrc |-> ssrc, seq |-> U16(start + i - 1), ts |-> ps[i].pieces[1].nal,
             payload |-> ps[i]]]

Stream == [c \in Scenarios |->
             Packets(c.codec, FirstRun, 1, c.first) \o Packets(c.codec, SecondRun, 2, c.second)]

(* The packets of a run and, of every NAL unit, its first and last one. *)
Restarted == [cd \in NalCodecs |-> Len(Payloads(cd, FirstRun))]
Extent ==
    [cd \in NalCodecs |->
        LET ps == Payloads(cd, FirstRun) \o Payloads(cd, SecondRun)
            In(n) == {i \in DOMAIN ps : \E p \in Range(ps[i].pieces) : p.nal = n}
        IN  [n \in DOMAIN Lens |-> [first |-> Min(In(n)), last |-> Max(In(n))]]]

(* The payload tells the codec: the start of a slice, not its middle. *)
Recognised(pieces) == Len(pieces) = 1 /\ pieces[1].from <= 2 /\ pieces[1].nal > 3

-----------------------------------------------------------------------------
VARIABLES use,        \* "main" or "detect"
          scenario,
          nxt,        \* the next packet to be sent
          units,      \* the last unit of which something was sent
          held,       \* packets still under way
          faults,     \* what has gone wrong so far
          rtcps,      \* RTCP datagrams received so far
          state,      \* "open", "found", "closed"
          queue,      \* rtp->queue
          unpacker,   \* rtp->payload
          session,    \* rtp->rtp
          heap,       \* packet buffers allocated
          spare,      \* rtp->cap > 0: one of them waits for the next packet
          got         \* the units the callback was given

linkVars == <<use, scenario, nxt, units, held, faults, rtcps, state, queue, unpacker,
              session, heap, spare, got>>

demuxerVars == <<queue, unpacker, session, heap, spare, got>>
network == <<nxt, units, held, faults>>

codec == scenario.codec
sent == Stream[scenario]

(* detect_codec() asks for the payload type 0, without an encoding; the    *)
(* receiver names the codec.                                               *)
unpacker_kind ==
    IF use = "detect" THEN rtp_payload_find(RTP_PAYLOAD_PCMU, "")
                      ELSE rtp_payload_find(RTP_PAYLOAD_DYNAMIC, codec)

(* The unit that was handed over: a whole NAL unit, or a packet of the     *)
(* stream; 0 when it is neither.                                           *)
Unit(pieces) ==
    IF use = "main"
    THEN IF Whole(pieces, Nal(pieces[1].nal)) THEN pieces[1].nal ELSE 0
    ELSE Max({0} \cup {i \in DOMAIN sent : sent[i].payload.pieces = pieces})

LinkInit ==
    /\ use \in {"main", "detect"} /\ scenario \in Scenarios
    /\ nxt = 1 /\ units = 0 /\ held = {} /\ faults = {} /\ rtcps = 0
    /\ state = "open"
    /\ queue = rtp_queue_create(IF use = "detect" THEN JITTER ELSE 0)
    /\ unpacker = rtp_payload_decode_create(unpacker_kind)
    /\ session = rtp_create
    /\ heap = 0 /\ spare = FALSE
    /\ got = <<>>

-----------------------------------------------------------------------------
(* Buffers.  Whatever their sizes, at most one is spare. *)

rtp_demuxer_alloc(h, sp) == IF sp THEN h ELSE h + 1

(* Altered: every packet is freed, and the first kept as well. *)
FreesTheSpareToo(h, sp, n) == h - n

(* n packets are given back: the first becomes the spare one if there is   *)
(* none, the others are freed.                                             *)
rtp_demuxer_freepkt(h, sp, n) == IF n = 0 \/ sp THEN h - n ELSE h - n + 1

(* The loop after a successful write: every packet that may be read goes   *)
(* to the session and to the unpacker and is given back; an error of the   *)
(* unpacker ends the loop.                                                 *)
undrained(q0) ==
    [q |-> q0, u |-> unpacker, c |-> session, out |-> <<>>, n |-> 0, go |-> TRUE]

drain(q0) ==
    LET Step(d) ==
            LET r == rtp_queue_read(d.q)
                o == rtp_payload_decode_input(unpacker_kind, d.u, r.pkt, RTP_SEQMOD)
            IN  [q |-> r.q, u |-> o.u, out |-> d.out \o o.out, n |-> d.n + 1,
                 c |-> rtcp_input_rtp(d.c, r.pkt.ssrc, r.pkt.seq), go |-> o.r >= 0]
        D[i \in 0 .. Len(q0.items)] ==
            IF i = 0 THEN undrained(q0)
            ELSE LET d == D[i - 1] IN IF d.go /\ readable(d.q) THEN Step(d) ELSE d
    IN  D[Len(q0.items)]

(* rtp_demuxer_input() of an RTP packet. *)
rtp_demuxer_input(pkt) ==
    \E w \in {rtp_queue_write(queue, pkt)} :
    \E d \in {IF w.r > 0 THEN drain(w.q) ELSE undrained(w.q)} :
        LET given == Len(w.freed) + (IF w.r > 0 THEN d.n ELSE 1)
            outs == [i \in DOMAIN d.out |-> d.out[i].pieces]
        IN  /\ state = "open"
            /\ queue' = d.q
            /\ unpacker' = d.u
            /\ session' = d.c
            /\ heap' = rtp_demuxer_freepkt(rtp_demuxer_alloc(heap, spare), FALSE, given)
            /\ spare' = (given > 0)
            /\ got' = got \o [i \in DOMAIN outs |-> Unit(outs[i])]
            /\ state' = IF use = "detect" /\ \E i \in DOMAIN outs : Recognised(outs[i])
                        THEN "found" ELSE state
            /\ UNCHANGED <<use, scenario, rtcps>>

-----------------------------------------------------------------------------
(* The network. *)

Advance ==
    /\ nxt <= Len(sent)
    /\ nxt' = nxt + 1
    /\ units' = IF use = "main" THEN Last(sent[nxt].payload.pieces).nal ELSE nxt

MayFail == scenario.noisy /\ Cardinality(faults) + rtcps < MaxEvents

Deliver ==
    /\ Advance
    /\ rtp_demuxer_input(sent[nxt])
    /\ UNCHANGED <<held, faults>>

Lose ==
    /\ Advance /\ MayFail /\ state = "open"
    /\ faults' = faults \cup {nxt}
    /\ UNCHANGED <<use, scenario, rtcps, state, held, demuxerVars>>

Delay ==
    /\ Advance /\ MayFail /\ state = "open"
    /\ faults' = faults \cup {nxt} /\ held' = held \cup {nxt}
    /\ UNCHANGED <<use, scenario, rtcps, state, demuxerVars>>

Duplicate ==
    /\ Advance /\ MayFail
    /\ faults' = faults \cup {nxt} /\ held' = held \cup {nxt}
    /\ rtp_demuxer_input(sent[nxt])

DeliverLate ==
    \E i \in held :
        /\ held' = held \ {i}
        /\ rtp_demuxer_input(sent[i])
        /\ UNCHANGED <<nxt, units, faults>>

(* A packet of which the payload is damaged: too short for its codec, or   *)
(* an aggregate with a wrong length in it.  A fragment without room for    *)
(* its header is left out (README, section 6), and the detector looks into *)
(* no payload.                                                             *)
Damages(p) ==
    {Payload("short", <<>>, FALSE, FALSE)}
    \cup {Payload("agg", SubSeq(p.pieces, 1, k), FALSE, TRUE) :
             k \in {i \in {0, 1} : p.kind = "agg"}}

Damaged(pkt) ==
    {[ssrc |-> pkt.ssrc, seq |-> pkt.seq, ts |-> pkt.ts, payload |-> p] :
        p \in Damages(pkt.payload)}

Damage ==
    /\ Advance /\ MayFail /\ use = "main"
    /\ faults' = faults \cup {nxt}
    /\ \E pkt \in Damaged(sent[nxt]) : rtp_demuxer_input(pkt)
    /\ UNCHANGED held

(* A datagram that is no RTP packet: rtp_demuxer_alloc() keeps its buffer  *)
(* as the spare one.                                                       *)
Garbage ==
    /\ state = "open" /\ MayFail /\ 0 \notin faults
    /\ faults' = faults \cup {0}
    /\ heap' = rtp_demuxer_alloc(heap, spare)
    /\ spare' = TRUE
    /\ UNCHANGED <<use, scenario, nxt, units, held, rtcps, state, queue, unpacker, session, got>>

(* A compound RTCP datagram of a sender.  The word after the list of a     *)
(* BYE is any SSRC.                                                        *)
RtcpDatagrams ==
    {<<[kind |-> k, ssrcs |-> <<s>>]>> : k \in {"SR", "RR", "SDES", "BYE", "FB", "APP"}, s \in {1, 2}}
    \cup {<<[kind |-> "RR", ssrcs |-> <<2>>], [kind |-> "BYE", ssrcs |-> <<1, 2>>]>>,
          <<[kind |-> "SDES", ssrcs |-> <<1, 2>>]>>}

Rtcp ==
    \E ps \in RtcpDatagrams, after \in Ssrcs :
        /\ state = "open" /\ MayFail
        /\ (\A i \in DOMAIN ps : ps[i].kind # "BYE") => after = self
        /\ rtcps' = rtcps + 1
        /\ session' = rtcp_input_rtcp(session, ps, after)
        /\ UNCHANGED <<use, scenario, network, state, queue, unpacker, heap, spare, got>>

(* rtp_demuxer_rtcp() when its interval is over. *)
rtp_demuxer_rtcp ==
    /\ state = "open" /\ MayFail
    /\ rtcps' = rtcps + 1
    /\ session' = rtp_rtcp_report(session)
    /\ UNCHANGED <<use, scenario, network, state, queue, unpacker, heap, spare, got>>

(* The receiver stops, or has found the codec. *)
rtp_demuxer_destroy ==
    /\ state \in {"open", "found"}
    /\ state' = "closed"
    /\ LET n == Len(queue.items) + Len(queue.bad)
       IN  heap' = rtp_demuxer_freepkt(heap, spare, n)
                     - (IF spare \/ n > 0 THEN 1 ELSE 0)
    /\ spare' = FALSE
    /\ queue' = rtp_queue_reset(queue)
    /\ unpacker' = rtp_payload_decode_create(unpacker_kind)
    /\ session' = rtp_destroy(session)
    /\ UNCHANGED <<use, scenario, network, rtcps, got>>

LinkNext ==
    \/ Deliver \/ Lose \/ Delay \/ Duplicate \/ DeliverLate \/ Damage \/ Garbage
    \/ Rtcp \/ rtp_demuxer_rtcp \/ rtp_demuxer_destroy

LinkSpec == LinkInit /\ [][LinkNext]_linkVars

-----------------------------------------------------------------------------
(* Memory is accounted for, whatever was lost, late, doubled or no packet  *)
(* at all, and whichever sender came, reported or left in any order:       *)
(* every packet buffer allocated is in the queue, among the saved packets  *)
(* or the spare one, and none is left after rtp_demuxer_destroy(); the     *)
(* queue's array and that of the saved packets are not overrun; and a      *)
(* member's reference count is the number of lists it is in, and one for   *)
(* the session's own, so that none leaks or is freed while it is listed.   *)
MemoryExact ==
    /\ heap = Len(queue.items) + Len(queue.bad) + (IF spare THEN 1 ELSE 0)
    /\ Len(queue.items) <= MAX_PACKET /\ Len(queue.bad) <= RTP_SEQUENTIAL + 1
    /\ \A s \in Ssrcs :
         session.mem[s].ref =
            Cardinality({l \in {"members", "senders"} : s \in Range(session[l])})
            + (IF s = self /\ state # "closed" THEN 1 ELSE 0)

(* What rtcp_report_block() would say of a sender now: the highest number  *)
(* received is not before the first one, through wraps and restarts, and   *)
(* the fraction lost fits its octet.                                       *)
ReportSound ==
    \A s \in Reported(session) :
        LET m == session.mem[s] IN
        /\ extseq(m) >= m.base
        /\ rtcp_report_block(m).fraction \in 0 .. 255

Channel == INSTANCE NalChannel
    WITH ordered <- (use = "detect"), sent <- units, got <- got

(* The queue and the unpacker implement a channel of whole units: no NAL   *)
(* unit is handed over cut short, spliced from two or before it was sent,  *)
(* and the detector gets its payloads in the order they were sent.         *)
HandsOverUnits == Channel!Spec

(* How many packets of a restarted sender may pass before it is followed.  *)
(* RTP_SEQUENTIAL are saved, and as many again when the numbers wrap while *)
(* they are counted modulo 2^16 - 1; unless the number expected next comes *)
(* before, or the numbers run into the RTP_MISORDER below it, which are    *)
(* dropped as too late: then all are lost until that number comes.         *)
Recovery(c) ==
    LET saved == 2 * RTP_SEQUENTIAL + 1
        behind == U16(c.first + Restarted[c.codec] - c.second)
    IN  IF behind < saved + RTP_MISORDER THEN behind ELSE saved

(* On a faultless network the receiver follows a sender that restarts with *)
(* whatever other number: every NAL unit of the first run and every one    *)
(* that begins after the recovery is handed over as soon as its last       *)
(* packet has come.                                                        *)
RestartRecovers ==
    (faults = {} /\ use = "main" /\ state = "open") =>
        \A n \in DOMAIN Lens :
            LET e == Extent[codec][n]
                run1 == Restarted[codec]
            IN  (e.last < nxt /\ (e.first <= run1 \/ e.first > run1 + Recovery(scenario)))
                    => n \in Range(got)
=============================================================================
