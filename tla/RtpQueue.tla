------------------------------ MODULE RtpQueue ------------------------------
(***************************************************************************)
(* The reorder queue of librtp (lib/librtp/source/rtp-queue.c), as the     *)
(* operators rtp_queue_write and rtp_queue_read on a queue record:         *)
(*                                                                         *)
(*   items      the packets of the ring buffer, oldest first               *)
(*   probation  sequential packets still wanted before the first read      *)
(*   first_seq  the next sequence number to hand out                       *)
(*   last_seq   the highest one received                                   *)
(*   bad        packets far outside the window, kept until they prove to   *)
(*              be a restarted stream; bad_seq is the next one expected    *)
(*                                                                         *)
(* A packet is a record with at least the fields seq and ts (its timestamp *)
(* in the unit of the jitter).  Sequence numbers are modulo RTP_SEQMOD,    *)
(* 2^16 in the code.                                                       *)
(***************************************************************************)
EXTENDS Integers, Sequences

CONSTANTS RTP_SEQMOD, RTP_DROPOUT, RTP_MISORDER, RTP_SEQUENTIAL, MAX_PACKET

ASSUME QueueAssumption ==
    /\ RTP_SEQMOD \in Nat /\ RTP_SEQMOD % 2 = 0
    /\ RTP_DROPOUT \in 1 .. RTP_SEQMOD \div 2
    /\ RTP_MISORDER \in 1 .. RTP_SEQMOD \div 2
    /\ RTP_SEQUENTIAL \in Nat \ {0}
    /\ MAX_PACKET \in Nat \ {0}

(* (uint16_t)(a - b) and (int16_t)(a - b). *)
U16(x) == x % RTP_SEQMOD
I16(x) == IF U16(x) < RTP_SEQMOD \div 2 THEN U16(x) ELSE U16(x) - RTP_SEQMOD

(* The result of a call: the queue afterwards, the return value, and the   *)
(* packets that q->free() was called for.                                  *)
Result(q, r, freed) == [q |-> q, r |-> r, freed |-> freed]

E2BIG == 7

rtp_queue_create(threshold) ==
    [items |-> <<>>, probation |-> 1, first_seq |-> 0, last_seq |-> 0,
     bad |-> <<>>, bad_seq |-> 0, threshold |-> threshold]

rtp_queue_reset_bad_items(q) == [q EXCEPT !.bad = <<>>, !.bad_seq = 0]

rtp_queue_reset(q) ==
    [rtp_queue_reset_bad_items(q) EXCEPT !.items = <<>>,
                                         !.probation = RTP_SEQUENTIAL]

(* The position to insert seq at, by distance behind last_seq; 0 when a    *)
(* packet of that number is there.  The binary search of the code relies   *)
(* on the items being in that order; W[k] is what it still has to look at  *)
(* after k turns, and each makes it smaller.                               *)
rtp_queue_find(q, seq) ==
    LET Behind(s) == U16(q.last_seq - s)
        Halve(l, r) ==
            LET i == (l + r) \div 2
                vi == Behind(q.items[i].seq)
            IN  CASE l >= r -> <<l, r>>
                  [] l < r /\ vi = Behind(seq) -> <<0, 0>>
                  [] l < r /\ vi < Behind(seq) -> <<l, i>>
                  [] l < r /\ vi > Behind(seq) -> <<i + 1, r>>
        W[k \in 0 .. Len(q.items)] ==
            IF k = 0 THEN <<1, Len(q.items) + 1>>
            ELSE LET w == W[k - 1] IN Halve(w[1], w[2])
    IN  W[Len(q.items)][1]

(* The ring buffer grows until it holds MAX_PACKET packets. *)
rtp_queue_insert(q, position, pkt) ==
    IF Len(q.items) >= MAX_PACKET
    THEN Result(q, -E2BIG, <<>>)
    ELSE Result([q EXCEPT !.items = SubSeq(@, 1, position - 1) \o <<pkt>>
                                        \o SubSeq(@, position, Len(@))],
                1, <<>>)

append(q, pkt) == rtp_queue_insert(q, Len(q.items) + 1, pkt)

(* The saved packets, then pkt, are appended; the result of the inserts    *)
(* of the saved ones is ignored.                                           *)
resync(q, pkt) ==
    LET A[i \in 0 .. Len(q.bad)] ==
            IF i = 0 THEN [q EXCEPT !.bad = <<>>, !.last_seq = pkt.seq]
                     ELSE append(A[i - 1], q.bad[i]).q
    IN  append(A[Len(q.bad)], pkt)

write_on_probation(q, pkt) ==
    LET next == q.items # <<>> /\ pkt.seq = q.last_seq + 1
        first == q.items = <<>> /\ q.probation = 1
        p == CASE next -> [q EXCEPT !.probation = @ - 1,
                                    !.first_seq = IF q.probation = 1
                                                  THEN q.items[1].seq ELSE @]
               [] first -> [q EXCEPT !.probation = 0, !.first_seq = pkt.seq]
               [] OTHER -> rtp_queue_reset(q)
        freed == IF next \/ first THEN <<>> ELSE q.bad \o q.items
    IN  [append([p EXCEPT !.last_seq = pkt.seq], pkt) EXCEPT !.freed = freed]

(* Altered: the number of the saved packet, not the next one, is expected. *)
WriteBadExpectsSame(q, pkt) ==
    LET follows == q.bad # <<>> /\ q.bad_seq = pkt.seq
        p == IF follows THEN q ELSE rtp_queue_reset_bad_items(q)
    IN  IF follows /\ Len(q.bad) >= RTP_SEQUENTIAL
        THEN resync(q, pkt)
        ELSE Result([p EXCEPT !.bad = Append(@, pkt), !.bad_seq = pkt.seq],
                    1, IF follows THEN <<>> ELSE q.bad)

(* A packet outside the window is saved; enough of them in sequence        *)
(* replace the stream.                                                     *)
write_bad(q, pkt) ==
    LET follows == q.bad # <<>> /\ q.bad_seq = pkt.seq
        p == IF follows THEN q ELSE rtp_queue_reset_bad_items(q)
    IN  IF follows /\ Len(q.bad) >= RTP_SEQUENTIAL
        THEN resync(q, pkt)
        ELSE Result([p EXCEPT !.bad = Append(@, pkt),
                              !.bad_seq = (pkt.seq + 1) % (RTP_SEQMOD - 1)],
                    1, IF follows THEN <<>> ELSE q.bad)

rtp_queue_write(q, pkt) ==
    LET delta == U16(pkt.seq - q.last_seq)
        kept == rtp_queue_reset_bad_items(q)
        idx == rtp_queue_find(q, pkt.seq)
    IN  CASE q.probation > 0 -> write_on_probation(q, pkt)
          [] q.probation = 0 /\ 0 < delta /\ delta < RTP_DROPOUT ->
                [append([kept EXCEPT !.last_seq = pkt.seq], pkt) EXCEPT !.freed = q.bad]
          [] q.probation = 0 /\ I16(delta) <= 0
             /\ I16(delta) >= I16(q.first_seq - q.last_seq) ->
                IF idx = 0 THEN Result(q, -1, <<>>)
                ELSE [rtp_queue_insert(kept, idx, pkt) EXCEPT !.freed = q.bad]
          [] OTHER ->
                IF U16(q.first_seq - pkt.seq) < RTP_MISORDER
                THEN Result(q, -1, <<>>)            \* too late
                ELSE write_bad(q, pkt)

(* Whether the head may be handed out: always without a jitter, otherwise  *)
(* when it is the next one or the queue spans the jitter.                  *)
readable(q) ==
    /\ q.items # <<>> /\ q.probation = 0
    /\ \/ q.threshold = 0
       \/ q.first_seq = q.items[1].seq
       \/ LET span == q.items[Len(q.items)].ts - q.items[1].ts
          IN  (IF span < 0 THEN -span ELSE span) >= q.threshold

rtp_queue_read(q) ==
    LET head == q.items[1]
    IN  [pkt |-> head,
         q |-> [q EXCEPT !.items = Tail(@),
                         !.first_seq = IF q.threshold = 0 \/ @ = head.seq
                                       THEN U16(@ + 1) ELSE U16(head.seq + 1)]]
=============================================================================
