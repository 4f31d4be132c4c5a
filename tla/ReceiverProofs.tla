--------------------------- MODULE ReceiverProofs ---------------------------
(***************************************************************************)
(* Proofs about the receiving side of the player.                          *)
(*                                                                         *)
(* First the main loop of StreamSession: codec changes are not lost and    *)
(* no receiver thread works with a stale decoder, for every set of codecs  *)
(* and all values of the limits and bounds.                                *)
(*                                                                         *)
(* Then librtp's receiver of RtpLink: what its reports say, the reference  *)
(* counts of its members and the accounting of its packet buffers, for     *)
(* every scenario, every width of the sequence numbers and all limits of   *)
(* the queue and of the members.                                           *)
(***************************************************************************)
EXTENDS StreamSession, RtpLink, SeqFilterProofs, SequenceTheorems, TLAPS

-----------------------------------------------------------------------------
\* The main loop.

\* When no receiver thread runs: before the codec is known, and from the join in
\* stop_receiving() to the next start_receiving().
NoThread ==
  mpc \in {"detect", "restart", "resume", "done"} => rpc \in {"none", "done"}

\* What a receiver thread works with was made for it, and stays so while it exists.
ThreadFitsDecoder == rpc \notin {"none", "done"} => demuxer = decoder /\ ~packet_eos

\* Between restart_mpi() and start_receiving() the new decoder and packet are there.
ResumeReady == mpc = "resume" => decoder = m_video_codec /\ ~packet_eos

IInv ==
  /\ TypeOK /\ NoThread /\ ThreadFitsDecoder /\ ResumeReady /\ ChangeNotLost

\* The initial values of the counters and clocks are within their bounds.
LEMMA Bounds ==
  /\ 1 \in 1..MaxTime /\ 0 \in 0..MaxTime /\ 0 \in 0..MaxPackets
  /\ 0 \in 0..CODEC_MISMATCH_CONFIRM - 1
BY SessionAssumption DEF SessionAssumption

\* IInv holds initially.
LEMMA InitIInv == Init => IInv
<1> SUFFICES ASSUME Init PROVE IInv
  OBVIOUS
<1>1. TypeOK
  BY Bounds, Zenon DEF Init, TypeOK, AnyCodec
<1>2. NoThread /\ ThreadFitsDecoder /\ ResumeReady /\ ChangeNotLost
  BY DEF Init, NoThread, ThreadFitsDecoder, ResumeReady, ChangeNotLost
<1> QED
  BY <1>1, <1>2 DEF IInv

\* Every step preserves IInv.
LEMMA NextIInv == IInv /\ [Next]_vars => IInv'
<1> SUFFICES ASSUME IInv, [Next]_vars PROVE IInv'
  OBVIOUS
<1> USE SessionAssumption
    DEF SessionAssumption, IInv, TypeOK, AnyCodec, detect_codec, NoThread, ThreadFitsDecoder,
        ResumeReady, ChangeNotLost
<1>1. CASE sig_handler
  BY <1>1 DEF sig_handler, receiverVars, presenceVars, decoderVars
<1>2. CASE Tick
  BY <1>2 DEF Tick, receiverVars, presenceVars, decoderVars
<1>3. CASE ReceiverEnds
  BY <1>3 DEF ReceiverEnds, ReceiverOnly, presenceVars
<1>4. ASSUME NEW c \in AnyCodec, Receive(c) PROVE IInv'
  <2>1. m_codec_mismatch_count' \in 0..CODEC_MISMATCH_CONFIRM - 1
    BY <1>4 DEF Receive, Confirmed
  <2>2. received' \in 0..MaxPackets
    BY <1>4 DEF Receive, Confirmed
  <2>3. /\ rpc = "poll" /\ rpc' \in {"poll", "stamp", "notify"}
        /\ m_video_codec' \in AnyCodec
        /\ m_video_codec' # m_video_codec => rpc' = "notify"
    BY <1>4 DEF Receive, Mismatch
  <2> QED
    BY <1>4, <2>1, <2>2, <2>3 DEF Receive, ReceiverOnly, presenceVars
<1>5. CASE NotifiesChange
  BY <1>5 DEF NotifiesChange, ReceiverOnly, presenceVars
<1>6. CASE Stamps
  BY <1>6 DEF Stamps, ReceiverOnly
<1>7. CASE MarksPresent
  BY <1>7 DEF MarksPresent, ReceiverOnly
<1>8. CASE FeedsDecoder
  BY <1>8 DEF FeedsDecoder, ReceiverOnly, presenceVars
<1>9. ASSUME NEW c \in detect_codec, Detects(c) PROVE IInv'
  <2>1. TypeOK'
    BY <1>9, Bounds, Zenon DEF Detects, setup_mpi, start_receiving, MainOnly
  <2>2. (NoThread /\ ThreadFitsDecoder /\ ResumeReady /\ ChangeNotLost)'
    BY <1>9 DEF Detects, setup_mpi, start_receiving
  <2> QED
    BY <2>1, <2>2 DEF IInv
<1>10. CASE DetectAborts
  BY <1>10 DEF DetectAborts, MainOnly, presenceVars, decoderVars
<1>11. CASE StopsReceiving
  BY <1>11 DEF StopsReceiving, TellsToEnd, MainOnly, presenceVars, decoderVars
<1>12. CASE JoinsAndFeedsEos
  BY <1>12 DEF JoinsAndFeedsEos, Joined, MainOnly, presenceVars
<1>13. CASE Restarts
  BY <1>13 DEF Restarts, Recreates, setup_mpi, MainOnly, presenceVars
<1>14. CASE Resumes
  <2>1. TypeOK'
    BY <1>14, Bounds, Zenon DEF Resumes, start_receiving, MainOnly, decoderVars
  <2>2. (NoThread /\ ThreadFitsDecoder /\ ResumeReady /\ ChangeNotLost)'
    BY <1>14 DEF Resumes, start_receiving, decoderVars
  <2> QED
    BY <2>1, <2>2 DEF IInv
<1>15. CASE ReadsClock
  BY <1>15 DEF ReadsClock, MainOnly, presenceVars, decoderVars
<1>16. CASE LoadsLast
  BY <1>16 DEF LoadsLast, MainOnly, presenceVars, decoderVars
<1>17. CASE LoadsPresent
  BY <1>17 DEF LoadsPresent, MainOnly, presenceVars, decoderVars
<1>18. CASE DeclaresLoss
  BY <1>18 DEF DeclaresLoss, MainOnly, decoderVars
<1>19. CASE UNCHANGED vars
  BY <1>19 DEF vars, receiverVars, presenceVars, decoderVars
<1> QED
  BY <1>1, <1>2, <1>3, <1>4, <1>5, <1>6, <1>7, <1>8, <1>9, <1>10, <1>11, <1>12, <1>13,
     <1>14, <1>15, <1>16, <1>17, <1>18, <1>19
  DEF Next, ReceiverNext, ReceiverStops, ReceiverFails, MainNext, Ended

\* The inductive invariant holds in every reachable state.
THEOREM SessionInvariant == Spec => []IInv
BY InitIInv, NextIInv, PTL DEF Spec

\* Type correctness, the cap on the mismatch count of RtpReceiver included.
THEOREM SessionTypeOK == Spec => []TypeOK
<1>1. IInv => TypeOK
  BY DEF IInv
<1> QED
  BY <1>1, SessionInvariant, PTL

\* No change of codec is lost between the receiver thread and read_video_stream().
THEOREM SessionChangeNotLost == Spec => []ChangeNotLost
<1>1. IInv => ChangeNotLost
  BY DEF IInv
<1> QED
  BY <1>1, SessionInvariant, PTL

\* What the receiver thread feeds is for the decoder's codec, in a fresh packet.
THEOREM SessionDataFitsDecoder == Spec => []DataFitsDecoder
<1>1. IInv => DataFitsDecoder
  BY DEF IInv, ThreadFitsDecoder, DataFitsDecoder
<1> QED
  BY <1>1, SessionInvariant, PTL

\* restart_mpi() and the end of read_video_stream() have the packet to themselves.
THEOREM SessionPacketExclusive == Spec => []PacketExclusive
<1>1. IInv => PacketExclusive
  BY DEF IInv, NoThread, PacketExclusive
<1> QED
  BY <1>1, SessionInvariant, PTL

-----------------------------------------------------------------------------
\* Loops of the receiver, as functions on the number of turns.

\* The runs of a loop of n turns F[1], F[2], ... that starts at s.
LoopRuns(n, T, s, F) == {f \in [0..n -> T] : f[0] = s /\ \A i \in 1..n : f[i] = F[i][f[i - 1]]}

\* A loop that does not leave a set of states has one.
LEMMA LoopExists ==
  ASSUME NEW n \in Nat, NEW T, NEW s \in T, NEW F \in [1..n -> [T -> T]]
  PROVE  LoopRuns(n, T, s, F) # {}
<1> DEFINE Runs(f, k) == f[0] = s /\ \A i \in 1..k : f[i] = F[i][f[i - 1]]
           S == {k \in Nat : k <= n => \E f \in [0..k -> T] : Runs(f, k)}
<1>1. 0 \in S
  <2> DEFINE f == [i \in 0..0 |-> s]
  <2>1. f \in [0..0 -> T] /\ Runs(f, 0)
    OBVIOUS
  <2> HIDE DEF f
  <2>2. \E h \in [0..0 -> T] : Runs(h, 0)
    BY <2>1
  <2> QED
    BY <2>2
<1>2. ASSUME NEW k \in Nat, k \in S PROVE k + 1 \in S
  <2> SUFFICES ASSUME k + 1 <= n PROVE \E f \in [0 .. k + 1 -> T] : Runs(f, k + 1)
    OBVIOUS
  <2>1. PICK f \in [0..k -> T] : Runs(f, k)
    BY <1>2
  <2>2. k + 1 \in 1..n /\ f[k] \in T /\ F[k + 1] \in [T -> T]
    OBVIOUS
  <2>3. F[k + 1][f[k]] \in T
    BY <2>2
  <2> DEFINE g == [i \in 0 .. k + 1 |-> IF i <= k THEN f[i] ELSE F[k + 1][f[k]]]
  <2>4. g \in [0 .. k + 1 -> T]
    BY <2>3
  <2>5. g[0] = s /\ g[k + 1] = F[k + 1][f[k]] /\ \A i \in 0..k : g[i] = f[i]
    BY <2>1
  <2> HIDE DEF g
  <2>6. ASSUME NEW i \in 1 .. k + 1 PROVE g[i] = F[i][g[i - 1]]
    <3>1. CASE i <= k
      <4>1. i - 1 \in 0..k /\ i \in 0..k /\ i \in 1..k
        BY <3>1
      <4> QED
        BY <2>1, <2>5, <4>1
    <3>2. CASE i = k + 1
      <4>1. k \in 0..k /\ i - 1 = k
        BY <3>2
      <4> QED
        BY <2>5, <3>2, <4>1
    <3> QED
      BY <3>1, <3>2
  <2>7. Runs(g, k + 1)
    BY <2>5, <2>6
  <2> HIDE DEF Runs
  <2> QED
    BY <2>4, <2>7
<1> HIDE DEF S
<1>3. n \in S
  BY <1>1, <1>2, NatSetInduction
<1>4. PICK f \in [0..n -> T] : Runs(f, n)
  BY <1>3 DEF S
<1> QED
  BY <1>4 DEF LoopRuns

\* And whatever set it does not leave.
LEMMA LoopStays ==
  ASSUME NEW n \in Nat, NEW T, NEW f, f[0] \in T,
         \A i \in 1..n : f[i - 1] \in T => f[i] \in T
  PROVE  \A i \in 0..n : f[i] \in T
<1> DEFINE S == {k \in Nat : k <= n => f[k] \in T}
<1>1. 0 \in S
  OBVIOUS
<1>2. ASSUME NEW k \in Nat, k \in S PROVE k + 1 \in S
  <2> SUFFICES ASSUME k + 1 <= n PROVE f[k + 1] \in T
    OBVIOUS
  <2>1. f[k] \in T /\ k + 1 \in 1..n /\ (k + 1) - 1 = k
    BY <1>2
  <2> QED
    BY <2>1
<1> HIDE DEF S
<1>3. Nat \subseteq S
  BY <1>1, <1>2, NatSetInduction
<1> QED
  BY <1>3 DEF S

-----------------------------------------------------------------------------
\* The constants as the lemmas use them.
LEMMA Windows ==
  /\ RTP_SEQMOD \in Nat /\ RTP_SEQMOD >= 2
  /\ RTP_SEQUENTIAL \in Nat /\ RTP_SEQUENTIAL >= 1 /\ MAX_PACKET \in Nat /\ MAX_PACKET >= 1
  /\ RTP_PROBATION \in Nat /\ RTP_PROBATION >= 1
  /\ MEMBER_DROPOUT \in Nat /\ MEMBER_DROPOUT >= 1
BY QueueAssumption, MemberAssumption DEF QueueAssumption, MemberAssumption

\* The sequence numbers, and the members with the fields the model keeps.
Seqs == 0 .. RTP_SEQMOD - 1
Member ==
  [ref : Nat, probation : Nat, seq : Seqs, base : Seqs, bad : Nat, cycles : Nat,
   packets : Nat, packets0 : Nat, expected0 : Nat]

\* A member on probation has not been counted; of any other the numbers received do
\* not go back, and what a report said is not taken back: whatever number is expected
\* since, a packet has come for it.
Counted(m) ==
  /\ m.probation > 0 => m.packets = 0
  /\ m.probation = 0 =>
       /\ extseq(m) >= m.base
       /\ m.packets0 <= m.packets /\ m.expected0 <= expected(m)
       /\ m.expected0 < expected(m) => m.packets0 < m.packets

\* The distance of two sequence numbers modulo RTP_SEQMOD.
LEMMA Distance ==
  ASSUME NEW a \in Seqs, NEW b \in Seqs
  PROVE  /\ U16(a - b) \in Seqs
         /\ U16(a - b) = IF a >= b THEN a - b ELSE a - b + RTP_SEQMOD
<1>1. CASE a >= b
  BY <1>1, Windows DEF U16, Seqs
<1>2. CASE a < b
  <2>1. a - b + RTP_SEQMOD \in 0 .. RTP_SEQMOD - 1
    BY <1>2, Windows DEF Seqs
  <2> QED
    BY <1>2, <2>1, Windows DEF U16, Seqs
<1> QED
  BY <1>1, <1>2 DEF Seqs

\* A new member, and none.
LEMMA NewMember ==
  /\ rtp_member_create \in Member /\ Counted(rtp_member_create) /\ rtp_member_create.ref = 1
  /\ NoMember \in Member /\ Counted(NoMember) /\ NoMember.ref = 0
BY Windows DEF rtp_member_create, NoMember, Member, Counted, Seqs

\* A member by its fields.
Rec(ref, probation, seq, base, bad, cycles, packets, packets0, expected0) ==
  [ref |-> ref, probation |-> probation, seq |-> seq, base |-> base, bad |-> bad,
   cycles |-> cycles, packets |-> packets, packets0 |-> packets0, expected0 |-> expected0]

\* rtp_seq_update() of a packet, and the count of it.
LEMMA UpdateCounts ==
  ASSUME NEW m \in Member, Counted(m), NEW seq \in Seqs, NEW u, u = rtp_seq_update(m, seq)
  PROVE  LET n == [u.m EXCEPT !.packets = @ + u.r] IN
         n \in Member /\ Counted(n) /\ n.ref = m.ref
<1> DEFINE delta == U16(seq - m.seq)
           Goal(v) == LET n == [v.m EXCEPT !.packets = @ + v.r] IN
                      n \in Member /\ Counted(n) /\ n.ref = m.ref
           init == rtp_seq_init(m, seq)
<1>1. /\ m.ref \in Nat /\ m.seq \in Seqs /\ m.probation \in Nat /\ m.bad \in Nat
      /\ m.packets \in Nat /\ m.base \in Seqs /\ m.cycles \in Nat /\ m.packets0 \in Nat
      /\ m.expected0 \in Nat
  BY DEF Member
<1>2. delta \in Seqs /\ delta = IF seq >= m.seq THEN seq - m.seq ELSE seq - m.seq + RTP_SEQMOD
  BY <1>1, Distance
<1>m. m = Rec(m.ref, m.probation, m.seq, m.base, m.bad, m.cycles, m.packets, m.packets0,
              m.expected0)
  BY DEF Member, Rec
<1>c. Counted(Rec(m.ref, m.probation, m.seq, m.base, m.bad, m.cycles, m.packets, m.packets0,
                  m.expected0))
  BY <1>m
<1>d. seq \in Nat /\ m.seq \in Nat /\ m.base \in Nat /\ RTP_SEQMOD \in Nat
  BY <1>1, Windows DEF Seqs
<1>3. Goal([m |-> init, r |-> 1])
  <2> DEFINE n == [init EXCEPT !.packets = @ + 1]
  <2>1. init = Rec(m.ref, 0, seq, seq, RTP_SEQMOD + 1, 0, 0, 0, 0)
    BY DEF rtp_seq_init, Rec
  <2>2. n = Rec(m.ref, 0, seq, seq, RTP_SEQMOD + 1, 0, 1, 0, 0)
    BY <2>1 DEF Rec
  <2> HIDE DEF n
  <2>3. n \in Member /\ n.ref = m.ref
    BY <1>1, <1>d, <2>2 DEF Rec, Member
  <2>4. Counted(n)
    BY <1>1, <1>d, <2>2 DEF Rec, Counted, extseq, expected
  <2> QED
    BY <2>3, <2>4 DEF n
<1>4. CASE m.probation > 0 /\ m.seq + 1 = seq
  <2>1. CASE m.probation = 1
    <3>1. u = [m |-> rtp_seq_init([m EXCEPT !.seq = seq], seq), r |-> 1]
      BY <1>4, <2>1 DEF rtp_seq_update
    <3>2. rtp_seq_init([m EXCEPT !.seq = seq], seq) = init
      BY DEF rtp_seq_init, Member
    <3> QED
      BY <1>3, <3>1, <3>2
  <2>2. CASE m.probation # 1
    <3>1. u = [m |-> [m EXCEPT !.seq = seq, !.probation = @ - 1], r |-> 0]
      BY <1>4, <2>2 DEF rtp_seq_update
    <3> DEFINE n == [u.m EXCEPT !.packets = @ + u.r]
    <3>2. u.m = Rec(m.ref, m.probation - 1, seq, m.base, m.bad, m.cycles, m.packets,
                    m.packets0, m.expected0) /\ u.r = 0
      <4>1. u.m = [[m EXCEPT !.seq = seq] EXCEPT !.probation = m.probation - 1] /\ u.r = 0
        BY <3>1
      <4>2. [m EXCEPT !.seq = seq] = Rec(m.ref, m.probation, seq, m.base, m.bad, m.cycles,
                                         m.packets, m.packets0, m.expected0)
        BY <1>m DEF Rec
      <4> DEFINE p == m.probation - 1
      <4> HIDE DEF p
      <4>3. [Rec(m.ref, m.probation, seq, m.base, m.bad, m.cycles, m.packets, m.packets0,
                 m.expected0) EXCEPT !.probation = p]
              = Rec(m.ref, p, seq, m.base, m.bad, m.cycles, m.packets, m.packets0,
                    m.expected0)
        BY DEF Rec
      <4> QED
        BY ONLY <4>1, <4>2, <4>3, Zenon DEF p
    <3>3. n = Rec(m.ref, m.probation - 1, seq, m.base, m.bad, m.cycles, m.packets,
                  m.packets0, m.expected0)
      BY <1>1, <3>2 DEF Rec
    <3> HIDE DEF n
    <3>4. n \in Member /\ n.ref = m.ref
      BY <1>1, <1>4, <2>2, <3>3 DEF Rec, Member
    <3>5. m.probation - 1 > 0 /\ m.packets = 0
      BY <1>1, <1>4, <2>2 DEF Counted
    <3>6. Counted(n)
      BY <1>1, <3>3, <3>5 DEF Rec, Counted
    <3> QED
      BY <3>4, <3>6 DEF n
  <2> QED
    BY <2>1, <2>2
<1>5. CASE m.probation > 0 /\ m.seq + 1 # seq
  <2>1. u = [m |-> [m EXCEPT !.seq = seq, !.probation = RTP_PROBATION], r |-> 0]
    BY <1>5 DEF rtp_seq_update
  <2> DEFINE n == [u.m EXCEPT !.packets = @ + u.r]
  <2>2. u.m = Rec(m.ref, RTP_PROBATION, seq, m.base, m.bad, m.cycles, m.packets,
                  m.packets0, m.expected0) /\ u.r = 0
    <3>1. u.m = [[m EXCEPT !.seq = seq] EXCEPT !.probation = RTP_PROBATION] /\ u.r = 0
      BY <2>1
    <3>2. [m EXCEPT !.seq = seq] = Rec(m.ref, m.probation, seq, m.base, m.bad, m.cycles,
                                       m.packets, m.packets0, m.expected0)
      BY <1>m DEF Rec
    <3>3. [Rec(m.ref, m.probation, seq, m.base, m.bad, m.cycles, m.packets, m.packets0,
               m.expected0) EXCEPT !.probation = RTP_PROBATION]
            = Rec(m.ref, RTP_PROBATION, seq, m.base, m.bad, m.cycles, m.packets, m.packets0,
                  m.expected0)
      BY DEF Rec
    <3> QED
      BY ONLY <3>1, <3>2, <3>3, Zenon
  <2>3. n = Rec(m.ref, RTP_PROBATION, seq, m.base, m.bad, m.cycles, m.packets,
                m.packets0, m.expected0)
    BY <1>1, <2>2 DEF Rec
  <2> HIDE DEF n
  <2>4. n \in Member /\ n.ref = m.ref
    BY <1>1, <2>3, Windows DEF Rec, Member
  <2>5. RTP_PROBATION > 0 /\ RTP_PROBATION # 0 /\ m.packets = 0
    BY <1>1, <1>5, Windows DEF Counted
  <2>6. Counted(n)
    BY <1>1, <2>3, <2>5 DEF Rec, Counted
  <2> QED
    BY <2>4, <2>6 DEF n
<1>6. CASE m.probation = 0 /\ delta < MEMBER_DROPOUT
  <2> DEFINE cycles == IF seq < m.seq THEN m.cycles + RTP_SEQMOD ELSE m.cycles
             n == [u.m EXCEPT !.packets = @ + u.r]
  <2>0. ~(m.probation > 0)
    BY <1>6
  <2>1. u = [m |-> [m EXCEPT !.seq = seq,
                    !.cycles = IF seq < m.seq THEN @ + RTP_SEQMOD ELSE @], r |-> 1]
    BY <1>2, <1>6, <2>0, Windows DEF rtp_seq_update, Seqs
  <2>2. u.m = Rec(m.ref, 0, seq, m.base, m.bad, cycles, m.packets, m.packets0, m.expected0)
        /\ u.r = 1
    <3>1. u.m = [[m EXCEPT !.seq = seq] EXCEPT !.cycles = cycles] /\ u.r = 1
      BY <2>1
    <3> HIDE DEF cycles
    <3>2. [m EXCEPT !.seq = seq] = Rec(m.ref, m.probation, seq, m.base, m.bad, m.cycles,
                                       m.packets, m.packets0, m.expected0)
      BY <1>m DEF Rec
    <3>3. [Rec(m.ref, m.probation, seq, m.base, m.bad, m.cycles, m.packets, m.packets0,
               m.expected0) EXCEPT !.cycles = cycles]
            = Rec(m.ref, m.probation, seq, m.base, m.bad, cycles, m.packets, m.packets0,
                  m.expected0)
      BY DEF Rec
    <3> QED
      BY ONLY <1>6, <3>1, <3>2, <3>3, Zenon
  <2>3. n = Rec(m.ref, 0, seq, m.base, m.bad, cycles, m.packets + 1, m.packets0, m.expected0)
    BY <1>1, <2>2 DEF Rec
  <2>4. cycles \in Nat /\ cycles + seq >= m.cycles + m.seq
    BY <1>1, <1>2, <1>d DEF Seqs
  <2> HIDE DEF n, cycles
  <2>5. n \in Member /\ n.ref = m.ref
    BY <1>1, <2>3, <2>4 DEF Rec, Member
  <2>6. Counted(n)
    BY <1>1, <1>c, <1>d, <1>6, <2>3, <2>4 DEF Rec, Counted, extseq, expected
  <2> QED
    BY <2>5, <2>6 DEF n
<1>7. CASE m.probation = 0 /\ delta >= MEMBER_DROPOUT /\ delta <= RTP_SEQMOD - MEMBER_MISORDER
  <2>0. ~(delta < MEMBER_DROPOUT) /\ ~(m.probation > 0)
    BY <1>2, <1>7, Windows DEF Seqs
  <2>1. CASE m.bad + 1 = seq
    <3>1. u = [m |-> init, r |-> 1]
      BY <1>7, <2>0, <2>1 DEF rtp_seq_update
    <3> QED
      BY <1>3, <3>1
  <2>2. CASE m.bad + 1 # seq
    <3>1. u = [m |-> [m EXCEPT !.bad = seq], r |-> 0]
      BY <1>7, <2>0, <2>2 DEF rtp_seq_update
    <3> DEFINE n == [u.m EXCEPT !.packets = @ + u.r]
    <3>2. u.m = Rec(m.ref, 0, m.seq, m.base, seq, m.cycles, m.packets, m.packets0,
                    m.expected0) /\ u.r = 0
      BY <1>m, <1>7, <3>1 DEF Rec
    <3>3. n = Rec(m.ref, 0, m.seq, m.base, seq, m.cycles, m.packets, m.packets0, m.expected0)
      BY <1>1, <3>2 DEF Rec
    <3> HIDE DEF n
    <3>4. n \in Member /\ n.ref = m.ref
      BY <1>1, <1>d, <3>3 DEF Rec, Member
    <3>5. Counted(n)
      BY <1>1, <1>c, <1>d, <1>7, <3>3 DEF Rec, Counted, extseq, expected
    <3> QED
      BY <3>4, <3>5 DEF n
  <2> QED
    BY <2>1, <2>2
<1>8. CASE /\ ~(m.probation > 0) /\ ~(m.probation = 0 /\ delta < MEMBER_DROPOUT)
           /\ ~(m.probation = 0 /\ delta >= MEMBER_DROPOUT
                /\ delta <= RTP_SEQMOD - MEMBER_MISORDER)
  <2>1. u = [m |-> m, r |-> 1]
    BY <1>8 DEF rtp_seq_update
  <2> DEFINE n == [u.m EXCEPT !.packets = @ + u.r]
  <2>2. n = Rec(m.ref, m.probation, m.seq, m.base, m.bad, m.cycles, m.packets + 1, m.packets0,
                m.expected0)
    BY <1>1, <1>m, <2>1 DEF Rec
  <2> HIDE DEF n
  <2>3. n \in Member /\ n.ref = m.ref
    BY <1>1, <2>2 DEF Rec, Member
  <2>4. m.probation = 0
    BY <1>1, <1>8
  <2>5. Counted(n)
    BY <1>1, <1>c, <1>d, <2>2, <2>4 DEF Rec, Counted, extseq, expected
  <2> QED
    BY <2>3, <2>5 DEF n
<1> QED
  BY <1>4, <1>5, <1>6, <1>7, <1>8

\* Less than 256 times as much.
LEMMA Quotient ==
  ASSUME NEW a \in Nat, NEW b \in Nat, b > 0, a < 256 * b
  PROVE  a \div b \in 0..255
  OBVIOUS

\* What a report says of a member that was counted.
LEMMA FractionFits ==
  ASSUME NEW m \in Member, Counted(m), m.packets > 0
  PROVE  extseq(m) >= m.base /\ rtcp_report_block(m).fraction \in 0..255
<1> DEFINE ei == expected(m) - m.expected0
           li == ei - (m.packets - m.packets0)
<1>1. m.probation = 0
  BY DEF Member, Counted
<1>2. ei \in Nat /\ li \in Int /\ (ei > 0 => li < ei)
  BY <1>1 DEF Member, Counted, expected, extseq, Seqs
<1>3. CASE li < 0 \/ ei = 0
  BY <1>1, <1>3 DEF Counted, rtcp_report_block
<1>4. CASE ~(li < 0 \/ ei = 0)
  <2>1. li * 256 \in Nat /\ ei > 0 /\ li * 256 < 256 * ei
    BY <1>2, <1>4
  <2>2. (li * 256) \div ei \in 0..255
    BY <1>2, <2>1, Quotient
  <2> QED
    BY <1>1, <1>4, <2>2 DEF Counted, rtcp_report_block
<1> QED
  BY <1>3, <1>4

-----------------------------------------------------------------------------
\* Sessions.

\* A session: its two lists, and its members by SSRC.
Session == [members : Seq(Ssrcs), senders : Seq(Ssrcs), mem : [Ssrcs -> Member]]

\* A list without repetitions.
Distinct(l) == \A i, j \in 1..Len(l) : l[i] = l[j] => i = j

\* 1 or 0.
One(b) == IF b THEN 1 ELSE 0

\* The references to a member: one per list, and the session's to its own.
Refs(members, senders, s) ==
  One(s \in Range(members)) + One(s \in Range(senders)) + One(s = self)

\* Nobody is listed twice; who sends is a member, so that rtp_member_fetch() does not
\* make a second object for one that is still listed.
SessionOK(c) ==
  /\ c \in Session
  /\ Distinct(c.members) /\ Distinct(c.senders)
  /\ Range(c.senders) \subseteq Range(c.members)
  /\ \A s \in Ssrcs : Counted(c.mem[s])
  /\ \A s \in Ssrcs : c.mem[s].ref = Refs(c.members, c.senders, s)

\* A part of a sequence, which may be empty.
LEMMA Slice ==
  ASSUME NEW S, NEW l \in Seq(S), NEW a \in 1 .. Len(l) + 1, NEW b \in a - 1 .. Len(l)
  PROVE  /\ SubSeq(l, a, b) \in Seq(S) /\ Len(SubSeq(l, a, b)) = b - a + 1
         /\ \A j \in 1 .. b - a + 1 : SubSeq(l, a, b)[j] = l[a + j - 1]
<1>1. Len(l) \in Nat /\ a \in Int /\ b \in Int /\ \A i \in a..b : l[i] \in S
  OBVIOUS
<1>2. /\ SubSeq(l, a, b) \in Seq(S)
      /\ Len(SubSeq(l, a, b)) = IF a <= b THEN b - a + 1 ELSE 0
      /\ \A j \in 1 .. b - a + 1 : SubSeq(l, a, b)[j] = l[a + j - 1]
  BY <1>1, SubSeqProperties
<1>3. a <= b \/ b - a + 1 = 0
  OBVIOUS
<1> QED
  BY <1>1, <1>2, <1>3

\* A list with one more.
LEMMA ListAdd ==
  ASSUME NEW l \in Seq(Ssrcs), NEW s \in Ssrcs, Distinct(l), s \notin Range(l)
  PROVE  /\ Append(l, s) \in Seq(Ssrcs) /\ Distinct(Append(l, s))
         /\ Range(Append(l, s)) = Range(l) \cup {s}
<1>1. /\ Append(l, s) \in Seq(Ssrcs) /\ Len(Append(l, s)) = Len(l) + 1
      /\ Append(l, s)[Len(l) + 1] = s /\ \A i \in 1..Len(l) : Append(l, s)[i] = l[i]
      /\ Len(l) \in Nat /\ DOMAIN l = 1..Len(l) /\ DOMAIN Append(l, s) = 1 .. Len(l) + 1
  OBVIOUS
<1> DEFINE a == Append(l, s)
<1> HIDE DEF a
<1>2. \A i \in 1..Len(l) : l[i] # s
  BY <1>1 DEF Range
<1>3. Distinct(a)
  BY <1>1, <1>2 DEF Distinct, a
<1>4. Range(a) = Range(l) \cup {s}
  <2>1. \A i \in 1 .. Len(l) + 1 : i \in 1..Len(l) \/ i = Len(l) + 1
    BY <1>1
  <2>2. \A i \in 1 .. Len(l) : i \in 1..Len(l) + 1
    BY <1>1
  <2>3. Len(l) + 1 \in 1..Len(l) + 1
    BY <1>1
  <2> QED
    BY <1>1, <2>1, <2>2, <2>3 DEF Range, a
<1> QED
  BY <1>1, <1>3, <1>4 DEF a

\* A set of numbers that is not empty has a least one, which Min chooses.
LEMMA MinLeast ==
  ASSUME NEW I \in SUBSET Nat, I # {}
  PROVE  Min(I) \in I /\ \A i \in I : Min(I) <= i
<1>1. PICK x \in I : \A y \in I : ~(<<y, x>> \in OpToRel(<, Nat))
  BY WFMin, NatLessThanWellFounded
<1>2. \A y \in I : ~(y < x)
  BY <1>1 DEF OpToRel
<1>3. \A y \in I : x <= y
  BY <1>2
<1> QED
  BY <1>1, <1>3 DEF Min

\* A list without one of it.
LEMMA ListDelete ==
  ASSUME NEW l \in Seq(Ssrcs), NEW s \in Range(l), Distinct(l)
  PROVE  /\ RemoveFirst(l, s) \in Seq(Ssrcs) /\ Distinct(RemoveFirst(l, s))
         /\ Range(RemoveFirst(l, s)) = Range(l) \ {s}
<1> DEFINE I == {i \in 1..Len(l) : l[i] = s}
           k == Min(I)
           a == RemoveAt(l, k)
<1>1. Len(l) \in Nat /\ DOMAIN l = 1..Len(l)
  OBVIOUS
<1>2. PICK i \in 1..Len(l) : l[i] = s
  BY <1>1 DEF Range
<1>3. k \in 1..Len(l) /\ l[k] = s
  <2>1. I \in SUBSET Nat /\ I # {}
    BY <1>2
  <2> HIDE DEF I
  <2>2. k \in I
    BY <2>1, MinLeast
  <2> QED
    BY <2>2 DEF I
<1>4. RemoveFirst(l, s) = a
  BY <1>2 DEF RemoveFirst, SelectInSeq
<1> HIDE DEF k
<1>5. /\ a \in Seq(Ssrcs) /\ Len(a) = Len(l) - 1
      /\ \A j \in 1 .. Len(l) - 1 : a[j] = IF j < k THEN l[j] ELSE l[j + 1]
  <2> DEFINE b == SubSeq(l, 1, k - 1)
             c == SubSeq(l, k + 1, Len(l))
  <2>1. /\ b \in Seq(Ssrcs) /\ Len(b) = k - 1
        /\ \A j \in 1 .. k - 1 : b[j] = l[j]
    BY <1>1, <1>3
  <2>2. /\ c \in Seq(Ssrcs) /\ Len(c) = Len(l) - k
        /\ \A j \in 1 .. Len(l) - k : c[j] = l[k + j]
    <3>1. k + 1 \in 1 .. Len(l) + 1 /\ Len(l) \in (k + 1) - 1 .. Len(l)
      BY <1>1, <1>3
    <3>2. /\ c \in Seq(Ssrcs) /\ Len(c) = Len(l) - (k + 1) + 1
          /\ \A j \in 1 .. Len(l) - (k + 1) + 1 : c[j] = l[(k + 1) + j - 1]
      BY <3>1, Slice
    <3> HIDE DEF c
    <3>3. k \in Int /\ Len(l) \in Int
      BY <1>1, <1>3
    <3>4. ASSUME NEW j \in 1 .. Len(l) - k PROVE c[j] = l[k + j]
      <4>1. j \in 1 .. Len(l) - (k + 1) + 1 /\ (k + 1) + j - 1 = k + j
        BY <3>3
      <4> QED
        BY <3>2, <4>1
    <3> QED
      BY <3>2, <3>3, <3>4
  <2>3. a = b \o c
    BY DEF RemoveAt
  <2> HIDE DEF a, b, c
  <2>4. a \in Seq(Ssrcs) /\ Len(a) = Len(l) - 1
    <3>1. a \in Seq(Ssrcs) /\ Len(a) = Len(b) + Len(c)
      BY <2>1, <2>2, <2>3, ConcatProperties
    <3> QED
      BY <1>1, <1>3, <2>1, <2>2, <3>1
  <2>5. ASSUME NEW j \in 1 .. Len(l) - 1 PROVE a[j] = IF j < k THEN l[j] ELSE l[j + 1]
    <3>1. CASE j < k
      <4>1. j \in 1 .. k - 1
        BY <1>3, <3>1
      <4>2. a[j] = b[j]
        BY <1>3, <2>1, <2>2, <2>3, <4>1
      <4> QED
        BY <2>1, <3>1, <4>1, <4>2
    <3>2. CASE ~(j < k)
      <4>1. j - (k - 1) \in 1 .. Len(l) - k /\ k + (j - (k - 1)) = j + 1
        BY <1>1, <1>3, <3>2
      <4>2. a[j] = c[j - (k - 1)]
        BY <1>3, <2>1, <2>2, <2>3, <4>1
      <4> QED
        BY <2>2, <3>2, <4>1, <4>2
    <3> QED
      BY <3>1, <3>2
  <2> QED
    BY <2>4, <2>5
<1>6. DOMAIN a = 1 .. Len(l) - 1
  BY <1>1, <1>5
<1> HIDE DEF a
<1>7. Distinct(a)
  BY <1>1, <1>3, <1>5 DEF Distinct
<1>8. ASSUME NEW x \in Range(a) PROVE x \in Range(l) \ {s}
  <2>1. PICK j \in 1 .. Len(l) - 1 : x = a[j]
    BY <1>6 DEF Range
  <2>2. CASE j < k
    <3>1. j \in 1..Len(l) /\ j # k /\ x = l[j]
      BY <1>1, <1>3, <1>5, <2>1, <2>2
    <3> QED
      BY <1>1, <1>3, <3>1 DEF Range, Distinct
  <2>3. CASE ~(j < k)
    <3>1. j + 1 \in 1..Len(l) /\ j + 1 # k /\ x = l[j + 1]
      BY <1>1, <1>3, <1>5, <2>1, <2>3
    <3> QED
      BY <1>1, <1>3, <3>1 DEF Range, Distinct
  <2> QED
    BY <2>2, <2>3
<1>9. ASSUME NEW x \in Range(l) \ {s} PROVE x \in Range(a)
  <2>1. PICK j \in 1 .. Len(l) : x = l[j]
    BY <1>1 DEF Range
  <2>2. j # k
    BY <1>3, <2>1
  <2>3. CASE j < k
    <3>1. j \in 1 .. Len(l) - 1 /\ a[j] = x
      BY <1>1, <1>3, <1>5, <2>1, <2>3
    <3> QED
      BY <1>6, <3>1 DEF Range
  <2>4. CASE j > k
    <3>0. j - 1 \in 1 .. Len(l) - 1 /\ ~(j - 1 < k) /\ (j - 1) + 1 = j
      BY <1>1, <1>3, <2>4
    <3>1. j - 1 \in 1 .. Len(l) - 1 /\ a[j - 1] = x
      BY <1>5, <2>1, <3>0
    <3> QED
      BY <1>6, <3>1 DEF Range
  <2> QED
    BY <1>1, <1>3, <2>2, <2>3, <2>4
<1> QED
  BY <1>4, <1>5, <1>7, <1>8, <1>9

\* A session by its fields, and a member with so many references.
Ses(members, senders, mem) == [members |-> members, senders |-> senders, mem |-> mem]
WithRef(m, n) == [m EXCEPT !.ref = n]

\* The reference count has no part in what a report says.
LEMMA WithRefOK ==
  ASSUME NEW m \in Member, NEW n \in Nat
  PROVE  /\ WithRef(m, n) \in Member /\ WithRef(m, n).ref = n
         /\ Counted(m) => Counted(WithRef(m, n))
<1>1. WithRef(m, n) \in Member /\ WithRef(m, n).ref = n
  BY DEF WithRef, Member
<1>2. /\ WithRef(m, n).probation = m.probation /\ WithRef(m, n).packets = m.packets
      /\ WithRef(m, n).packets0 = m.packets0 /\ WithRef(m, n).expected0 = m.expected0
      /\ WithRef(m, n).cycles = m.cycles /\ WithRef(m, n).seq = m.seq
      /\ WithRef(m, n).base = m.base
  BY DEF WithRef, Member
<1> QED
  BY <1>1, <1>2 DEF Counted, extseq, expected

\* One member changed.
LEMMA SesPut ==
  ASSUME NEW c \in Session, NEW s \in Ssrcs, NEW v \in Member
  PROVE  /\ [c EXCEPT !.mem[s] = v] = Ses(c.members, c.senders, [c.mem EXCEPT ![s] = v])
         /\ [c EXCEPT !.mem[s] = v] \in Session
  BY DEF Session, Ses

\* A session put together from its fields.
LEMMA SesType ==
  ASSUME NEW a \in Seq(Ssrcs), NEW b \in Seq(Ssrcs), NEW m \in [Ssrcs -> Member]
  PROVE  /\ Ses(a, b, m) \in Session /\ Ses(a, b, m).members = a /\ Ses(a, b, m).senders = b
         /\ Ses(a, b, m).mem = m
  BY DEF Session, Ses

\* A reference more, and one less.
LEMMA AddRef ==
  ASSUME NEW c \in Session, NEW s \in Ssrcs
  PROVE  rtp_member_addref(c, s)
           = Ses(c.members, c.senders,
                 [c.mem EXCEPT ![s] = WithRef(c.mem[s], c.mem[s].ref + 1)])
<1>1. c.mem[s] \in Member /\ c.mem[s].ref \in Nat
  BY DEF Session, Member
<1>2. rtp_member_addref(c, s) = [c EXCEPT !.mem[s] = WithRef(c.mem[s], c.mem[s].ref + 1)]
  BY <1>1 DEF rtp_member_addref, WithRef
<1>3. WithRef(c.mem[s], c.mem[s].ref + 1) \in Member
  BY <1>1, WithRefOK
<1> QED
  BY <1>2, <1>3, SesPut

\* A reference less; the last one frees the member.
LEMMA Release ==
  ASSUME NEW c \in Session, NEW s \in Ssrcs, c.mem[s].ref >= 1
  PROVE  rtp_member_release(c, s)
           = Ses(c.members, c.senders,
                 [c.mem EXCEPT ![s] = IF c.mem[s].ref = 1 THEN NoMember
                                      ELSE WithRef(c.mem[s], c.mem[s].ref - 1)])
<1> DEFINE v == IF c.mem[s].ref = 1 THEN NoMember ELSE WithRef(c.mem[s], c.mem[s].ref - 1)
<1>1. c.mem[s] \in Member /\ c.mem[s].ref \in Nat
  BY DEF Session, Member
<1>2. rtp_member_release(c, s) = [c EXCEPT !.mem[s] = v]
  BY DEF rtp_member_release, WithRef
<1>3. v \in Member
  BY <1>1, WithRefOK, NewMember
<1> HIDE DEF v
<1>4. rtp_member_release(c, s) = Ses(c.members, c.senders, [c.mem EXCEPT ![s] = v])
  BY <1>2, <1>3, SesPut
<1> QED
  BY <1>4 DEF v

\* Whoever is listed and released once stays right.
LEMMA Listing ==
  ASSUME NEW c \in Session, NEW s \in Ssrcs
  PROVE  /\ rtp_member_list_add(c, "members", s)
              = Ses(Append(c.members, s), c.senders,
                    [c.mem EXCEPT ![s] = WithRef(c.mem[s], c.mem[s].ref + 1)])
         /\ rtp_member_list_add(c, "senders", s)
              = Ses(c.members, Append(c.senders, s),
                    [c.mem EXCEPT ![s] = WithRef(c.mem[s], c.mem[s].ref + 1)])
<1> DEFINE d == [c EXCEPT !["members"] = Append(@, s)]
           e == [c EXCEPT !["senders"] = Append(@, s)]
<1>1. /\ d \in Session /\ d.members = Append(c.members, s) /\ d.senders = c.senders
      /\ d.mem = c.mem
  <2>1. Append(c.members, s) \in Seq(Ssrcs) /\ d = [c EXCEPT !["members"] = Append(c.members, s)]
    BY DEF Session
  <2> QED
    BY <2>1 DEF Session
<1>2. /\ e \in Session /\ e.members = c.members /\ e.senders = Append(c.senders, s)
      /\ e.mem = c.mem
  <2>1. Append(c.senders, s) \in Seq(Ssrcs) /\ e = [c EXCEPT !["senders"] = Append(c.senders, s)]
    BY DEF Session
  <2> QED
    BY <2>1 DEF Session
<1>3. rtp_member_list_add(c, "members", s) = rtp_member_addref(d, s)
      /\ rtp_member_list_add(c, "senders", s) = rtp_member_addref(e, s)
  BY DEF rtp_member_list_add
<1> HIDE DEF d, e
<1> QED
  BY <1>1, <1>2, <1>3, AddRef

\* rtp_member_list_delete() of one that is listed.
LEMMA Delisting ==
  ASSUME NEW c \in Session, NEW s \in Ssrcs, c.mem[s].ref >= 1
  PROVE  LET v == IF c.mem[s].ref = 1 THEN NoMember ELSE WithRef(c.mem[s], c.mem[s].ref - 1) IN
         /\ s \in Range(c.members) /\ RemoveFirst(c.members, s) \in Seq(Ssrcs) =>
              rtp_member_list_delete(c, "members", s)
                = Ses(RemoveFirst(c.members, s), c.senders, [c.mem EXCEPT ![s] = v])
         /\ s \in Range(c.senders) /\ RemoveFirst(c.senders, s) \in Seq(Ssrcs) =>
              rtp_member_list_delete(c, "senders", s)
                = Ses(c.members, RemoveFirst(c.senders, s), [c.mem EXCEPT ![s] = v])
         /\ s \notin Range(c.members) => rtp_member_list_delete(c, "members", s) = c
         /\ s \notin Range(c.senders) => rtp_member_list_delete(c, "senders", s) = c
<1> DEFINE v == IF c.mem[s].ref = 1 THEN NoMember ELSE WithRef(c.mem[s], c.mem[s].ref - 1)
<1>0. c["members"] = c.members /\ c["senders"] = c.senders
  BY DEF Session
<1>1. ASSUME s \in Range(c.members), RemoveFirst(c.members, s) \in Seq(Ssrcs)
      PROVE  rtp_member_list_delete(c, "members", s)
                = Ses(RemoveFirst(c.members, s), c.senders, [c.mem EXCEPT ![s] = v])
  <2> DEFINE d == [c EXCEPT !["members"] = RemoveFirst(@, s)]
  <2>1. /\ d \in Session /\ d.members = RemoveFirst(c.members, s) /\ d.senders = c.senders
        /\ d.mem = c.mem
    BY <1>1 DEF Session
  <2>2. rtp_member_list_delete(c, "members", s) = rtp_member_release(d, s)
    BY <1>0, <1>1 DEF rtp_member_list_delete, rtp_member_list_find
  <2> HIDE DEF d
  <2> QED
    BY <2>1, <2>2, Release
<1>2. ASSUME s \in Range(c.senders), RemoveFirst(c.senders, s) \in Seq(Ssrcs)
      PROVE  rtp_member_list_delete(c, "senders", s)
                = Ses(c.members, RemoveFirst(c.senders, s), [c.mem EXCEPT ![s] = v])
  <2> DEFINE d == [c EXCEPT !["senders"] = RemoveFirst(@, s)]
  <2>1. /\ d \in Session /\ d.senders = RemoveFirst(c.senders, s) /\ d.members = c.members
        /\ d.mem = c.mem
    BY <1>2 DEF Session
  <2>2. rtp_member_list_delete(c, "senders", s) = rtp_member_release(d, s)
    BY <1>0, <1>2 DEF rtp_member_list_delete, rtp_member_list_find
  <2> HIDE DEF d
  <2> QED
    BY <2>1, <2>2, Release
<1>3. /\ s \notin Range(c.members) => rtp_member_list_delete(c, "members", s) = c
      /\ s \notin Range(c.senders) => rtp_member_list_delete(c, "senders", s) = c
  BY <1>0 DEF rtp_member_list_delete, rtp_member_list_find
<1> QED
  BY <1>1, <1>2, <1>3

\* rtp_member_fetch() of another participant.
LEMMA FetchOK ==
  ASSUME NEW c, SessionOK(c), NEW s \in Ssrcs, s # self
  PROVE  LET d == rtp_member_fetch(c, s) IN SessionOK(d) /\ s \in Range(d.members)
                                            /\ d.senders = c.senders
<1>0. c \in Session /\ c["members"] = c.members
  BY DEF SessionOK, Session
<1>1. CASE s \in Range(c.members)
  <2>1. rtp_member_fetch(c, s) = c
    BY <1>0, <1>1 DEF rtp_member_fetch, rtp_member_list_find
  <2> QED
    BY <1>1, <2>1
<1>2. CASE s \notin Range(c.members)
  <2> DEFINE c1 == [c EXCEPT !.mem[s] = rtp_member_create]
             m1 == [c.mem EXCEPT ![s] = rtp_member_create]
             c2 == rtp_member_list_add(c1, "members", s)
             a == Append(c.members, s)
             m2 == [m1 EXCEPT ![s] = WithRef(rtp_member_create, 2)]
             m3 == [m2 EXCEPT ![s] = WithRef(WithRef(rtp_member_create, 2), 1)]
             c3 == rtp_member_release(c2, s)
  <2>1. rtp_member_fetch(c, s) = c3
    BY <1>0, <1>2 DEF rtp_member_fetch, rtp_member_list_find
  <2>2. c1 = Ses(c.members, c.senders, m1) /\ c1 \in Session
    BY <1>0, NewMember, SesPut
  <2>3. c1.members = c.members /\ c1.senders = c.senders /\ c1.mem = m1
    BY <2>2 DEF Ses
  <2>4. m1 \in [Ssrcs -> Member] /\ m1[s] = rtp_member_create
    BY <1>0, NewMember DEF Session
  <2>5. c2 = Ses(a, c.senders, m2)
    <3>1. c2 = Ses(Append(c1.members, s), c1.senders,
                   [c1.mem EXCEPT ![s] = WithRef(c1.mem[s], c1.mem[s].ref + 1)])
      BY <2>2, Listing
    <3>2. rtp_member_create.ref + 1 = 2
      BY NewMember
    <3> HIDE DEF c1, m1
    <3> QED
      BY <2>3, <2>4, <3>1, <3>2
  <2>6. WithRef(rtp_member_create, 2) \in Member /\ WithRef(rtp_member_create, 2).ref = 2
    BY NewMember, WithRefOK
  <2>7. m2 \in [Ssrcs -> Member] /\ m2[s] = WithRef(rtp_member_create, 2)
    BY <2>4, <2>6
  <2>8. /\ a \in Seq(Ssrcs) /\ Distinct(a) /\ Range(a) = Range(c.members) \cup {s}
        /\ c.senders \in Seq(Ssrcs)
    BY <1>0, <1>2, ListAdd DEF SessionOK, Session
  <2>9. c2 \in Session /\ c2.members = a /\ c2.senders = c.senders /\ c2.mem = m2
    <3> HIDE DEF c2, m2, a
    <3> QED
      BY <2>5, <2>7, <2>8, SesType
  <2>10. c3 = Ses(a, c.senders, m3)
    <3>1. c2.mem[s].ref = 2
      BY <2>6, <2>7, <2>9
    <3>2. c3 = Ses(c2.members, c2.senders,
                   [c2.mem EXCEPT ![s] = IF c2.mem[s].ref = 1 THEN NoMember
                                         ELSE WithRef(c2.mem[s], c2.mem[s].ref - 1)])
      <4> HIDE DEF c2
      <4>1. c2.mem[s].ref >= 1
        BY <3>1
      <4> QED
        BY <2>9, <4>1, Release DEF c3
    <3> HIDE DEF c2, m2
    <3> QED
      BY <2>7, <2>9, <3>1, <3>2
  <2>11. /\ WithRef(WithRef(rtp_member_create, 2), 1) \in Member
         /\ Counted(WithRef(WithRef(rtp_member_create, 2), 1))
         /\ WithRef(WithRef(rtp_member_create, 2), 1).ref = 1
    BY <2>6, NewMember, WithRefOK
  <2> DEFINE v == WithRef(WithRef(rtp_member_create, 2), 1)
  <2>12. m3 \in [Ssrcs -> Member] /\ m3[s] = v /\ \A x \in Ssrcs : x # s => m3[x] = c.mem[x]
    BY <2>4, <2>7, <2>11
  <2> HIDE DEF m3, v, c3, a
  <2>13. c3 \in Session /\ c3.members = a /\ c3.senders = c.senders /\ c3.mem = m3
    BY <2>8, <2>10, <2>12, SesType
  <2>14. \A x \in Ssrcs : Counted(m3[x])
    BY <2>11, <2>12 DEF SessionOK, v
  <2>15. s \notin Range(c.senders)
    BY <1>2 DEF SessionOK
  <2>16. \A x \in Ssrcs : m3[x].ref = Refs(a, c.senders, x)
    <3>1. m3[s].ref = 1 /\ Refs(a, c.senders, s) = 1
      BY <2>8, <2>11, <2>12, <2>15 DEF v, Refs, One
    <3>2. ASSUME NEW x \in Ssrcs, x # s PROVE m3[x].ref = Refs(a, c.senders, x)
      BY <2>8, <2>12, <3>2 DEF SessionOK, Refs, One
    <3> QED
      BY <3>1, <3>2
  <2>17. SessionOK(c3)
    BY <2>8, <2>13, <2>14, <2>16 DEF SessionOK
  <2> QED
    BY <2>1, <2>8, <2>13, <2>17
<1> QED
  BY <1>1, <1>2

\* rtp_sender_fetch() of another participant.
LEMMA SenderOK ==
  ASSUME NEW c, SessionOK(c), NEW s \in Ssrcs, s # self
  PROVE  SessionOK(rtp_sender_fetch(c, s)) /\ s \in Range(rtp_sender_fetch(c, s).senders)
<1>0. c \in Session /\ c["senders"] = c.senders
  BY DEF SessionOK, Session
<1>1. CASE s \in Range(c.senders)
  <2>1. rtp_sender_fetch(c, s) = c
    BY <1>0, <1>1 DEF rtp_sender_fetch, rtp_member_list_find
  <2> QED
    BY <1>1, <2>1
<1>2. CASE s \notin Range(c.senders)
  <2> DEFINE d == rtp_member_fetch(c, s)
             e == rtp_member_list_add(d, "senders", s)
             b == Append(d.senders, s)
             v == WithRef(d.mem[s], d.mem[s].ref + 1)
             m == [d.mem EXCEPT ![s] = v]
  <2>1. rtp_sender_fetch(c, s) = e
    BY <1>0, <1>2 DEF rtp_sender_fetch, rtp_member_list_find
  <2>2. SessionOK(d) /\ s \in Range(d.members) /\ d.senders = c.senders
    BY FetchOK
  <2> HIDE DEF d
  <2>3. d \in Session
    BY <2>2 DEF SessionOK
  <2>4. e = Ses(d.members, b, m)
    BY <2>3, Listing
  <2>5. b \in Seq(Ssrcs) /\ Distinct(b) /\ Range(b) = Range(d.senders) \cup {s}
        /\ d.members \in Seq(Ssrcs)
    BY <1>2, <2>2, <2>3, ListAdd DEF SessionOK, Session
  <2>6. d.mem[s] \in Member /\ d.mem[s].ref \in Nat /\ Counted(d.mem[s])
    BY <2>2, <2>3 DEF SessionOK, Session, Member
  <2>7. v \in Member /\ Counted(v) /\ v.ref = d.mem[s].ref + 1
    <3>1. d.mem[s].ref + 1 \in Nat
      BY <2>6
    <3> QED
      BY <2>6, <3>1, WithRefOK
  <2> HIDE DEF v
  <2>8. m \in [Ssrcs -> Member] /\ m[s] = v /\ \A x \in Ssrcs : x # s => m[x] = d.mem[x]
    BY <2>3, <2>7 DEF Session
  <2> HIDE DEF m, b, e
  <2>9. e \in Session /\ e.members = d.members /\ e.senders = b /\ e.mem = m
    BY <2>4, <2>5, <2>8, SesType
  <2>10. \A x \in Ssrcs : Counted(m[x])
    BY <2>2, <2>7, <2>8 DEF SessionOK
  <2>11. \A x \in Ssrcs : m[x].ref = Refs(d.members, b, x)
    <3>1. m[s].ref = Refs(d.members, b, s)
      BY <1>2, <2>2, <2>5, <2>7, <2>8 DEF SessionOK, Refs, One
    <3>2. ASSUME NEW x \in Ssrcs, x # s PROVE m[x].ref = Refs(d.members, b, x)
      BY <2>2, <2>5, <2>8, <3>2 DEF SessionOK, Refs, One
    <3> QED
      BY <3>1, <3>2
  <2>12. SessionOK(e)
    BY <2>2, <2>5, <2>9, <2>10, <2>11 DEF SessionOK
  <2> QED
    BY <2>1, <2>5, <2>9, <2>12
<1> QED
  BY <1>1, <1>2

\* rtcp_input_rtp() of a packet of another participant.
LEMMA InputRtpOK ==
  ASSUME NEW c, SessionOK(c), NEW s \in Ssrcs, s # self, NEW seq \in Seqs
  PROVE  SessionOK(rtcp_input_rtp(c, s, seq))
<1> DEFINE d == rtp_sender_fetch(c, s)
           u == rtp_seq_update(d.mem[s], seq)
           v == [u.m EXCEPT !.packets = @ + u.r]
           e == [d EXCEPT !.mem[s] = v]
           m == [d.mem EXCEPT ![s] = v]
<1>1. rtcp_input_rtp(c, s, seq) = e
  BY DEF rtcp_input_rtp
<1>2. SessionOK(d)
  BY SenderOK
<1> HIDE DEF d
<1>3. d \in Session /\ d.mem[s] \in Member /\ Counted(d.mem[s])
  BY <1>2 DEF SessionOK, Session
<1> HIDE DEF u
<1>4. v \in Member /\ Counted(v) /\ v.ref = d.mem[s].ref
  BY <1>3, UpdateCounts DEF u
<1> HIDE DEF v
<1>5. e = Ses(d.members, d.senders, m)
  BY <1>3, <1>4, SesPut
<1>6. /\ m \in [Ssrcs -> Member] /\ m[s] = v /\ \A x \in Ssrcs : x # s => m[x] = d.mem[x]
      /\ d.members \in Seq(Ssrcs) /\ d.senders \in Seq(Ssrcs)
  BY <1>3, <1>4 DEF Session
<1> HIDE DEF m, e
<1>7. e \in Session /\ e.members = d.members /\ e.senders = d.senders /\ e.mem = m
  BY <1>5, <1>6, SesType
<1>8. \A x \in Ssrcs : Counted(m[x]) /\ m[x].ref = d.mem[x].ref
  BY <1>2, <1>4, <1>6 DEF SessionOK
<1> QED
  BY <1>1, <1>2, <1>7, <1>8 DEF SessionOK

\* The lists of a member that leaves are those without it.
LEMMA LeaveOK ==
  ASSUME NEW c, SessionOK(c), NEW s \in Ssrcs
  PROVE  SessionOK(rtp_member_list_delete(rtp_member_list_delete(c, "members", s), "senders", s))
<1> DEFINE d == rtp_member_list_delete(c, "members", s)
           e == rtp_member_list_delete(d, "senders", s)
           a == RemoveFirst(c.members, s)
           b == RemoveFirst(c.senders, s)
<1>0. /\ c \in Session /\ c.members \in Seq(Ssrcs) /\ c.senders \in Seq(Ssrcs)
      /\ c.mem \in [Ssrcs -> Member] /\ c.mem[s] \in Member /\ c.mem[s].ref \in Nat
  BY DEF SessionOK, Session, Member
<1>1. CASE s \notin Range(c.members)
  <2>1. s \notin Range(c.senders) /\ c["members"] = c.members /\ c["senders"] = c.senders
    BY <1>0, <1>1 DEF SessionOK, Session
  <2>2. d = c
    BY <1>1, <2>1 DEF rtp_member_list_delete, rtp_member_list_find
  <2>3. e = c
    BY <2>1, <2>2 DEF rtp_member_list_delete, rtp_member_list_find
  <2> QED
    BY <2>3
<1>2. CASE s \in Range(c.members)
  <2> DEFINE v == IF c.mem[s].ref = 1 THEN NoMember ELSE WithRef(c.mem[s], c.mem[s].ref - 1)
             m == [c.mem EXCEPT ![s] = v]
  <2>1. a \in Seq(Ssrcs) /\ Distinct(a) /\ Range(a) = Range(c.members) \ {s}
    BY <1>0, <1>2, ListDelete DEF SessionOK
  <2>2. c.mem[s].ref >= 1 /\ c.mem[s].ref = 1 + One(s \in Range(c.senders)) + One(s = self)
    BY <1>0, <1>2 DEF SessionOK, Refs, One
  <2>3. d = Ses(a, c.senders, m)
    BY <1>0, <1>2, <2>1, <2>2, Delisting
  <2>4. v \in Member /\ Counted(v) /\ v.ref = c.mem[s].ref - 1
    <3>1. Counted(c.mem[s])
      BY DEF SessionOK
    <3>2. c.mem[s].ref - 1 \in Nat
      BY <1>0, <2>2
    <3>3. CASE c.mem[s].ref = 1
      BY <3>3, NewMember
    <3>4. CASE c.mem[s].ref # 1
      BY <1>0, <3>1, <3>2, <3>4, WithRefOK
    <3> QED
      BY <3>3, <3>4
  <2> HIDE DEF v
  <2>5. m \in [Ssrcs -> Member] /\ m[s] = v /\ \A x \in Ssrcs : x # s => m[x] = c.mem[x]
    BY <1>0, <2>4
  <2> HIDE DEF m, a, d
  <2>6. d \in Session /\ d.members = a /\ d.senders = c.senders /\ d.mem = m
    BY <1>0, <2>1, <2>3, <2>5, SesType
  <2>7. \A x \in Ssrcs : Counted(m[x])
    BY <2>4, <2>5 DEF SessionOK
  <2>8. m[s].ref = One(s \in Range(c.senders)) + One(s = self)
    BY <1>0, <2>2, <2>4, <2>5 DEF One
  <2>9. \A x \in Ssrcs : x # s => m[x].ref = Refs(a, c.senders, x)
    BY <2>1, <2>5 DEF SessionOK, Refs, One
  <2>10. d["senders"] = d.senders
    BY <2>6 DEF Session
  <2>11. CASE s \notin Range(c.senders)
    <3>1. e = d
      BY <2>6, <2>10, <2>11 DEF rtp_member_list_delete, rtp_member_list_find
    <3>2. Range(c.senders) \subseteq Range(a) /\ s \notin Range(a)
      BY <2>1, <2>11 DEF SessionOK
    <3>3. m[s].ref = Refs(a, c.senders, s)
      BY <2>8, <2>11, <3>2 DEF Refs, One
    <3>4. \A x \in Ssrcs : m[x].ref = Refs(a, c.senders, x)
      BY <2>9, <3>3
    <3>5. Distinct(c.senders)
      BY DEF SessionOK
    <3>6. SessionOK(d)
      BY ONLY <2>1, <2>6, <2>7, <3>2, <3>4, <3>5 DEF SessionOK
    <3> QED
      BY <3>1, <3>6 DEF d
  <2>12. CASE s \in Range(c.senders)
    <3> DEFINE w == IF m[s].ref = 1 THEN NoMember ELSE WithRef(m[s], m[s].ref - 1)
               n == [m EXCEPT ![s] = w]
    <3>1. b \in Seq(Ssrcs) /\ Distinct(b) /\ Range(b) = Range(c.senders) \ {s}
      BY <1>0, <2>12, ListDelete DEF SessionOK
    <3>2. m[s] \in Member /\ m[s].ref = 1 + One(s = self) /\ m[s].ref >= 1 /\ Counted(m[s])
          /\ m[s].ref \in Nat
      BY <2>5, <2>7, <2>8, <2>12 DEF One
    <3>3. e = Ses(a, b, n)
      BY <2>6, <2>12, <3>1, <3>2, Delisting
    <3>4. w \in Member /\ Counted(w) /\ w.ref = One(s = self)
      <4>1. m[s].ref - 1 \in Nat /\ m[s].ref - 1 = One(s = self)
        BY <3>2 DEF One
      <4>2. CASE m[s].ref = 1
        BY <4>1, <4>2, NewMember
      <4>3. CASE m[s].ref # 1
        BY <3>2, <4>1, <4>3, WithRefOK
      <4> QED
        BY <4>2, <4>3
    <3> HIDE DEF w
    <3>5. n \in [Ssrcs -> Member] /\ n[s] = w /\ \A x \in Ssrcs : x # s => n[x] = m[x]
      BY <2>5, <3>4
    <3> HIDE DEF n, b, e
    <3>6. e \in Session /\ e.members = a /\ e.senders = b /\ e.mem = n
      BY <2>1, <3>1, <3>3, <3>5, SesType
    <3>7. \A x \in Ssrcs : Counted(n[x])
      BY <2>7, <3>4, <3>5
    <3>8. Range(b) \subseteq Range(a) /\ s \notin Range(a) /\ s \notin Range(b)
      BY <2>1, <3>1 DEF SessionOK
    <3>9. n[s].ref = Refs(a, b, s)
      BY <3>4, <3>5, <3>8 DEF Refs, One
    <3>10. ASSUME NEW x \in Ssrcs, x # s PROVE n[x].ref = Refs(a, b, x)
      BY <2>9, <3>1, <3>5, <3>10 DEF Refs, One
    <3>11. \A x \in Ssrcs : n[x].ref = Refs(a, b, x)
      BY <3>9, <3>10
    <3>12. SessionOK(e)
      BY ONLY <2>1, <3>1, <3>6, <3>7, <3>8, <3>11 DEF SessionOK
    <3> QED
      BY <3>12 DEF e, d
  <2> QED
    BY <2>11, <2>12
<1> QED
  BY <1>1, <1>2

\* The sessions that are right, as a set.
Sessions == {c \in Session : SessionOK(c)}

\* rtcp_bye_unpack(): whoever is named, and whatever follows the list.
LEMMA ByeOK ==
  ASSUME NEW c \in Sessions, NEW p, p.ssrcs \in Seq(Ssrcs), NEW after \in Ssrcs
  PROVE  rtcp_bye_unpack(c, p, after) \in Sessions
<1> DEFINE gone == Append(p.ssrcs, after)
           n == Len(gone)
           Gone(d, s) == rtp_member_list_delete(rtp_member_list_delete(d, "members", s),
                                                "senders", s)
           F == [i \in 1..n |-> [d \in Sessions |-> Gone(d, gone[i])]]
           Runs(D) == D = [i \in 0..n |-> IF i = 0 THEN c ELSE Gone(D[i - 1], gone[i])]
<1>1. n \in Nat /\ \A i \in 1..n : gone[i] \in Ssrcs
  OBVIOUS
<1> HIDE DEF gone, n
<1>2. ASSUME NEW d \in Sessions, NEW s \in Ssrcs PROVE Gone(d, s) \in Sessions
  BY LeaveOK DEF Sessions, SessionOK
<1> HIDE DEF Gone
<1>3. F \in [1..n -> [Sessions -> Sessions]]
  BY <1>1, <1>2
<1>4. PICK f \in [0..n -> Sessions] : f[0] = c /\ \A i \in 1..n : f[i] = F[i][f[i - 1]]
  <2>1. LoopRuns(n, Sessions, c, F) # {}
    <3> HIDE DEF F
    <3> QED
      BY <1>1, <1>3, LoopExists
  <2> HIDE DEF F
  <2> QED
    BY <2>1 DEF LoopRuns
<1>5. \A i \in 1..n : i - 1 \in 0..n /\ f[i - 1] \in Sessions
                    /\ f[i] = Gone(f[i - 1], gone[i])
  <2> SUFFICES ASSUME NEW i \in 1..n
               PROVE  i - 1 \in 0..n /\ f[i - 1] \in Sessions
                      /\ f[i] = Gone(f[i - 1], gone[i])
    OBVIOUS
  <2>1. i - 1 \in 0..n
    BY <1>1
  <2>2. f[i - 1] \in Sessions /\ f[i] = F[i][f[i - 1]]
    BY <1>4, <2>1
  <2> QED
    BY <2>1, <2>2
<1>6. Runs(f)
  BY <1>1, <1>4, <1>5
<1> DEFINE D == CHOOSE D : Runs(D)
<1>7. Runs(D)
  BY <1>6, Zenon
<1>8. rtcp_bye_unpack(c, p, after) = IF p.ssrcs = <<>> THEN c ELSE D[n]
  BY DEF rtcp_bye_unpack, gone, n, Gone
<1> HIDE DEF D
<1>9. D[0] = c /\ \A i \in 1..n : D[i] = Gone(D[i - 1], gone[i])
  BY <1>1, <1>7
<1>10. \A i \in 0..n : D[i] \in Sessions
  <2>1. \A i \in 1..n : D[i - 1] \in Sessions => D[i] \in Sessions
    BY <1>1, <1>2, <1>9
  <2> HIDE DEF Runs
  <2> QED
    BY <1>1, <1>9, <2>1, LoopStays
<1> QED
  BY <1>1, <1>8, <1>10

\* rtcp_sdes_unpack(): chunk after chunk.
LEMMA SdesOK ==
  ASSUME NEW c \in Sessions, NEW p, p.ssrcs \in Seq(Ssrcs \ {self})
  PROVE  rtcp_sdes_unpack(c, p) \in Sessions
<1> DEFINE l == p.ssrcs
           n == Len(l)
           F == [i \in 1..n |-> [d \in Sessions |-> rtp_member_fetch(d, l[i])]]
           Runs(D) == D = [i \in 0..n |-> IF i = 0 THEN c ELSE rtp_member_fetch(D[i - 1], l[i])]
<1>1. n \in Nat /\ \A i \in 1..n : l[i] \in Ssrcs \ {self}
  OBVIOUS
<1> HIDE DEF l, n
<1>2. ASSUME NEW d \in Sessions, NEW s \in Ssrcs \ {self} PROVE rtp_member_fetch(d, s) \in Sessions
  <2>1. SessionOK(rtp_member_fetch(d, s))
    BY FetchOK DEF Sessions
  <2> QED
    BY <2>1 DEF Sessions, SessionOK
<1>3. F \in [1..n -> [Sessions -> Sessions]]
  BY <1>1, <1>2
<1>4. PICK f \in [0..n -> Sessions] : f[0] = c /\ \A i \in 1..n : f[i] = F[i][f[i - 1]]
  <2>1. LoopRuns(n, Sessions, c, F) # {}
    <3> HIDE DEF F
    <3> QED
      BY <1>1, <1>3, LoopExists
  <2> HIDE DEF F
  <2> QED
    BY <2>1 DEF LoopRuns
<1>5. \A i \in 1..n : i - 1 \in 0..n /\ f[i - 1] \in Sessions
                    /\ f[i] = rtp_member_fetch(f[i - 1], l[i])
  <2> SUFFICES ASSUME NEW i \in 1..n
               PROVE  i - 1 \in 0..n /\ f[i - 1] \in Sessions
                      /\ f[i] = rtp_member_fetch(f[i - 1], l[i])
    OBVIOUS
  <2>1. i - 1 \in 0..n
    BY <1>1
  <2>2. f[i - 1] \in Sessions /\ f[i] = F[i][f[i - 1]]
    BY <1>4, <2>1
  <2> QED
    BY <2>1, <2>2
<1>6. Runs(f)
  BY <1>1, <1>4, <1>5
<1> DEFINE D == CHOOSE D : Runs(D)
<1>7. Runs(D)
  BY <1>6, Zenon
<1>8. rtcp_sdes_unpack(c, p) = D[n]
  BY DEF rtcp_sdes_unpack, n, l
<1> HIDE DEF D
<1>9. D[0] = c /\ \A i \in 1..n : D[i] = rtp_member_fetch(D[i - 1], l[i])
  BY <1>1, <1>7
<1>10. \A i \in 0..n : D[i] \in Sessions
  <2>1. \A i \in 1..n : D[i - 1] \in Sessions => D[i] \in Sessions
    BY <1>1, <1>2, <1>9
  <2> HIDE DEF Runs
  <2> QED
    BY <1>1, <1>9, <2>1, LoopStays
<1> QED
  BY <1>1, <1>8, <1>10

\* The RTCP packets of other participants.
RtcpPacket ==
  {p \in [kind : {"SR", "RR", "SDES", "BYE", "FB", "APP"}, ssrcs : Seq(Ssrcs)] :
     /\ p.ssrcs # <<>> /\ p.ssrcs[1] # self
     /\ p.kind = "SDES" => p.ssrcs \in Seq(Ssrcs \ {self})}

\* rtcp_parse() of one of them.
LEMMA ParseOK ==
  ASSUME NEW c \in Sessions, NEW p \in RtcpPacket, NEW after \in Ssrcs
  PROVE  rtcp_parse(c, p, after) \in Sessions
<1>1. /\ p.ssrcs \in Seq(Ssrcs) /\ p.ssrcs[1] \in Ssrcs /\ p.ssrcs[1] # self
      /\ p.kind \in {"SR", "RR", "SDES", "BYE", "FB", "APP"}
  BY DEF RtcpPacket
<1>2. SessionOK(c)
  BY DEF Sessions
<1>3. /\ rtp_sender_fetch(c, p.ssrcs[1]) \in Sessions
      /\ rtp_member_fetch(c, p.ssrcs[1]) \in Sessions
  <2>1. SessionOK(rtp_sender_fetch(c, p.ssrcs[1])) /\ SessionOK(rtp_member_fetch(c, p.ssrcs[1]))
    BY <1>1, <1>2, FetchOK, SenderOK
  <2>2. \A d : SessionOK(d) => d \in Sessions
    BY DEF Sessions, SessionOK
  <2> QED
    BY <2>1, <2>2
<1>4. rtcp_bye_unpack(c, p, after) \in Sessions
  BY <1>1, ByeOK
<1>5. p.kind = "SDES" => rtcp_sdes_unpack(c, p) \in Sessions
  BY SdesOK DEF RtcpPacket
<1> QED
  BY <1>1, <1>3, <1>4, <1>5
  DEF rtcp_parse, rtcp_sr_unpack, rtcp_rr_unpack, rtcp_feedback_unpack

\* rtcp_input_rtcp() of a compound datagram.
LEMMA InputRtcpOK ==
  ASSUME NEW c \in Sessions, NEW ps \in Seq(RtcpPacket), NEW after \in Ssrcs
  PROVE  rtcp_input_rtcp(c, ps, after) \in Sessions
<1> DEFINE n == Len(ps)
           F == [i \in 1..n |-> [d \in Sessions |-> rtcp_parse(d, ps[i], after)]]
           Runs(P) == P = [i \in 0..n |-> IF i = 0 THEN c ELSE rtcp_parse(P[i - 1], ps[i], after)]
<1>1. n \in Nat /\ \A i \in 1..n : ps[i] \in RtcpPacket
  OBVIOUS
<1> HIDE DEF n
<1>2. \A d \in Sessions, i \in 1..n : rtcp_parse(d, ps[i], after) \in Sessions
  BY <1>1, ParseOK
<1>3. F \in [1..n -> [Sessions -> Sessions]]
  BY <1>2
<1>4. PICK f \in [0..n -> Sessions] : f[0] = c /\ \A i \in 1..n : f[i] = F[i][f[i - 1]]
  <2>1. LoopRuns(n, Sessions, c, F) # {}
    <3> HIDE DEF F
    <3> QED
      BY <1>1, <1>3, LoopExists
  <2> HIDE DEF F
  <2> QED
    BY <2>1 DEF LoopRuns
<1>5. \A i \in 1..n : i - 1 \in 0..n /\ f[i - 1] \in Sessions
                    /\ f[i] = rtcp_parse(f[i - 1], ps[i], after)
  <2> SUFFICES ASSUME NEW i \in 1..n
               PROVE  i - 1 \in 0..n /\ f[i - 1] \in Sessions
                      /\ f[i] = rtcp_parse(f[i - 1], ps[i], after)
    OBVIOUS
  <2>1. i - 1 \in 0..n
    BY <1>1
  <2>2. f[i - 1] \in Sessions /\ f[i] = F[i][f[i - 1]]
    BY <1>4, <2>1
  <2> QED
    BY <2>1, <2>2
<1>6. Runs(f)
  BY <1>1, <1>4, <1>5
<1> DEFINE P == CHOOSE P : Runs(P)
<1>7. Runs(P)
  BY <1>6, Zenon
<1>8. rtcp_input_rtcp(c, ps, after) = P[n]
  BY DEF rtcp_input_rtcp, n
<1> HIDE DEF P
<1>9. P[0] = c /\ \A i \in 1..n : P[i] = rtcp_parse(P[i - 1], ps[i], after)
  BY <1>1, <1>7
<1>10. \A i \in 0..n : P[i] \in Sessions
  <2>1. \A i \in 1..n : P[i - 1] \in Sessions => P[i] \in Sessions
    BY <1>1, <1>2, <1>9
  <2> HIDE DEF Runs
  <2> QED
    BY <1>1, <1>9, <2>1, LoopStays
<1> QED
  BY <1>1, <1>8, <1>10

\* A session begins with its own member.
LEMMA CreateOK == rtp_create \in Sessions
<1> DEFINE m == [s \in Ssrcs |-> IF s = self THEN rtp_member_create ELSE NoMember]
           c == [members |-> <<>>, senders |-> <<>>, mem |-> m]
           n == [m EXCEPT ![self] = WithRef(rtp_member_create, 2)]
           d == rtp_member_list_add(c, "members", self)
<1>1. self \in Ssrcs
  BY MemberAssumption DEF MemberAssumption, self
<1>2. m \in [Ssrcs -> Member] /\ m[self] = rtp_member_create
      /\ \A x \in Ssrcs : x # self => m[x] = NoMember
  BY <1>1, NewMember
<1> HIDE DEF m
<1>3. c \in Session /\ c.members = <<>> /\ c.senders = <<>> /\ c.mem = m
  BY <1>2 DEF Session
<1>4. rtp_create = d
  BY DEF rtp_create, m
<1> HIDE DEF c
<1>5. d = Ses(Append(<<>>, self), <<>>, n)
  <2>1. d = Ses(Append(c.members, self), c.senders,
                [c.mem EXCEPT ![self] = WithRef(c.mem[self], c.mem[self].ref + 1)])
    BY <1>1, <1>3, Listing
  <2>2. rtp_member_create.ref + 1 = 2
    BY NewMember
  <2> QED
    BY <1>2, <1>3, <2>1, <2>2
<1>6. /\ WithRef(rtp_member_create, 2) \in Member /\ Counted(WithRef(rtp_member_create, 2))
      /\ WithRef(rtp_member_create, 2).ref = 2
  BY NewMember, WithRefOK
<1>7. n \in [Ssrcs -> Member] /\ n[self] = WithRef(rtp_member_create, 2)
      /\ \A x \in Ssrcs : x # self => n[x] = NoMember
  BY <1>1, <1>2, <1>6
<1>8. /\ <<>> \in Seq(Ssrcs) /\ Distinct(<<>>) /\ Range(<<>>) = {}
  BY DEF Distinct, Range
<1> DEFINE a == Append(<<>>, self)
<1>9. a \in Seq(Ssrcs) /\ Distinct(a) /\ Range(a) = {self}
  BY <1>1, <1>8, ListAdd
<1>a. d = Ses(a, <<>>, n)
  BY <1>5
<1> HIDE DEF n, d, a
<1>10. d \in Session /\ d.members = a /\ d.senders = <<>> /\ d.mem = n
  <2> DEFINE b == <<>>
  <2>1. b \in Seq(Ssrcs) /\ d = Ses(a, b, n)
    BY <1>8, <1>a
  <2> HIDE DEF b
  <2>2. d \in Session /\ d.members = a /\ d.senders = b /\ d.mem = n
    BY <1>7, <1>9, <2>1, SesType
  <2> QED
    BY <2>2 DEF b
<1>11. \A x \in Ssrcs : Counted(n[x])
  BY <1>6, <1>7, NewMember
<1>12. \A x \in Ssrcs : n[x].ref = Refs(a, <<>>, x)
  BY <1>6, <1>7, <1>8, <1>9, NewMember DEF Refs, One
<1>13. SessionOK(d)
  BY <1>8, <1>9, <1>10, <1>11, <1>12 DEF SessionOK
<1> QED
  BY <1>4, <1>10, <1>13 DEF Sessions

\* A report takes note of what it said.
LEMMA ReportOK ==
  ASSUME NEW c \in Sessions
  PROVE  rtp_rtcp_report(c) \in Sessions
<1> DEFINE m == [s \in Ssrcs |-> IF s \in Reported(c)
                                 THEN [c.mem[s] EXCEPT !.expected0 = expected(c.mem[s]),
                                                       !.packets0 = c.mem[s].packets]
                                 ELSE c.mem[s]]
           d == [c EXCEPT !.mem = m]
<1>1. SessionOK(c) /\ c \in Session
  BY DEF Sessions
<1>2. ASSUME NEW s \in Ssrcs
      PROVE  m[s] \in Member /\ Counted(m[s]) /\ m[s].ref = c.mem[s].ref
  <2> DEFINE o == c.mem[s]
             e == expected(o)
  <2>1. o \in Member /\ Counted(o)
    BY <1>1 DEF SessionOK, Session
  <2>2. CASE s \notin Reported(c)
    BY <2>1, <2>2
  <2>3. CASE s \in Reported(c)
    <3>1. o.packets > 0
      BY <2>3 DEF Reported
    <3> HIDE DEF o
    <3>2. o.probation = 0 /\ e \in Nat /\ o.packets \in Nat
      BY <2>1, <3>1 DEF Member, Counted, expected, extseq, Seqs
    <3> HIDE DEF e
    <3> DEFINE p == [o EXCEPT !.expected0 = e]
               q == [p EXCEPT !.packets0 = o.packets]
    <3>3. m[s] = q
      BY <2>3 DEF o, e
    <3>4. p \in Member /\ p.expected0 = e
      BY <2>1, <3>2 DEF Member
    <3>5. /\ p.probation = o.probation /\ p.packets = o.packets /\ p.cycles = o.cycles
          /\ p.seq = o.seq /\ p.base = o.base /\ p.ref = o.ref
      BY <2>1 DEF Member
    <3> HIDE DEF p
    <3>6. q \in Member /\ q.packets0 = o.packets
      BY <3>2, <3>4 DEF Member
    <3>7. /\ q.probation = o.probation /\ q.packets = o.packets /\ q.cycles = o.cycles
          /\ q.seq = o.seq /\ q.base = o.base /\ q.expected0 = e /\ q.ref = o.ref
      BY <3>4, <3>5 DEF Member
    <3> HIDE DEF q
    <3>8. expected(q) = e /\ extseq(q) = extseq(o)
      BY <3>7 DEF expected, extseq, e
    <3>9. extseq(o) >= o.base
      BY <2>1, <3>2 DEF Counted
    <3>10. Counted(q)
      BY <3>2, <3>6, <3>7, <3>8, <3>9 DEF Counted
    <3> QED
      BY <3>3, <3>6, <3>7, <3>10 DEF o
  <2> QED
    BY <2>2, <2>3
<1>3. m \in [Ssrcs -> Member]
  BY <1>2
<1>4. rtp_rtcp_report(c) = d
  BY DEF rtp_rtcp_report
<1> HIDE DEF m
<1>5. d \in Session /\ d.members = c.members /\ d.senders = c.senders /\ d.mem = m
  BY <1>1, <1>3 DEF Session
<1> HIDE DEF d
<1>6. SessionOK(d)
  BY <1>1, <1>2, <1>5 DEF SessionOK
<1> QED
  BY <1>4, <1>5, <1>6 DEF Sessions

\* A loop whose i-th turn leads from T[i - 1] to T[i] has a run, which is in T[i] after
\* i turns.
StagedRuns(n, T, s, F) ==
  {f \in [0..n -> UNION {T[i] : i \in 0..n}] :
     f[0] = s /\ \A i \in 1..n : f[i - 1] \in T[i - 1] /\ f[i] = F[i][f[i - 1]]}

\* Such a run is in T[i] after i turns.
LEMMA StagesStay ==
  ASSUME NEW n \in Nat, NEW T, NEW f, f[0] \in T[0],
         \A i \in 1..n : f[i - 1] \in T[i - 1] => f[i] \in T[i]
  PROVE  \A i \in 0..n : f[i] \in T[i]
<1> DEFINE S == {k \in Nat : k <= n => f[k] \in T[k]}
<1>1. 0 \in S
  OBVIOUS
<1>2. ASSUME NEW k \in Nat, k \in S PROVE k + 1 \in S
  <2> SUFFICES ASSUME k + 1 <= n PROVE f[k + 1] \in T[k + 1]
    OBVIOUS
  <2>1. f[k] \in T[k] /\ k + 1 \in 1..n /\ (k + 1) - 1 = k
    BY <1>2
  <2> QED
    BY <2>1
<1> HIDE DEF S
<1>3. Nat \subseteq S
  BY <1>1, <1>2, NatSetInduction
<1> QED
  BY <1>3 DEF S

\* And there is one.
LEMMA StagesExist ==
  ASSUME NEW n \in Nat, NEW T, NEW s \in T[0], NEW F,
         \A i \in 1..n : F[i] \in [T[i - 1] -> T[i]]
  PROVE  StagedRuns(n, T, s, F) # {}
<1> DEFINE U == UNION {T[i] : i \in 0..n}
           G == [i \in 1..n |-> [d \in U |-> IF d \in T[i - 1] THEN F[i][d] ELSE d]]
<1>1. s \in U
  OBVIOUS
<1>2. G \in [1..n -> [U -> U]]
  <2> SUFFICES ASSUME NEW i \in 1..n, NEW d \in U, d \in T[i - 1] PROVE F[i][d] \in U
    OBVIOUS
  <2>1. i \in 0..n /\ F[i][d] \in T[i]
    OBVIOUS
  <2> QED
    BY <2>1
<1>3. LoopRuns(n, U, s, G) # {}
  <2> HIDE DEF U, G
  <2> QED
    BY <1>1, <1>2, LoopExists
<1>4. PICK f \in [0..n -> U] : f[0] = s /\ \A i \in 1..n : f[i] = G[i][f[i - 1]]
  <2> HIDE DEF U, G
  <2> QED
    BY <1>3 DEF LoopRuns
<1>5. ASSUME NEW i \in 1..n, f[i - 1] \in T[i - 1]
      PROVE  f[i] = F[i][f[i - 1]] /\ f[i] \in T[i]
  <2>1. i - 1 \in 0..n
    OBVIOUS
  <2>2. f[i - 1] \in U /\ f[i] = G[i][f[i - 1]]
    <3> HIDE DEF U, G
    <3> QED
      BY <1>4, <2>1
  <2>3. G[i][f[i - 1]] = F[i][f[i - 1]]
    <3> HIDE DEF U
    <3> QED
      BY <1>5, <2>2
  <2>4. F[i][f[i - 1]] \in T[i]
    BY <1>5
  <2> QED
    BY <2>2, <2>3, <2>4
<1>6. \A i \in 0..n : f[i] \in T[i]
  <2> HIDE DEF U, G
  <2> QED
    BY <1>4, <1>5, StagesStay
<1>7. \A i \in 1..n : f[i - 1] \in T[i - 1] /\ f[i] = F[i][f[i - 1]]
  <2> SUFFICES ASSUME NEW i \in 1..n PROVE f[i - 1] \in T[i - 1] /\ f[i] = F[i][f[i - 1]]
    OBVIOUS
  <2>1. i - 1 \in 0..n
    OBVIOUS
  <2>2. f[i - 1] \in T[i - 1]
    BY <1>6, <2>1
  <2> QED
    BY <1>5, <2>2
<1> QED
  BY <1>4, <1>7 DEF StagedRuns

\* The references to s that rtp_destroy() has still to give back after i releases, of
\* the members m, then of the senders t, then the session's own.
Left(m, t, i, s) ==
  One(\E j \in 1..Len(m) : j > i /\ m[j] = s)
  + One(\E j \in 1..Len(t) : Len(m) + j > i /\ t[j] = s)
  + One(s = self /\ i <= Len(m) + Len(t))

\* The members in the order rtp_destroy() releases them.
Objects(m, t) == m \o t \o <<self>>

\* They are the members, then the senders, then the own one.
LEMMA ObjectsAre ==
  ASSUME NEW m \in Seq(Ssrcs), NEW t \in Seq(Ssrcs)
  PROVE  /\ Objects(m, t) \in Seq(Ssrcs) /\ Len(Objects(m, t)) = Len(m) + Len(t) + 1
         /\ \A i \in 1 .. Len(m) + Len(t) + 1 :
              Objects(m, t)[i] = IF i <= Len(m) THEN m[i]
                                 ELSE IF i <= Len(m) + Len(t) THEN t[i - Len(m)] ELSE self
<1>1. self \in Ssrcs /\ Len(m) \in Nat /\ Len(t) \in Nat
  BY MemberAssumption DEF MemberAssumption, self
<1>2. <<self>> \in Seq(Ssrcs) /\ Len(<<self>>) = 1 /\ <<self>>[1] = self
  BY <1>1
<1> DEFINE mt == m \o t
<1>3. mt \in Seq(Ssrcs) /\ Len(mt) = Len(m) + Len(t)
      /\ \A i \in 1 .. Len(m) + Len(t) : mt[i] = IF i <= Len(m) THEN m[i] ELSE t[i - Len(m)]
  BY ConcatProperties
<1> HIDE DEF mt
<1> DEFINE u == <<self>>
<1> HIDE DEF u
<1>u. u \in Seq(Ssrcs) /\ Len(u) = 1 /\ u[1] = self
  BY <1>2 DEF u
<1>4. mt \o u \in Seq(Ssrcs) /\ Len(mt \o u) = Len(mt) + 1
      /\ \A i \in 1 .. Len(mt) + 1 : (mt \o u)[i] = IF i <= Len(mt) THEN mt[i] ELSE u[i - Len(mt)]
  <2>1. Len(mt) \in Nat
    BY <1>1, <1>3
  <2>2. /\ mt \o u \in Seq(Ssrcs) /\ Len(mt \o u) = Len(mt) + Len(u)
        /\ \A i \in 1 .. Len(mt) + Len(u) :
             (mt \o u)[i] = IF i <= Len(mt) THEN mt[i] ELSE u[i - Len(mt)]
    <3>1. mt \in Seq(Ssrcs) /\ u \in Seq(Ssrcs)
      BY <1>3, <1>u
    <3> QED
      BY <3>1, ConcatProperties
  <2> QED
    BY <1>u, <2>1, <2>2
<1>5. ASSUME NEW i \in 1 .. Len(m) + Len(t) + 1
      PROVE  (mt \o u)[i] = IF i <= Len(m) THEN m[i]
                                 ELSE IF i <= Len(m) + Len(t) THEN t[i - Len(m)] ELSE self
  <2>1. CASE i <= Len(m) + Len(t)
    BY <1>1, <1>3, <1>4, <2>1
  <2>2. CASE i = Len(m) + Len(t) + 1
    <3>1. i - Len(mt) = 1 /\ ~(i <= Len(mt)) /\ ~(i <= Len(m))
      BY <1>1, <1>3, <2>2
    <3> QED
      BY <1>1, <1>3, <1>4, <1>u, <2>2, <3>1
  <2>3. i <= Len(m) + Len(t) \/ i = Len(m) + Len(t) + 1
    BY <1>1
  <2> QED
    BY <2>1, <2>2, <2>3
<1>6. Objects(m, t) = mt \o u
  BY DEF Objects, mt, u
<1> QED
  BY <1>1, <1>3, <1>4, <1>5, <1>6

\* One release gives back one reference to the object released, and none to another.
LEMMA LeftStep ==
  ASSUME NEW m \in Seq(Ssrcs), NEW t \in Seq(Ssrcs), Distinct(m), Distinct(t),
         NEW i \in 1 .. Len(m) + Len(t) + 1, NEW s \in Ssrcs
  PROVE  /\ Left(m, t, i, s) \in Nat
         /\ Left(m, t, i - 1, s) = Left(m, t, i, s) + One(s = Objects(m, t)[i])
<1> DEFINE A(k) == \E j \in 1..Len(m) : j > k /\ m[j] = s
           B(k) == \E j \in 1..Len(t) : Len(m) + j > k /\ t[j] = s
           C(k) == s = self /\ k <= Len(m) + Len(t)
           o == Objects(m, t)[i]
<1>0. Len(m) \in Nat /\ Len(t) \in Nat /\ i \in Nat /\ i - 1 \in Nat
  OBVIOUS
<1>1. o = IF i <= Len(m) THEN m[i] ELSE IF i <= Len(m) + Len(t) THEN t[i - Len(m)] ELSE self
  BY ObjectsAre
<1> HIDE DEF o
<1>a. /\ Left(m, t, i, s) = One(A(i)) + One(B(i)) + One(C(i))
      /\ Left(m, t, i - 1, s) = One(A(i - 1)) + One(B(i - 1)) + One(C(i - 1))
  BY Zenon DEF Left
<1> DEFINE Sum == /\ One(A(i)) + One(B(i)) + One(C(i)) \in Nat
                  /\ One(A(i - 1)) + One(B(i - 1)) + One(C(i - 1))
                       = One(A(i)) + One(B(i)) + One(C(i)) + One(s = o)
<1>2. ASSUME i <= Len(m) PROVE Sum
  <2>1. o = m[i] /\ i \in 1..Len(m)
    BY <1>0, <1>1, <1>2
  <2>2. B(i) <=> B(i - 1)
    <3>1. \A j \in 1..Len(t) : (Len(m) + j > i - 1) /\ (Len(m) + j > i)
      BY <1>0, <1>2
    <3> QED
      BY <3>1
  <2>3. C(i) <=> C(i - 1)
    BY <1>0, <1>2
  <2>4. CASE s = o
    <3>1. A(i - 1)
      BY <1>0, <2>1, <2>4
    <3>2. ~A(i)
      BY <1>0, <2>1, <2>4 DEF Distinct
    <3> HIDE DEF A, B, C
    <3> QED
      BY <2>2, <2>3, <2>4, <3>1, <3>2 DEF One
  <2>5. CASE s # o
    <3>1. A(i) <=> A(i - 1)
      <4>1. \A j \in 1..Len(m) : m[j] = s => (j > i <=> j > i - 1)
        BY <1>0, <2>1, <2>5
      <4> QED
        BY <4>1
    <3> HIDE DEF A, B, C
    <3> QED
      BY <2>2, <2>3, <2>5, <3>1 DEF One
  <2> QED
    BY <2>4, <2>5
<1>3. ASSUME ~(i <= Len(m)), i <= Len(m) + Len(t) PROVE Sum
  <2> DEFINE k == i - Len(m)
  <2>1. o = t[k] /\ k \in 1..Len(t) /\ Len(m) + k = i
    BY <1>0, <1>1, <1>3
  <2> HIDE DEF k
  <2>2. ~A(i) /\ ~A(i - 1)
    BY <1>0, <1>3
  <2>3. C(i) <=> C(i - 1)
    BY <1>0, <1>3
  <2>4. CASE s = o
    <3>1. B(i - 1)
      BY <1>0, <2>1, <2>4
    <3>2. ~B(i)
      BY <1>0, <2>1, <2>4 DEF Distinct
    <3> HIDE DEF A, B, C
    <3> QED
      BY <2>2, <2>3, <2>4, <3>1, <3>2 DEF One
  <2>5. CASE s # o
    <3>1. B(i) <=> B(i - 1)
      <4>1. \A j \in 1..Len(t) : t[j] = s => (Len(m) + j > i <=> Len(m) + j > i - 1)
        BY <1>0, <2>1, <2>5
      <4> QED
        BY <4>1
    <3> HIDE DEF A, B, C
    <3> QED
      BY <2>2, <2>3, <2>5, <3>1 DEF One
  <2> QED
    BY <2>4, <2>5
<1>4. ASSUME i = Len(m) + Len(t) + 1 PROVE Sum
  <2>1. o = self
    BY <1>0, <1>1, <1>4
  <2>2. ~A(i) /\ ~A(i - 1) /\ ~B(i) /\ ~B(i - 1) /\ ~C(i) /\ (C(i - 1) <=> s = self)
    BY <1>0, <1>4
  <2> HIDE DEF A, B, C
  <2> QED
    BY <2>1, <2>2 DEF One
<1>5. i <= Len(m) \/ (~(i <= Len(m)) /\ i <= Len(m) + Len(t)) \/ i = Len(m) + Len(t) + 1
  BY <1>0
<1>6. Sum
  <2> HIDE DEF Sum
  <2> QED
    BY <1>2, <1>3, <1>4, <1>5
<1> QED
  BY <1>a, <1>6 DEF o

\* At first those are all, at last none.
LEMMA LeftEnds ==
  ASSUME NEW m \in Seq(Ssrcs), NEW t \in Seq(Ssrcs), NEW s \in Ssrcs
  PROVE  /\ Left(m, t, 0, s) = Refs(m, t, s)
         /\ Left(m, t, Len(m) + Len(t) + 1, s) = 0
<1> DEFINE n == Len(m) + Len(t) + 1
<1>1. Len(m) \in Nat /\ Len(t) \in Nat /\ DOMAIN m = 1..Len(m) /\ DOMAIN t = 1..Len(t)
  OBVIOUS
<1>2. /\ (\E j \in 1..Len(m) : j > 0 /\ m[j] = s) <=> s \in Range(m)
      /\ (\E j \in 1..Len(t) : Len(m) + j > 0 /\ t[j] = s) <=> s \in Range(t)
      /\ 0 <= Len(m) + Len(t)
  BY <1>1 DEF Range
<1>3. /\ ~ \E j \in 1..Len(m) : j > n /\ m[j] = s
      /\ ~ \E j \in 1..Len(t) : Len(m) + j > n /\ t[j] = s
      /\ ~(n <= Len(m) + Len(t))
  BY <1>1
<1>4. Left(m, t, 0, s) = Refs(m, t, s)
  BY <1>2 DEF Left, Refs, One
<1>5. Left(m, t, n, s) = 0
  BY <1>3 DEF Left, One
<1> QED
  BY <1>4, <1>5

\* The sessions of rtp_destroy() after i releases.
Closing(m, t, i) ==
  {d \in Session : /\ d.members = <<>> /\ d.senders = <<>>
                   /\ \A s \in Ssrcs : d.mem[s].ref = Left(m, t, i, s)}

\* One release leads to the next stage.
LEMMA ReleaseNext ==
  ASSUME NEW m \in Seq(Ssrcs), NEW t \in Seq(Ssrcs), Distinct(m), Distinct(t),
         NEW i \in 1 .. Len(m) + Len(t) + 1, NEW d \in Closing(m, t, i - 1)
  PROVE  rtp_member_release(d, Objects(m, t)[i]) \in Closing(m, t, i)
<1> DEFINE o == Objects(m, t)[i]
           v == IF d.mem[o].ref = 1 THEN NoMember ELSE WithRef(d.mem[o], d.mem[o].ref - 1)
           e == [d.mem EXCEPT ![o] = v]
<1>1. o \in Ssrcs
  <2>1. Objects(m, t) \in Seq(Ssrcs) /\ Len(Objects(m, t)) = Len(m) + Len(t) + 1
    BY ObjectsAre
  <2> QED
    BY <2>1
<1>2. \A s \in Ssrcs : /\ Left(m, t, i, s) \in Nat
                       /\ Left(m, t, i - 1, s) = Left(m, t, i, s) + One(s = o)
  BY LeftStep
<1> HIDE DEF o
<1>3. /\ d \in Session /\ d.members = <<>> /\ d.senders = <<>>
      /\ \A s \in Ssrcs : d.mem[s].ref = Left(m, t, i, s) + One(s = o)
  BY <1>2 DEF Closing
<1>4. d.mem[o] \in Member /\ d.mem[o].ref = Left(m, t, i, o) + 1 /\ d.mem[o].ref >= 1
      /\ Left(m, t, i, o) \in Nat
  BY <1>1, <1>2, <1>3 DEF One, Session
<1>5. v \in Member /\ v.ref = Left(m, t, i, o)
  <2>1. CASE d.mem[o].ref = 1
    BY <1>4, <2>1, NewMember
  <2>2. CASE d.mem[o].ref # 1
    <3>1. d.mem[o].ref - 1 = Left(m, t, i, o)
      BY <1>4
    <3>2. v = WithRef(d.mem[o], Left(m, t, i, o))
      BY <2>2, <3>1
    <3> QED
      BY <1>4, <3>2, WithRefOK
  <2> QED
    BY <2>1, <2>2
<1>6. rtp_member_release(d, o) = Ses(d.members, d.senders, e)
  BY <1>1, <1>3, <1>4, Release
<1> HIDE DEF v
<1>7. e \in [Ssrcs -> Member] /\ e[o] = v /\ \A s \in Ssrcs : s # o => e[s] = d.mem[s]
  BY <1>1, <1>3, <1>5 DEF Session
<1> HIDE DEF e
<1>8. \A s \in Ssrcs : e[s].ref = Left(m, t, i, s)
  BY <1>2, <1>3, <1>5, <1>7 DEF One
<1>9. /\ Ses(d.members, d.senders, e) \in Session
      /\ Ses(d.members, d.senders, e).members = d.members
      /\ Ses(d.members, d.senders, e).senders = d.senders
      /\ Ses(d.members, d.senders, e).mem = e
  BY <1>3, <1>7, SesType DEF Session
<1>10. rtp_member_release(d, o) \in Closing(m, t, i)
  BY <1>3, <1>6, <1>8, <1>9 DEF Closing
<1> QED
  BY <1>10 DEF o

\* rtp_destroy(): nobody is listed any more and no reference is left.
LEMMA DestroyOK ==
  ASSUME NEW c \in Sessions
  PROVE  /\ rtp_destroy(c) \in Session
         /\ rtp_destroy(c).members = <<>> /\ rtp_destroy(c).senders = <<>>
         /\ \A s \in Ssrcs : rtp_destroy(c).mem[s].ref = 0
<1> DEFINE m == c.members
           t == c.senders
           n == Len(m) + Len(t) + 1
           o == Objects(m, t)
           c0 == [c EXCEPT !.members = <<>>, !.senders = <<>>]
           T == [i \in 0..n |-> Closing(m, t, i)]
           F == [i \in 1..n |-> [d \in Closing(m, t, i - 1) |-> rtp_member_release(d, o[i])]]
           Runs(D) == D = [i \in 0..n |-> IF i = 0 THEN c0
                                          ELSE rtp_member_release(D[i - 1], o[i])]
<1>1. /\ c \in Session /\ m \in Seq(Ssrcs) /\ t \in Seq(Ssrcs) /\ Distinct(m) /\ Distinct(t)
      /\ c.mem \in [Ssrcs -> Member] /\ \A s \in Ssrcs : c.mem[s].ref = Refs(m, t, s)
  BY DEF Sessions, SessionOK, Session
<1>2. n \in Nat /\ o \in Seq(Ssrcs) /\ Len(o) = n
  <2> HIDE DEF m, t
  <2> QED
    BY <1>1, ObjectsAre
<1>3. c0 \in Closing(m, t, 0)
  <2>1. c0 = Ses(<<>>, <<>>, c.mem)
    <3> DEFINE a == [c EXCEPT !.members = <<>>]
    <3>1. c = Ses(c.members, c.senders, c.mem)
      BY <1>1 DEF Ses, Session
    <3>2. c0 = [a EXCEPT !.senders = <<>>]
      OBVIOUS
    <3>3. a = Ses(<<>>, c.senders, c.mem)
      BY <3>1 DEF Ses
    <3> HIDE DEF a, c0
    <3> QED
      BY <3>2, <3>3 DEF Ses
  <2>2. <<>> \in Seq(Ssrcs)
    OBVIOUS
  <2>3. c0 \in Session /\ c0.members = <<>> /\ c0.senders = <<>> /\ c0.mem = c.mem
    <3> DEFINE e == <<>>
    <3> HIDE DEF e
    <3>1. e \in Seq(Ssrcs) /\ c0 = Ses(e, e, c.mem)
      BY <2>1, <2>2 DEF e
    <3> HIDE DEF c0
    <3>2. c0 \in Session /\ c0.members = e /\ c0.senders = e /\ c0.mem = c.mem
      BY <1>1, <3>1, SesType
    <3> QED
      BY <3>2 DEF e
  <2> HIDE DEF c0, m, t
  <2>4. \A s \in Ssrcs : c.mem[s].ref = Left(m, t, 0, s)
    BY <1>1, LeftEnds
  <2> QED
    BY <2>3, <2>4 DEF Closing
<1>4. \A i \in 1..n : \A d \in Closing(m, t, i - 1) :
          rtp_member_release(d, o[i]) \in Closing(m, t, i)
  <2> HIDE DEF m, t
  <2> QED
    BY <1>1, ReleaseNext
<1>d. rtp_destroy(c) = (CHOOSE D : Runs(D))[n]
  <2>1. Len(o) = n /\ o = c.members \o c.senders \o <<self>>
    BY <1>2 DEF Objects
  <2> HIDE DEF n, o
  <2> QED
    BY <2>1 DEF rtp_destroy
<1> HIDE DEF m, t, o, c0, n
<1>5. \A i \in 0..n : T[i] = Closing(m, t, i)
  OBVIOUS
<1>6. \A i \in 1..n : i - 1 \in 0..n /\ i \in 0..n
  BY <1>2
<1>7. \A i \in 1..n : F[i] \in [T[i - 1] -> T[i]]
  BY <1>4, <1>5, <1>6
<1>8. StagedRuns(n, T, c0, F) # {}
  <2>1. c0 \in T[0]
    BY <1>2, <1>3, <1>5
  <2> HIDE DEF T, F
  <2> QED
    BY <1>2, <1>7, <2>1, StagesExist
<1>9. PICK f \in StagedRuns(n, T, c0, F) : TRUE
  BY <1>8
<1>10. /\ f[0] = c0 /\ f = [i \in 0..n |-> f[i]]
       /\ \A i \in 1..n : f[i - 1] \in T[i - 1] /\ f[i] = F[i][f[i - 1]]
  <2> HIDE DEF T, F
  <2> QED
    BY <1>9 DEF StagedRuns
<1>11. \A i \in 1..n : f[i] = rtp_member_release(f[i - 1], o[i])
  BY <1>5, <1>6, <1>10
<1>12. Runs(f)
  <2> DEFINE g == [i \in 0..n |-> IF i = 0 THEN c0 ELSE rtp_member_release(f[i - 1], o[i])]
  <2>1. \A i \in 0..n : f[i] = g[i]
    <3> SUFFICES ASSUME NEW i \in 0..n PROVE f[i] = g[i]
      OBVIOUS
    <3>1. CASE i = 0
      BY <1>10, <3>1
    <3>2. CASE i # 0
      <4>1. i \in 1..n
        BY <1>2, <3>2
      <4> QED
        BY <1>11, <3>2, <4>1
    <3> QED
      BY <3>1, <3>2
  <2> QED
    BY <1>10, <2>1
<1> DEFINE D == CHOOSE D : Runs(D)
<1>13. Runs(D)
  BY <1>12, Zenon
<1> HIDE DEF D
<1>14. D[0] = c0 /\ \A i \in 1..n : D[i] = rtp_member_release(D[i - 1], o[i])
  BY <1>2, <1>13
<1>15. \A i \in 0..n : D[i] \in T[i]
  <2>1. D[0] \in T[0]
    BY <1>2, <1>3, <1>5, <1>14
  <2>2. \A i \in 1..n : D[i - 1] \in T[i - 1] => D[i] \in T[i]
    BY <1>4, <1>5, <1>6, <1>14
  <2> HIDE DEF T, Runs
  <2> QED
    BY <1>2, <2>1, <2>2, StagesStay
<1>16. D[n] \in Closing(m, t, n)
  BY <1>2, <1>5, <1>15
<1>17. \A s \in Ssrcs : Left(m, t, n, s) = 0
  BY <1>1, LeftEnds DEF n
<1>18. rtp_destroy(c) = D[n]
  BY <1>d DEF D
<1> QED
  BY <1>16, <1>17, <1>18 DEF Closing

-----------------------------------------------------------------------------
\* What is sent.

\* A piece of a NAL unit, and a payload made of pieces.
Bits == [nal : 1..12, from : Nat, to : Nat]
Chunks == [kind : {"single", "fu", "agg"}, pieces : Seq(Bits), s : BOOLEAN, e : BOOLEAN]

\* A sequence of one.
LEMMA SeqOne ==
  ASSUME NEW S, NEW x \in S
  PROVE  <<x>> \in Seq(S)
  OBVIOUS

\* The type of a payload.
LEMMA ChunkType ==
  ASSUME NEW k \in {"single", "fu", "agg"}, NEW p \in Seq(Bits), NEW s \in BOOLEAN,
         NEW e \in BOOLEAN
  PROVE  Payload(k, p, s, e) \in Chunks
  BY DEF Payload, Chunks

\* The type of a piece.
LEMMA BitsType ==
  ASSUME NEW n, n.id \in 1..12, NEW a \in Nat, NEW b \in Nat
  PROVE  Piece(n, a, b) \in Bits
  BY DEF Piece, Bits

\* The fragments of a NAL unit: every turn of the loop takes something off, so that it
\* ends.
LEMMA FragmentsSeq ==
  ASSUME NEW cd \in NalCodecs, NEW n, n.id \in 1..12, n.len \in Nat, n.len >= 2
  PROVE  Fragments(cd, PACKET_SIZE, n) \in Seq(Chunks)
<1> DEFINE L == n.len
           fu == FuHeader(cd)
           ends(from) == L - from + RTP_FIXED_HEADER <= PACKET_SIZE - fu
           plen(from) == IF ends(from) THEN L - from ELSE PACKET_SIZE - RTP_FIXED_HEADER - fu
           item(from) == <<Payload("fu", <<Piece(n, from, from + plen(from))>>,
                                   ~ends(from) /\ from = NalHeader(cd), ends(from))>>
           Body(g, from) == IF from >= L THEN <<>> ELSE item(from) \o g[from + plen(from)]
           Runs(g) == g = [from \in 0..L |-> Body(g, from)]
<1>0. fu \in Nat /\ fu <= 3 /\ NalHeader(cd) \in 0..L
  BY DEF FuHeader, NalHeader
<1>1. Fragments(cd, PACKET_SIZE, n) = (CHOOSE g : Runs(g))[NalHeader(cd)]
  BY Zenon DEF Fragments
<1> HIDE DEF fu
<1>2. ASSUME NEW from \in 0..L, ~(from >= L)
      PROVE  plen(from) \in Nat /\ from + plen(from) \in from + 1 .. L
  BY <1>0, <1>2, LinkAssumption DEF LinkAssumption, RTP_FIXED_HEADER
<1>3. ASSUME NEW from \in 0..L, ~(from >= L)
      PROVE  item(from) \in Seq(Chunks)
  <2> DEFINE p == Piece(n, from, from + plen(from))
             b == ~ends(from) /\ from = NalHeader(cd)
             c == ends(from)
  <2>1. from \in Nat /\ from + plen(from) \in Nat
    BY <1>2, <1>3
  <2>2. p \in Bits
    <3> HIDE DEF plen
    <3> QED
      BY <2>1, BitsType
  <2> HIDE DEF p
  <2>3. <<p>> \in Seq(Bits)
    BY <2>2
  <2>4. b \in BOOLEAN /\ c \in BOOLEAN
    OBVIOUS
  <2> HIDE DEF b, c
  <2>5. Payload("fu", <<p>>, b, c) \in Chunks
    BY <2>3, <2>4, ChunkType
  <2> DEFINE q == Payload("fu", <<p>>, b, c)
  <2> HIDE DEF q
  <2>6. <<q>> \in Seq(Chunks)
    BY <2>5, SeqOne DEF q
  <2> QED
    BY <2>6 DEF q, p, b, c
<1> HIDE DEF plen, item, ends
<1> DEFINE Cuts(g, k) == \A from \in L - k .. L : g[from] = Body(g, from)
           S == {k \in Nat : k <= L => \E g \in [L - k .. L -> Seq(Chunks)] : Cuts(g, k)}
<1>4. 0 \in S
  <2> DEFINE g == [from \in L - 0 .. L |-> <<>>]
  <2>1. g \in [L - 0 .. L -> Seq(Chunks)] /\ Cuts(g, 0)
    OBVIOUS
  <2> HIDE DEF g
  <2>2. \E h \in [L - 0 .. L -> Seq(Chunks)] : Cuts(h, 0)
    BY <2>1
  <2> QED
    BY <2>2
<1>5. ASSUME NEW k \in Nat, k \in S PROVE k + 1 \in S
  <2> SUFFICES ASSUME k + 1 <= L
               PROVE  \E g \in [L - (k + 1) .. L -> Seq(Chunks)] : Cuts(g, k + 1)
    <3> HIDE DEF Cuts
    <3> QED
      OBVIOUS
  <2>1. PICK g \in [L - k .. L -> Seq(Chunks)] : Cuts(g, k)
    BY <1>5
  <2> DEFINE a == L - (k + 1)
             v == item(a) \o g[a + plen(a)]
             h == [from \in a .. L |-> IF from = a THEN v ELSE g[from]]
  <2>2. a \in 0..L /\ ~(a >= L) /\ a + 1 = L - k
    <3>1. L \in Nat /\ k \in Nat /\ k + 1 <= L
      OBVIOUS
    <3> HIDE DEF L
    <3> QED
      BY ONLY <3>1
  <2>3. a + plen(a) \in L - k .. L
    BY <1>2, <2>2
  <2>4. v \in Seq(Chunks)
    <3>1. item(a) \in Seq(Chunks) /\ g[a + plen(a)] \in Seq(Chunks)
      BY <1>3, <2>2, <2>3
    <3> DEFINE x == item(a)
               y == g[a + plen(a)]
    <3> HIDE DEF x, y
    <3>2. x \in Seq(Chunks) /\ y \in Seq(Chunks)
      BY <3>1 DEF x, y
    <3>3. x \o y \in Seq(Chunks)
      BY <3>2
    <3> QED
      BY <3>3 DEF x, y
  <2>5. /\ h \in [a .. L -> Seq(Chunks)] /\ h[a] = v
        /\ \A from \in L - k .. L : from \in a .. L /\ h[from] = g[from]
    <3> HIDE DEF v
    <3> QED
      BY <2>2, <2>4
  <2> HIDE DEF h
  <2>6. ASSUME NEW from \in a .. L PROVE h[from] = Body(h, from)
    <3>1. CASE from = a
      <4>1. h[a + plen(a)] = g[a + plen(a)]
        BY <2>3, <2>5
      <4> QED
        BY <2>2, <2>5, <3>1, <4>1
    <3>2. CASE from # a
      <4>1. from \in L - k .. L /\ from \in 0..L
        BY <2>2, <3>2
      <4>2. g[from] = Body(g, from) /\ h[from] = g[from]
        BY <2>1, <2>5, <4>1
      <4>3. CASE from >= L
        BY <4>2, <4>3
      <4>4. CASE ~(from >= L)
        <5>1. from + plen(from) \in L - k .. L
          BY <1>2, <4>1, <4>4
        <5>2. h[from + plen(from)] = g[from + plen(from)]
          BY <2>5, <5>1
        <5> QED
          BY <4>2, <5>2
      <4> QED
        BY <4>3, <4>4
    <3> QED
      BY <3>1, <3>2
  <2>7. Cuts(h, k + 1)
    BY <2>6
  <2> HIDE DEF Cuts
  <2>8. h \in [L - (k + 1) .. L -> Seq(Chunks)]
    BY <2>5
  <2> QED
    BY <2>7, <2>8
<1>6. \E g : Runs(g)
  <2>1. L \in S
    <3> HIDE DEF S, L
    <3>1. L \in Nat
      BY DEF L
    <3> QED
      BY <1>4, <1>5, <3>1, NatSetInduction
  <2>2. PICK g \in [L - L .. L -> Seq(Chunks)] : Cuts(g, L)
    BY <2>1
  <2>3. L - L .. L = 0..L
    OBVIOUS
  <2>4. Runs(g)
    <3> DEFINE h == [from \in 0..L |-> Body(g, from)]
    <3>1. g = [from \in 0..L |-> g[from]] /\ \A from \in 0..L : g[from] = h[from]
      <4> HIDE DEF Body
      <4> QED
        BY <2>2, <2>3
    <3> HIDE DEF Body
    <3> QED
      BY <3>1
  <2> QED
    BY <2>4
<1> DEFINE C == CHOOSE g : Runs(g)
<1>7. Runs(C)
  <2> HIDE DEF Runs
  <2> QED
    BY <1>6
<1> HIDE DEF C
<1>8. \A from \in 0..L : C[from] = Body(C, from)
  <2> HIDE DEF Body
  <2> QED
    BY <1>7
<1> DEFINE R == {k \in Nat : k <= L => \A from \in L - k .. L : C[from] \in Seq(Chunks)}
<1>e. ASSUME NEW from \in 0..L, from >= L PROVE C[from] \in Seq(Chunks)
  <2>1. C[from] = <<>>
    BY <1>8, <1>e
  <2> QED
    BY <2>1
<1>9. 0 \in R
  <2>1. \A from \in L - 0 .. L : from \in 0..L /\ from >= L
    OBVIOUS
  <2> QED
    BY <1>e, <2>1
<1>10. ASSUME NEW k \in Nat, k \in R PROVE k + 1 \in R
  <2> SUFFICES ASSUME k + 1 <= L, NEW from \in L - (k + 1) .. L
               PROVE  C[from] \in Seq(Chunks)
    OBVIOUS
  <2>1. from \in 0..L
    OBVIOUS
  <2>2. CASE from >= L
    BY <1>e, <2>1, <2>2
  <2>3. CASE ~(from >= L)
    <3>1. item(from) \in Seq(Chunks) /\ from + plen(from) \in L - k .. L
      BY <1>2, <1>3, <2>1, <2>3
    <3> DEFINE x == item(from)
               y == C[from + plen(from)]
    <3>2. x \in Seq(Chunks) /\ y \in Seq(Chunks)
      BY <1>10, <3>1
    <3>3. C[from] = x \o y
      BY <1>8, <2>1, <2>3
    <3> HIDE DEF x, y
    <3> QED
      BY <3>2, <3>3
  <2> QED
    BY <2>2, <2>3
<1>11. C[NalHeader(cd)] \in Seq(Chunks)
  <2>1. L \in R
    <3> HIDE DEF R, L
    <3>1. L \in Nat
      BY DEF L
    <3> QED
      BY <1>9, <1>10, <3>1, NatSetInduction
  <2> QED
    BY <1>0, <2>1
<1> QED
  BY <1>1, <1>11 DEF C

\* Sequences put one behind the other.
LEMMA FlattenType ==
  ASSUME NEW X, NEW q \in Seq(Seq(X))
  PROVE  Len(q) > 0 => FlattenSeq(q) \in Seq(X)
<1> SUFFICES ASSUME Len(q) > 0 PROVE FlattenSeq(q) \in Seq(X)
  OBVIOUS
<1> DEFINE n == Len(q)
           Runs(g) == g = [i \in 1..n |-> IF i = 1 THEN q[i] ELSE g[i - 1] \o q[i]]
           F == [i \in 1 .. n - 1 |-> [d \in Seq(X) |-> d \o q[i + 1]]]
<1>1. n \in Nat /\ n >= 1 /\ n - 1 \in Nat /\ \A i \in 1..n : q[i] \in Seq(X)
  OBVIOUS
<1>2. FlattenSeq(q) = (CHOOSE g : Runs(g))[n]
  BY DEF FlattenSeq
<1> HIDE DEF n
<1>3. ASSUME NEW d \in Seq(X), NEW e \in Seq(X) PROVE d \o e \in Seq(X)
  OBVIOUS
<1>4. F \in [1 .. n - 1 -> [Seq(X) -> Seq(X)]]
  <2>1. \A i \in 1 .. n - 1 : i + 1 \in 1..n
    BY <1>1
  <2>2. \A i \in 1 .. n - 1 : q[i + 1] \in Seq(X)
    BY <1>1, <2>1
  <2> QED
    BY <1>3, <2>2
<1>5. PICK f \in [0 .. n - 1 -> Seq(X)] :
        f[0] = q[1] /\ \A i \in 1 .. n - 1 : f[i] = F[i][f[i - 1]]
  <2>1. q[1] \in Seq(X)
    BY <1>1
  <2>2. LoopRuns(n - 1, Seq(X), q[1], F) # {}
    <3> HIDE DEF F
    <3> QED
      BY <1>1, <1>4, <2>1, LoopExists
  <2> HIDE DEF F
  <2> QED
    BY <2>2 DEF LoopRuns
<1> DEFINE g == [i \in 1..n |-> f[i - 1]]
<1>6. \A i \in 1 .. n - 1 : f[i] = f[i - 1] \o q[i + 1]
  <2> SUFFICES ASSUME NEW i \in 1 .. n - 1 PROVE f[i] = f[i - 1] \o q[i + 1]
    OBVIOUS
  <2>1. i - 1 \in 0 .. n - 1
    BY <1>1
  <2>2. f[i - 1] \in Seq(X) /\ f[i] = F[i][f[i - 1]]
    BY <1>5, <2>1
  <2> QED
    BY <2>2
<1>7. Runs(g)
  <2> DEFINE h == [i \in 1..n |-> IF i = 1 THEN q[i] ELSE g[i - 1] \o q[i]]
  <2>1. ASSUME NEW i \in 1..n PROVE g[i] = h[i]
    <3>1. CASE i = 1
      BY <1>5, <3>1
    <3>2. CASE i # 1
      <4>1. i - 1 \in 1 .. n - 1 /\ i - 1 \in 1..n /\ (i - 1) + 1 = i
        BY <1>1, <3>2
      <4>2. f[i - 1] = f[(i - 1) - 1] \o q[i]
        BY <1>6, <4>1
      <4>3. g[i] = f[i - 1] /\ g[i - 1] = f[(i - 1) - 1]
        BY <4>1
      <4> HIDE DEF g
      <4>4. h[i] = g[i - 1] \o q[i]
        BY <3>2
      <4> QED
        BY <4>2, <4>3, <4>4
    <3> QED
      BY <3>1, <3>2
  <2>2. g = h
    BY <2>1
  <2> HIDE DEF g
  <2> QED
    BY <2>2
<1> DEFINE C == CHOOSE C : Runs(C)
<1>8. Runs(C)
  <2> HIDE DEF Runs, g
  <2> QED
    BY <1>7
<1> HIDE DEF C
<1>9. C[1] = q[1] /\ \A i \in 2..n : C[i] = C[i - 1] \o q[i]
  <2>1. \A i \in 1..n : C[i] = IF i = 1 THEN q[i] ELSE C[i - 1] \o q[i]
    BY <1>8, Zenon
  <2>2. 1 \in 1..n /\ \A i \in 2..n : i \in 1..n /\ i # 1
    BY <1>1
  <2> QED
    BY <2>1, <2>2, Zenon
<1> DEFINE c == [i \in 0 .. n - 1 |-> C[i + 1]]
<1>10. \A i \in 0 .. n - 1 : c[i] \in Seq(X)
  <2>1. c[0] \in Seq(X)
    BY <1>1, <1>9
  <2>2. ASSUME NEW i \in 1 .. n - 1, c[i - 1] \in Seq(X) PROVE c[i] \in Seq(X)
    <3>1. i + 1 \in 2..n /\ i + 1 \in 1..n /\ i - 1 \in 0 .. n - 1 /\ (i + 1) - 1 = i
          /\ (i - 1) + 1 = i /\ i \in 0 .. n - 1
      BY <1>1
    <3>2. c[i] = C[i + 1] /\ c[i - 1] = C[i]
      BY <3>1
    <3>3. C[i + 1] = C[i] \o q[i + 1] /\ q[i + 1] \in Seq(X)
      BY <1>1, <1>9, <3>1
    <3> QED
      BY <1>3, <2>2, <3>2, <3>3
  <2> HIDE DEF c
  <2> QED
    BY <1>1, <2>1, <2>2, LoopStays
<1>11. n - 1 \in 0 .. n - 1 /\ c[n - 1] = C[n]
  BY <1>1
<1> QED
  BY <1>2, <1>10, <1>11 DEF C

\* No NAL unit of the streams is shorter than its header.
LEMMA LensType == \A i \in 1..12 : Lens[i] \in Nat /\ Lens[i] >= 2
  BY DEF Lens

\* A NAL unit is packed into a sequence of payloads, and so is an aggregate.
LEMMA PackSeq ==
  ASSUME NEW cd \in NalCodecs, NEW group \in Seq(1..12), Len(group) > 0
  PROVE  PayloadsOf(cd, group) \in Seq(Chunks)
<1>1. CASE Len(group) = 1
  <2> DEFINE n == Nal(group[1])
  <2>1. group[1] \in 1..12
    <3>1. 1 \in 1..Len(group)
      BY <1>1
    <3> QED
      BY <3>1, ElementOfSeq
  <2>2. n.id \in 1..12 /\ n.len \in Nat /\ n.len >= 2
    BY <2>1, LensType DEF Nal
  <2>3. PayloadsOf(cd, group) = rtp_payload_encode_input(cd, PACKET_SIZE, n)
    BY <1>1 DEF PayloadsOf
  <2> HIDE DEF n
  <2>4. Single(n) \in Seq(Chunks)
    <3> DEFINE p == Piece(n, 0, n.len)
               c == Payload("single", <<p>>, FALSE, FALSE)
    <3>1. p \in Bits
      BY <2>2, BitsType
    <3> HIDE DEF p
    <3>2. <<p>> \in Seq(Bits) /\ FALSE \in BOOLEAN
      BY <3>1
    <3>3. c \in Chunks
      BY <3>2, ChunkType
    <3> HIDE DEF c
    <3>4. <<c>> \in Seq(Chunks)
      BY <3>3, SeqOne
    <3> QED
      BY <3>4 DEF Single, c, p
  <2>5. Fragments(cd, PACKET_SIZE, n) \in Seq(Chunks)
    BY <2>2, FragmentsSeq
  <2>6. cd = "H264" \/ cd = "H265"
    BY DEF NalCodecs
  <2> QED
    BY <2>3, <2>4, <2>5, <2>6
       DEF rtp_payload_encode_input, rtp_h264_pack_handler, rtp_h265_pack_handler,
           rtp_h264_pack_nalu, rtp_h265_pack_nalu, rtp_h264_pack_fu_a, rtp_h265_pack_fu
<1>2. CASE Len(group) # 1
  <2> DEFINE ps == [i \in DOMAIN group |-> Piece(Nal(group[i]), 0, Lens[group[i]])]
             c == Payload("agg", ps, FALSE, FALSE)
  <2>1. \A i \in DOMAIN group : group[i] \in 1..12
    OBVIOUS
  <2>2. ASSUME NEW i \in DOMAIN group PROVE Piece(Nal(group[i]), 0, Lens[group[i]]) \in Bits
    <3>1. Nal(group[i]).id \in 1..12 /\ Lens[group[i]] \in Nat
      BY <2>1, LensType DEF Nal
    <3> QED
      BY <3>1, BitsType
  <2>3. ps \in Seq(Bits)
    <3>1. DOMAIN group = 1..Len(group) /\ Len(group) \in Nat
      OBVIOUS
    <3> QED
      BY <2>2, <3>1
  <2> HIDE DEF ps
  <2>4. c \in Chunks
    BY <2>3, ChunkType
  <2>5. PayloadsOf(cd, group) = <<c>>
    BY <1>2 DEF PayloadsOf, ps
  <2> HIDE DEF c
  <2> QED
    BY <2>4, <2>5, SeqOne
<1> QED
  BY <1>1, <1>2

\* The payloads of a run of groups are a sequence.
LEMMA PayloadsSeq ==
  ASSUME NEW cd \in NalCodecs, NEW run \in Seq(Seq(1..12)), Len(run) > 0,
         \A i \in 1..Len(run) : Len(run[i]) > 0
  PROVE  Payloads(cd, run) \in Seq(Chunks)
<1> DEFINE q == [i \in DOMAIN run |-> PayloadsOf(cd, run[i])]
<1>1. DOMAIN run = 1..Len(run) /\ Len(run) \in Nat
  OBVIOUS
<1>2. \A i \in DOMAIN run : PayloadsOf(cd, run[i]) \in Seq(Chunks)
  BY <1>1, PackSeq
<1>3. q \in Seq(Seq(Chunks)) /\ Len(q) = Len(run)
  BY <1>1, <1>2
<1> HIDE DEF q
<1>4. FlattenSeq(q) \in Seq(Chunks)
  BY <1>1, <1>3, FlattenType
<1> QED
  BY <1>4 DEF Payloads, q

\* A function on 1 .. n is a sequence.
LEMMA FcnSeq ==
  ASSUME NEW S, NEW n \in Nat, NEW q \in [1..n -> S]
  PROVE  q \in Seq(S) /\ Len(q) = n
  OBVIOUS

\* The packets on the wire: of one of the two SSRCs, and numbered modulo RTP_SEQMOD.
Wire(q) == /\ q \in Seq(Range(q))
           /\ \A i \in 1..Len(q) : q[i].ssrc \in {1, 2} /\ q[i].seq \in Seqs

\* The packets of a run.
LEMMA PacketsWire ==
  ASSUME NEW cd \in NalCodecs, NEW run \in Seq(Seq(1..12)), Len(run) > 0,
         \A i \in 1..Len(run) : Len(run[i]) > 0, NEW ssrc \in {1, 2}, NEW start \in Nat
  PROVE  Wire(Packets(cd, run, ssrc, start))
<1> DEFINE ps == Payloads(cd, run)
           P(i) == [ssrc |-> ssrc, seq |-> U16(start + i - 1), ts |-> ps[i].pieces[1].nal,
                    payload |-> ps[i]]
           q == [i \in DOMAIN ps |-> P(i)]
<1>1. ps \in Seq(Chunks)
  BY PayloadsSeq
<1>2. Packets(cd, run, ssrc, start) = q
  BY DEF Packets
<1> HIDE DEF ps
<1>3. DOMAIN ps = 1..Len(ps) /\ Len(ps) \in Nat
  BY <1>1
<1>4. ASSUME NEW i \in 1..Len(ps) PROVE P(i).ssrc \in {1, 2} /\ P(i).seq \in Seqs
  <2>1. start + i - 1 \in Int
    BY <1>3
  <2>2. U16(start + i - 1) \in Seqs
    BY <2>1, Windows DEF U16, Seqs
  <2> QED
    BY <2>2
<1> HIDE DEF P
<1>5. q \in Seq(Range(q)) /\ Len(q) = Len(ps) /\ \A i \in 1..Len(ps) : q[i] = P(i)
  <2>1. q = [i \in 1..Len(ps) |-> P(i)] /\ DOMAIN q = 1..Len(ps)
    BY <1>3
  <2>2. \A i \in 1..Len(ps) : q[i] \in Range(q)
    BY <2>1 DEF Range
  <2> HIDE DEF q
  <2>3. q \in [1..Len(ps) -> Range(q)]
    BY <2>1, <2>2
  <2>4. q \in Seq(Range(q)) /\ Len(q) = Len(ps)
    BY <1>3, <2>3, FcnSeq
  <2>5. \A i \in 1..Len(ps) : q[i] = P(i)
    BY <2>1
  <2> QED
    BY <2>4, <2>5
<1> QED
  BY <1>2, <1>4, <1>5 DEF Wire

\* One run behind another.
LEMMA WireConcat ==
  ASSUME NEW a, NEW b, Wire(a), Wire(b)
  PROVE  Wire(a \o b)
<1> DEFINE S == Range(a) \cup Range(b)
           c == a \o b
<1>1. a \in Seq(S) /\ b \in Seq(S) /\ Len(a) \in Nat /\ Len(b) \in Nat
  BY DEF Wire
<1> HIDE DEF S
<1>2. /\ c \in Seq(S) /\ Len(c) = Len(a) + Len(b)
      /\ \A i \in 1 .. Len(a) + Len(b) : c[i] = IF i <= Len(a) THEN a[i] ELSE b[i - Len(a)]
  BY <1>1, ConcatProperties
<1> HIDE DEF c
<1>3. ASSUME NEW i \in 1..Len(c) PROVE c[i].ssrc \in {1, 2} /\ c[i].seq \in Seqs
  <2>1. CASE i <= Len(a)
    BY <1>1, <1>2, <2>1 DEF Wire
  <2>2. CASE ~(i <= Len(a))
    <3>1. i - Len(a) \in 1..Len(b)
      BY <1>1, <1>2, <2>2
    <3> QED
      BY <1>2, <2>2, <3>1 DEF Wire
  <2> QED
    BY <2>1, <2>2
<1>4. c \in Seq(Range(c))
  <2>1. c \in [1..Len(c) -> Range(c)] /\ Len(c) \in Nat
    BY <1>2 DEF Range
  <2> QED
    BY <2>1
<1> QED
  BY <1>3, <1>4 DEF Wire, c

\* What a scenario sends, before and after the restart of the sender.
LEMMA StreamWire ==
  ASSUME NEW c \in Scenarios
  PROVE  Wire(Stream[c])
<1>1. c.codec \in NalCodecs /\ c.first \in Nat /\ c.second \in Nat
  BY LinkAssumption DEF LinkAssumption
<1>2. /\ FirstRun \in Seq(Seq(1..12)) /\ Len(FirstRun) > 0
      /\ \A i \in 1..Len(FirstRun) : Len(FirstRun[i]) > 0
  BY DEF FirstRun
<1>3. /\ SecondRun \in Seq(Seq(1..12)) /\ Len(SecondRun) > 0
      /\ \A i \in 1..Len(SecondRun) : Len(SecondRun[i]) > 0
  BY DEF SecondRun
<1>4. Wire(Packets(c.codec, FirstRun, 1, c.first))
  BY <1>1, <1>2, PacketsWire
<1>5. Wire(Packets(c.codec, SecondRun, 2, c.second))
  BY <1>1, <1>3, PacketsWire
<1> QED
  BY <1>4, <1>5, WireConcat DEF Stream

-----------------------------------------------------------------------------
\* The reorder queue.

\* The packets of a set that are numbered modulo RTP_SEQMOD.
Numbered(S) == \A p \in S : p.seq \in Seqs

\* The queues of packets of S.
Queue(S) ==
  [items : Seq(S), probation : Nat, first_seq : Seqs, last_seq : Seqs, bad : Seq(S),
   bad_seq : Nat, threshold : {0, JITTER}]

\* The fields of a queue.
LEMMA QueFields ==
  ASSUME NEW S, NEW q \in Queue(S)
  PROVE  /\ q.items \in Seq(S) /\ q.probation \in Nat /\ q.first_seq \in Seqs
         /\ q.last_seq \in Seqs /\ q.bad \in Seq(S) /\ q.bad_seq \in Nat
         /\ q.threshold \in {0, JITTER} /\ Len(q.items) \in Nat /\ Len(q.bad) \in Nat
<1>1. /\ q.items \in Seq(S) /\ q.probation \in Nat /\ q.first_seq \in Seqs
      /\ q.last_seq \in Seqs /\ q.bad \in Seq(S) /\ q.bad_seq \in Nat
      /\ q.threshold \in {0, JITTER}
  BY DEF Queue
<1> QED
  BY <1>1

\* One field of a queue set.
LEMMA QuePut ==
  ASSUME NEW S, NEW q \in Queue(S)
  PROVE  /\ \A x \in Seq(S) : LET p == [q EXCEPT !.items = x] IN
              p \in Queue(S) /\ p.items = x /\ p.bad = q.bad /\ p.probation = q.probation
              /\ p.first_seq = q.first_seq /\ p.threshold = q.threshold
         /\ \A x \in Seq(S) : LET p == [q EXCEPT !.bad = x] IN
              p \in Queue(S) /\ p.items = q.items /\ p.bad = x
         /\ \A x \in Nat : LET p == [q EXCEPT !.probation = x] IN
              p \in Queue(S) /\ p.items = q.items /\ p.bad = q.bad
         /\ \A x \in Nat : LET p == [q EXCEPT !.bad_seq = x] IN
              p \in Queue(S) /\ p.items = q.items /\ p.bad = q.bad
         /\ \A x \in Seqs : LET p == [q EXCEPT !.first_seq = x] IN
              p \in Queue(S) /\ p.items = q.items /\ p.bad = q.bad
         /\ \A x \in Seqs : LET p == [q EXCEPT !.last_seq = x] IN
              p \in Queue(S) /\ p.items = q.items /\ p.bad = q.bad
<1>1. ASSUME NEW x \in Seq(S) PROVE LET p == [q EXCEPT !.items = x] IN
         p \in Queue(S) /\ p.items = x /\ p.bad = q.bad /\ p.probation = q.probation
         /\ p.first_seq = q.first_seq /\ p.threshold = q.threshold
  BY DEF Queue
<1>2. ASSUME NEW x \in Seq(S) PROVE LET p == [q EXCEPT !.bad = x] IN
         p \in Queue(S) /\ p.items = q.items /\ p.bad = x
  BY DEF Queue
<1>3. ASSUME NEW x \in Nat PROVE LET p == [q EXCEPT !.probation = x] IN
         p \in Queue(S) /\ p.items = q.items /\ p.bad = q.bad
  BY DEF Queue
<1>4. ASSUME NEW x \in Nat PROVE LET p == [q EXCEPT !.bad_seq = x] IN
         p \in Queue(S) /\ p.items = q.items /\ p.bad = q.bad
  BY DEF Queue
<1>5. ASSUME NEW x \in Seqs PROVE LET p == [q EXCEPT !.first_seq = x] IN
         p \in Queue(S) /\ p.items = q.items /\ p.bad = q.bad
  BY DEF Queue
<1>6. ASSUME NEW x \in Seqs PROVE LET p == [q EXCEPT !.last_seq = x] IN
         p \in Queue(S) /\ p.items = q.items /\ p.bad = q.bad
  BY DEF Queue
<1> QED
  BY <1>1, <1>2, <1>3, <1>4, <1>5, <1>6, Zenon

\* rtp_queue_find(): the search stays inside the items, and ends at 0 or at a position
\* to insert at.
LEMMA FindPosition ==
  ASSUME NEW S, Numbered(S), NEW q \in Queue(S), NEW seq \in Seqs
  PROVE  rtp_queue_find(q, seq) \in 0 .. Len(q.items) + 1
<1> DEFINE n == Len(q.items)
           Behind(s) == U16(q.last_seq - s)
           Halve(l, r) ==
             LET i == (l + r) \div 2
                 vi == Behind(q.items[i].seq)
             IN  CASE l >= r -> <<l, r>>
                   [] l < r /\ vi = Behind(seq) -> <<0, 0>>
                   [] l < r /\ vi < Behind(seq) -> <<l, i>>
                   [] l < r /\ vi > Behind(seq) -> <<i + 1, r>>
           Runs(W) == W = [k \in 0..n |-> IF k = 0 THEN <<1, n + 1>>
                                          ELSE LET w == W[k - 1] IN Halve(w[1], w[2])]
           T == {w \in (0 .. n + 1) \X (0 .. n + 1) : w = <<0, 0>> \/ (w[1] >= 1 /\ w[2] >= 1)}
           F == [k \in 1..n |-> [w \in T |-> Halve(w[1], w[2])]]
<1>0. n \in Nat /\ q.items \in Seq(S) /\ q.last_seq \in Seqs
  BY QueFields
<1>1. rtp_queue_find(q, seq) = (CHOOSE W : Runs(W))[n][1]
  BY Zenon DEF rtp_queue_find
<1>2. \A i \in 1..n : Behind(q.items[i].seq) \in Nat
  <2>1. \A i \in 1..n : q.items[i].seq \in Seqs
    BY <1>0 DEF Numbered
  <2>2. \A s \in Seqs : Behind(s) \in Seqs
    BY <1>0, Distance
  <2> QED
    BY <2>1, <2>2, Windows DEF Seqs
<1>3. Behind(seq) \in Nat
  BY <1>0, Distance, Windows DEF Seqs
<1> HIDE DEF n, Behind
<1>4. ASSUME NEW w \in T PROVE Halve(w[1], w[2]) \in T
  <2> DEFINE l == w[1]
             r == w[2]
             i == (l + r) \div 2
             vi == Behind(q.items[i].seq)
  <2>1. l \in 0 .. n + 1 /\ r \in 0 .. n + 1 /\ w = <<l, r>>
        /\ ((l = 0 /\ r = 0) \/ (l >= 1 /\ r >= 1))
    OBVIOUS
  <2> HIDE DEF l, r
  <2>2. CASE l >= r
    <3>1. ~(l < r)
      BY <1>0, <2>1, <2>2
    <3>2. Halve(l, r) = <<l, r>>
      BY <2>2, <3>1
    <3> QED
      BY <2>1, <3>2 DEF l, r
  <2>3. CASE ~(l >= r)
    <3>1. l < r /\ l >= 1 /\ r >= 1 /\ i \in 1..n /\ i \in l .. r - 1
      BY <1>0, <2>1, <2>3
    <3>2. vi \in Nat
      BY <1>2, <3>1
    <3> HIDE DEF i, vi
    <3> DEFINE h == CASE l >= r -> <<l, r>>
                      [] l < r /\ vi = Behind(seq) -> <<0, 0>>
                      [] l < r /\ vi < Behind(seq) -> <<l, i>>
                      [] l < r /\ vi > Behind(seq) -> <<i + 1, r>>
    <3>3. Halve(l, r) = h
      BY DEF i, vi
    <3>a. <<0, 0>> \in T
      <4>1. 0 \in 0 .. n + 1
        BY <1>0
      <4>2. <<0, 0>> \in (0 .. n + 1) \X (0 .. n + 1)
        BY <4>1, Zenon
      <4> QED
        BY <4>2, Zenon
    <3>b. <<l, i>> \in T
      BY <1>0, <2>1, <3>1
    <3>c. <<i + 1, r>> \in T
      BY <1>0, <2>1, <3>1
    <3> HIDE DEF T
    <3>4. h \in T
      <4>1. CASE vi = Behind(seq)
        BY <2>3, <3>1, <3>a, <1>3, <3>2, <4>1
      <4>2. CASE vi < Behind(seq)
        BY <2>3, <3>1, <3>b, <1>3, <3>2, <4>2
      <4>3. CASE vi > Behind(seq)
        BY <2>3, <3>1, <3>c, <1>3, <3>2, <4>3
      <4>4. vi = Behind(seq) \/ vi < Behind(seq) \/ vi > Behind(seq)
        BY <1>3, <3>2
      <4> QED
        BY <4>1, <4>2, <4>3, <4>4
    <3> QED
      BY <3>3, <3>4 DEF l, r
  <2> QED
    BY <2>2, <2>3
<1> HIDE DEF Halve
<1>5. F \in [1..n -> [T -> T]] /\ <<1, n + 1>> \in T
  BY <1>0, <1>4
<1>6. PICK f \in [0..n -> T] : f[0] = <<1, n + 1>> /\ \A k \in 1..n : f[k] = F[k][f[k - 1]]
  <2>1. n \in Nat
    BY <1>0
  <2> HIDE DEF T, F
  <2>2. LoopRuns(n, T, <<1, n + 1>>, F) # {}
    BY <1>5, <2>1, LoopExists
  <2> QED
    BY <2>2 DEF LoopRuns
<1>7. \A k \in 1..n : f[k] = Halve(f[k - 1][1], f[k - 1][2])
  <2> SUFFICES ASSUME NEW k \in 1..n PROVE f[k] = Halve(f[k - 1][1], f[k - 1][2])
    OBVIOUS
  <2> HIDE DEF T
  <2>1. k - 1 \in 0..n
    BY <1>0
  <2>2. f[k - 1] \in T /\ f[k] = F[k][f[k - 1]]
    BY <1>6, <2>1
  <2> QED
    BY <2>2
<1>8. Runs(f)
  <2> DEFINE g == [k \in 0..n |-> IF k = 0 THEN <<1, n + 1>>
                                  ELSE LET w == f[k - 1] IN Halve(w[1], w[2])]
  <2>1. ASSUME NEW k \in 0..n PROVE f[k] = g[k]
    <3>1. CASE k = 0
      BY <1>6, <3>1
    <3>2. CASE k # 0
      <4>1. k \in 1..n
        BY <1>0, <3>2
      <4> QED
        BY <1>7, <3>2, <4>1
    <3> QED
      BY <3>1, <3>2
  <2> HIDE DEF T
  <2> QED
    BY <1>6, <2>1
<1> DEFINE W == CHOOSE W : Runs(W)
<1>9. Runs(W)
  BY <1>8, Zenon
<1> HIDE DEF W
<1>10. W[0] = <<1, n + 1>> /\ \A k \in 1..n : W[k] = Halve(W[k - 1][1], W[k - 1][2])
  <2>1. \A k \in 0..n : W[k] = IF k = 0 THEN <<1, n + 1>>
                               ELSE Halve(W[k - 1][1], W[k - 1][2])
    BY <1>9, Zenon
  <2>2. 0 \in 0..n /\ \A k \in 1..n : k \in 0..n /\ k # 0
    BY <1>0
  <2> QED
    BY <2>1, <2>2, Zenon
<1>11. \A k \in 0..n : W[k] \in T
  <2>1. W[0] \in T
    BY <1>5, <1>10
  <2>2. \A k \in 1..n : W[k - 1] \in T => W[k] \in T
    BY <1>4, <1>10
  <2> HIDE DEF T, Runs
  <2> QED
    BY <1>0, <2>1, <2>2, LoopStays
<1>12. W[n] \in T
  BY <1>0, <1>11
<1>13. W[n][1] \in 0 .. n + 1
  BY <1>12
<1> QED
  BY <1>1, <1>13 DEF W, n

\* What rtp_queue_insert() does to the items; nothing else changes.
Inserted(S, q, w) ==
  /\ w.q \in Queue(S) /\ w.q.bad = q.bad /\ w.r \in {1, -E2BIG}
  /\ w.r = 1 <=> Len(q.items) < MAX_PACKET
  /\ Len(w.q.items) = Len(q.items) + One(w.r = 1)
  /\ w = Result(w.q, w.r, <<>>)

\* rtp_queue_insert() at any place of the queue.
LEMMA InsertOK ==
  ASSUME NEW S, NEW q \in Queue(S), NEW p \in 1 .. Len(q.items) + 1, NEW pkt \in S
  PROVE  Inserted(S, q, rtp_queue_insert(q, p, pkt))
<1> DEFINE l == q.items
           a == SubSeq(l, 1, p - 1)
           b == SubSeq(l, p, Len(l))
           x == a \o <<pkt>> \o b
           e == [q EXCEPT !.items = SubSeq(@, 1, p - 1) \o <<pkt>> \o SubSeq(@, p, Len(@))]
           w == rtp_queue_insert(q, p, pkt)
<1>0. l \in Seq(S) /\ Len(l) \in Nat /\ MAX_PACKET \in Nat
  BY QueFields, Windows
<1>1. CASE Len(l) >= MAX_PACKET
  <2>1. w = Result(q, -E2BIG, <<>>)
    BY <1>1 DEF rtp_queue_insert
  <2>2. w.q = q /\ w.r = -E2BIG /\ w = Result(w.q, w.r, <<>>)
    BY <2>1 DEF Result
  <2>3. -E2BIG # 1 /\ ~(Len(l) < MAX_PACKET)
    BY <1>0, <1>1 DEF E2BIG
  <2> HIDE DEF w
  <2> QED
    BY <1>0, <2>2, <2>3 DEF Inserted, One, w
<1>2. CASE ~(Len(l) >= MAX_PACKET)
  <2>1. a \in Seq(S) /\ Len(a) = p - 1
    <3>1. 1 \in 1 .. Len(l) + 1 /\ p - 1 \in 1 - 1 .. Len(l)
      BY <1>0
    <3>2. SubSeq(l, 1, p - 1) \in Seq(S) /\ Len(SubSeq(l, 1, p - 1)) = (p - 1) - 1 + 1
      BY <1>0, <3>1, Slice
    <3> QED
      BY <1>0, <3>2
  <2>2. b \in Seq(S) /\ Len(b) = Len(l) - p + 1
    <3>1. p \in 1 .. Len(l) + 1 /\ Len(l) \in p - 1 .. Len(l)
      BY <1>0
    <3> HIDE DEF l
    <3> QED
      BY <1>0, <3>1, Slice
  <2>3. x \in Seq(S) /\ Len(x) = Len(l) + 1
    <3> DEFINE u == <<pkt>>
    <3>1. u \in Seq(S) /\ Len(u) = 1
      OBVIOUS
    <3>c. x = (a \o u) \o b
      OBVIOUS
    <3> HIDE DEF a, b, u, l, x
    <3>2. a \o u \in Seq(S) /\ Len(a \o u) = Len(a) + Len(u)
      BY <2>1, <3>1, ConcatProperties
    <3>3. (a \o u) \o b \in Seq(S) /\ Len((a \o u) \o b) = Len(a \o u) + Len(b)
      BY <2>2, <3>2, ConcatProperties
    <3> QED
      BY <1>0, <2>1, <2>2, <3>1, <3>2, <3>3, <3>c
  <2>4. e = [q EXCEPT !.items = x]
    BY DEF Queue
  <2>5. w = Result(e, 1, <<>>)
    BY <1>2 DEF rtp_queue_insert
  <2> HIDE DEF x, e, w
  <2>7. e \in Queue(S) /\ e.items = x /\ e.bad = q.bad
    BY <2>3, <2>4, QuePut
  <2>8. w.q = e /\ w.r = 1 /\ w = Result(w.q, w.r, <<>>)
    BY <2>5 DEF Result
  <2>9. Len(l) < MAX_PACKET
    BY <1>0, <1>2
  <2> QED
    BY <2>3, <2>7, <2>8, <2>9 DEF Inserted, One, w
<1> QED
  BY <1>1, <1>2

\* rtp_queue_insert() at its end.
LEMMA AppendOK ==
  ASSUME NEW S, NEW q \in Queue(S), NEW pkt \in S
  PROVE  Inserted(S, q, append(q, pkt))
<1>1. Len(q.items) + 1 \in 1 .. Len(q.items) + 1
  BY QueFields
<1> QED
  BY <1>1, InsertOK DEF append

\* What a call of rtp_queue_write() keeps: the arrays are not overrun, and as long as
\* the queue has room for the saved packets too every packet is in the queue, among the
\* saved ones, freed, or left to the caller.
Kept(S, q, w) ==
  /\ w.q \in Queue(S) /\ w.r \in Int /\ Len(w.freed) \in Nat
  /\ Len(w.q.items) <= MAX_PACKET /\ Len(w.q.bad) <= RTP_SEQUENTIAL
  /\ Len(q.items) + Len(q.bad) < MAX_PACKET =>
       Len(w.q.items) + Len(w.q.bad) + Len(w.freed)
         = Len(q.items) + Len(q.bad) + One(w.r > 0)

\* Neither array is overrun.
Bounded(q) == Len(q.items) <= MAX_PACKET /\ Len(q.bad) <= RTP_SEQUENTIAL

\* One packet more on both sides.
LEMMA OneMore ==
  ASSUME NEW a \in Nat, NEW b \in Nat, NEW c \in Nat, NEW d \in Nat, NEW e \in Nat,
         NEW o \in Nat, a + b + c = d + e
  PROVE  (a + o) + b + c = d + e + o
  OBVIOUS

\* The packets of q are those of p, less the freed ones, and pkt is inserted into p.
LEMMA KeptInsert ==
  ASSUME NEW S, NEW q \in Queue(S), Bounded(q), NEW p \in Queue(S), NEW w, Inserted(S, p, w),
         NEW freed, Len(freed) \in Nat, Bounded(p),
         Len(p.items) + Len(p.bad) + Len(freed) = Len(q.items) + Len(q.bad),
         NEW v, v = [w EXCEPT !.freed = freed]
  PROVE  Kept(S, q, v)
<1>1. w.q \in Queue(S) /\ w.q.bad = p.bad /\ w.r \in {1, -E2BIG}
      /\ (w.r = 1 <=> Len(p.items) < MAX_PACKET)
      /\ Len(w.q.items) = Len(p.items) + One(w.r = 1)
      /\ w = Result(w.q, w.r, <<>>)
  BY DEF Inserted
<1>2. v = Result(w.q, w.r, freed)
  BY <1>1 DEF Result
<1>3. v.q = w.q /\ v.r = w.r /\ v.freed = freed
  BY <1>2 DEF Result
<1>4. Len(p.items) \in Nat /\ Len(p.bad) \in Nat /\ Len(q.items) \in Nat /\ Len(q.bad) \in Nat
      /\ MAX_PACKET \in Nat
  BY QueFields, Windows
<1>5. w.r \in Int /\ One(w.r = 1) = One(w.r > 0)
  BY <1>1 DEF E2BIG, One
<1>6. One(w.r = 1) \in {0, 1} /\ (One(w.r = 1) = 1 => Len(p.items) < MAX_PACKET)
  BY <1>1 DEF One
<1>7. Len(w.q.items) <= MAX_PACKET /\ Len(w.q.bad) <= RTP_SEQUENTIAL
  BY <1>1, <1>4, <1>6 DEF Bounded
<1>8. Len(v.q.items) + Len(v.q.bad) + Len(v.freed) = Len(q.items) + Len(q.bad) + One(v.r > 0)
  <2>1. Len(v.q.items) = Len(p.items) + One(v.r > 0) /\ Len(v.q.bad) = Len(p.bad)
        /\ Len(v.freed) = Len(freed) /\ One(v.r > 0) \in Nat
    BY <1>1, <1>3, <1>5, <1>6
  <2> DEFINE o == One(v.r > 0)
  <2> HIDE DEF o
  <2>2. o \in Nat /\ Len(v.q.items) = Len(p.items) + o
    BY <2>1 DEF o
  <2>3. Len(v.q.items) + Len(v.q.bad) + Len(v.freed) = Len(q.items) + Len(q.bad) + o
    <3> DEFINE a == Len(p.items)
               b == Len(p.bad)
               c == Len(freed)
               d == Len(q.items)
               e == Len(q.bad)
    <3>1. a \in Nat /\ b \in Nat /\ c \in Nat /\ d \in Nat /\ e \in Nat /\ a + b + c = d + e
      BY <1>4
    <3> HIDE DEF a, b, c, d, e
    <3>2. (a + o) + b + c = d + e + o
      BY <2>2, <3>1, OneMore
    <3> QED
      BY <2>1, <2>2, <3>2 DEF a, b, c, d, e
  <2> QED
    BY <2>3 DEF o
<1> QED
  BY <1>1, <1>3, <1>5, <1>7, <1>8 DEF Kept

\* The saved packets are appended, as many as fit.
LEMMA ResyncOK ==
  ASSUME NEW S, NEW q \in Queue(S), Bounded(q), NEW pkt \in S, pkt.seq \in Seqs
  PROVE  Kept(S, q, resync(q, pkt))
<1> DEFINE n == Len(q.bad)
           l == Len(q.items)
           q1 == [q EXCEPT !.bad = <<>>]
           q0 == [q1 EXCEPT !.last_seq = pkt.seq]
           Next1(d, i) == append(d, q.bad[i]).q
           Runs(A) == A = [i \in 0..n |-> IF i = 0 THEN [q EXCEPT !.bad = <<>>, !.last_seq = pkt.seq]
                                          ELSE Next1(A[i - 1], i)]
           St(i) == {d \in Queue(S) : /\ d.bad = <<>> /\ Len(d.items) <= MAX_PACKET
                                      /\ l + i <= MAX_PACKET => Len(d.items) = l + i}
           T == [i \in 0..n |-> St(i)]
           F == [i \in 1..n |-> [d \in St(i - 1) |-> Next1(d, i)]]
<1>0. /\ n \in Nat /\ l \in Nat /\ l <= MAX_PACKET /\ MAX_PACKET \in Nat
      /\ q.bad \in Seq(S) /\ \A i \in 1..n : q.bad[i] \in S
  BY QueFields, Windows DEF Bounded
<1>1. q0 = [q EXCEPT !.bad = <<>>, !.last_seq = pkt.seq]
  OBVIOUS
<1>2. q0 \in St(0)
  <2>1. <<>> \in Seq(S)
    OBVIOUS
  <2>2. q1 \in Queue(S) /\ q1.items = q.items /\ q1.bad = <<>>
    <3> DEFINE x == <<>>
    <3>1. x \in Seq(S) /\ q1 = [q EXCEPT !.bad = x]
      BY <2>1
    <3> HIDE DEF x, q1
    <3>2. q1 \in Queue(S) /\ q1.items = q.items /\ q1.bad = x
      BY <3>1, QuePut
    <3> QED
      BY <3>2 DEF x
  <2> HIDE DEF q1
  <2>3. q0 \in Queue(S) /\ q0.items = q.items /\ q0.bad = <<>>
    BY <2>2, QuePut
  <2> HIDE DEF q0
  <2> QED
    BY <1>0, <2>3
<1>3. resync(q, pkt) = append((CHOOSE A : Runs(A))[n], pkt)
  BY Zenon DEF resync
<1> HIDE DEF q0, q1
<1>4. ASSUME NEW i \in 1..n, NEW d \in St(i - 1) PROVE Next1(d, i) \in St(i)
  <2> DEFINE w == append(d, q.bad[i])
  <2>1. d \in Queue(S) /\ d.bad = <<>> /\ Len(d.items) <= MAX_PACKET
        /\ (l + (i - 1) <= MAX_PACKET => Len(d.items) = l + (i - 1))
        /\ Len(d.items) \in Nat
    BY QueFields
  <2>2. Inserted(S, d, w)
    BY <1>0, <2>1, AppendOK
  <2> HIDE DEF w
  <2>3. w.q \in Queue(S) /\ w.q.bad = <<>> /\ (w.r = 1 <=> Len(d.items) < MAX_PACKET)
        /\ Len(w.q.items) = Len(d.items) + One(w.r = 1)
    BY <2>1, <2>2 DEF Inserted
  <2>a. Len(w.q.items) = IF Len(d.items) < MAX_PACKET THEN Len(d.items) + 1 ELSE Len(d.items)
    <3>1. CASE Len(d.items) < MAX_PACKET
      <4>1. One(w.r = 1) = 1
        BY <2>3, <3>1 DEF One
      <4> QED
        BY <2>3, <3>1, <4>1
    <3>2. CASE ~(Len(d.items) < MAX_PACKET)
      <4>1. One(w.r = 1) = 0
        BY <2>3, <3>2 DEF One
      <4> QED
        BY <2>1, <2>3, <3>2, <4>1
    <3> QED
      BY <3>1, <3>2
  <2>4. Len(w.q.items) <= MAX_PACKET
    BY <1>0, <2>1, <2>a
  <2>5. l + i <= MAX_PACKET => Len(w.q.items) = l + i
    BY <1>0, <2>1, <2>a
  <2>6. w.q \in St(i)
    BY <2>3, <2>4, <2>5
  <2> QED
    BY <2>6 DEF w
<1> HIDE DEF Next1, St, l, n
<1>5. \A i \in 0..n : T[i] = St(i)
  OBVIOUS
<1>6. \A i \in 1..n : i - 1 \in 0..n /\ i \in 0..n
  BY <1>0
<1>7. \A i \in 1..n : F[i] \in [T[i - 1] -> T[i]]
  BY <1>4, <1>5, <1>6
<1>t. q0 \in T[0]
  BY <1>0, <1>2, <1>5
<1>8. StagedRuns(n, T, q0, F) # {}
  <2> HIDE DEF T, F
  <2> QED
    BY <1>0, <1>7, <1>t, StagesExist
<1>9. PICK f \in StagedRuns(n, T, q0, F) : TRUE
  BY <1>8
<1>10. /\ f[0] = q0 /\ f = [i \in 0..n |-> f[i]]
       /\ \A i \in 1..n : f[i - 1] \in T[i - 1] /\ f[i] = F[i][f[i - 1]]
  <2> HIDE DEF T, F
  <2> QED
    BY <1>9 DEF StagedRuns
<1>11. \A i \in 1..n : f[i] = Next1(f[i - 1], i)
  BY <1>5, <1>6, <1>10
<1>12. Runs(f)
  <2> DEFINE g == [i \in 0..n |-> IF i = 0 THEN q0 ELSE Next1(f[i - 1], i)]
  <2>1. ASSUME NEW i \in 0..n PROVE f[i] = g[i]
    <3>1. CASE i = 0
      BY <1>10, <3>1
    <3>2. CASE i # 0
      <4>1. i \in 1..n
        BY <1>0, <3>2
      <4> QED
        BY <1>11, <3>2, <4>1
    <3> QED
      BY <3>1, <3>2
  <2>2. f = g
    BY <1>10, <2>1
  <2> QED
    BY <1>1, <2>2
<1> DEFINE A == CHOOSE A : Runs(A)
<1>13. Runs(A)
  BY <1>12, Zenon
<1> HIDE DEF A
<1>14. A[0] = q0 /\ \A i \in 1..n : A[i] = Next1(A[i - 1], i)
  <2>1. \A i \in 0..n : A[i] = IF i = 0 THEN q0 ELSE Next1(A[i - 1], i)
    BY <1>1, <1>13, Zenon
  <2>2. 0 \in 0..n /\ \A i \in 1..n : i \in 0..n /\ i # 0
    BY <1>0
  <2> QED
    BY <2>1, <2>2, Zenon
<1>15. \A i \in 0..n : A[i] \in T[i]
  <2>1. A[0] \in T[0]
    BY <1>t, <1>14
  <2>2. \A i \in 1..n : A[i - 1] \in T[i - 1] => A[i] \in T[i]
    BY <1>4, <1>5, <1>6, <1>14
  <2> HIDE DEF T, Runs
  <2> QED
    BY <1>0, <2>1, <2>2, StagesStay
<1>16. A[n] \in St(n)
  BY <1>0, <1>5, <1>15
<1> DEFINE d == A[n]
           w == append(d, pkt)
<1> HIDE DEF d
<1>17. d \in Queue(S) /\ d.bad = <<>> /\ Len(d.items) <= MAX_PACKET /\ Len(d.items) \in Nat
       /\ (l + n <= MAX_PACKET => Len(d.items) = l + n)
  BY <1>16, QueFields DEF St, d
<1>18. Inserted(S, d, w)
  BY <1>17, AppendOK
<1> HIDE DEF w
<1>19. /\ w.q \in Queue(S) /\ w.q.bad = <<>> /\ w.r \in {1, -E2BIG}
       /\ (w.r = 1 <=> Len(d.items) < MAX_PACKET)
       /\ Len(w.q.items) = Len(d.items) + One(w.r = 1) /\ w = Result(w.q, w.r, <<>>)
  BY <1>17, <1>18 DEF Inserted
<1>20. w.freed = <<>> /\ Len(<<>>) = 0 /\ w.r \in Int /\ One(w.r = 1) = One(w.r > 0)
  BY <1>19 DEF Result, E2BIG, One
<1>21. Len(w.q.items) <= MAX_PACKET /\ Len(w.q.bad) <= RTP_SEQUENTIAL
  <2>1. Len(w.q.items) = IF Len(d.items) < MAX_PACKET THEN Len(d.items) + 1 ELSE Len(d.items)
    <3>1. CASE Len(d.items) < MAX_PACKET
      <4>1. One(w.r = 1) = 1
        BY <1>19, <3>1 DEF One
      <4> QED
        BY <1>19, <3>1, <4>1
    <3>2. CASE ~(Len(d.items) < MAX_PACKET)
      <4>1. One(w.r = 1) = 0
        BY <1>19, <3>2 DEF One
      <4> QED
        BY <1>17, <1>19, <3>2, <4>1
    <3> QED
      BY <3>1, <3>2
  <2>2. Len(w.q.bad) = 0
    BY <1>19, <1>20
  <2> QED
    BY <1>0, <1>17, <2>1, <2>2, Windows
<1>22. ASSUME l + n < MAX_PACKET
       PROVE  Len(w.q.items) + Len(w.q.bad) + Len(w.freed) = l + n + One(w.r > 0)
  <2>1. Len(d.items) = l + n /\ w.r = 1
    BY <1>0, <1>17, <1>19, <1>22
  <2> QED
    BY <1>0, <1>19, <1>20, <2>1 DEF One
<1>23. Kept(S, q, w)
  BY <1>19, <1>20, <1>21, <1>22 DEF Kept, l, n
<1>24. resync(q, pkt) = w
  BY <1>3 DEF w, d, A
<1> QED
  BY <1>23, <1>24

\* The saved packets are dropped, or all packets are.
LEMMA ResetOK ==
  ASSUME NEW S, NEW q \in Queue(S)
  PROVE  LET k == rtp_queue_reset_bad_items(q)
             r == rtp_queue_reset(q) IN
         /\ k \in Queue(S) /\ k.items = q.items /\ k.bad = <<>>
         /\ r \in Queue(S) /\ r.items = <<>> /\ r.bad = <<>>
<1> DEFINE x == <<>>
           k == rtp_queue_reset_bad_items(q)
           r == rtp_queue_reset(q)
           a == [q EXCEPT !.bad = x]
           b == [k EXCEPT !.items = x]
<1>0. x \in Seq(S) /\ 0 \in Nat /\ RTP_SEQUENTIAL \in Nat
  BY Windows
<1>1. k = [a EXCEPT !.bad_seq = 0]
  BY DEF rtp_queue_reset_bad_items
<1>2. r = [b EXCEPT !.probation = RTP_SEQUENTIAL]
  BY DEF rtp_queue_reset
<1> HIDE DEF x, k, r
<1>3. a \in Queue(S) /\ a.items = q.items /\ a.bad = x
  BY <1>0, QuePut
<1> HIDE DEF a
<1>4. k \in Queue(S) /\ k.items = q.items /\ k.bad = x
  BY <1>0, <1>1, <1>3, QuePut
<1>5. b \in Queue(S) /\ b.items = x /\ b.bad = x
  BY <1>0, <1>4, QuePut
<1> HIDE DEF b
<1>6. r \in Queue(S) /\ r.items = x /\ r.bad = x
  BY <1>0, <1>2, <1>5, QuePut
<1> QED
  BY <1>4, <1>6 DEF x, k, r

\* rtp_queue_write() while the queue is on probation.
LEMMA ProbationOK ==
  ASSUME NEW S, Numbered(S), NEW q \in Queue(S), Bounded(q), NEW pkt \in S, q.probation > 0
  PROVE  Kept(S, q, write_on_probation(q, pkt))
<1> DEFINE next == q.items # <<>> /\ pkt.seq = q.last_seq + 1
           first == q.items = <<>> /\ q.probation = 1
           p == CASE next -> [q EXCEPT !.probation = @ - 1,
                                       !.first_seq = IF q.probation = 1
                                                     THEN q.items[1].seq ELSE @]
                  [] first -> [q EXCEPT !.probation = 0, !.first_seq = pkt.seq]
                  [] OTHER -> rtp_queue_reset(q)
           freed == IF next \/ first THEN <<>> ELSE q.bad \o q.items
           p1 == [p EXCEPT !.last_seq = pkt.seq]
           w == append(p1, pkt)
<1>0. /\ pkt.seq \in Seqs /\ Len(q.items) \in Nat /\ Len(q.bad) \in Nat /\ q.probation \in Nat
      /\ q.items \in Seq(S) /\ q.bad \in Seq(S)
      /\ q.first_seq \in Seqs /\ 0 \in Nat
  BY QueFields DEF Numbered
<1>1. write_on_probation(q, pkt) = [w EXCEPT !.freed = freed]
  BY DEF write_on_probation
<1> DEFINE OK == /\ p \in Queue(S) /\ Len(freed) \in Nat /\ Bounded(p)
                 /\ Len(p.items) + Len(p.bad) + Len(freed) = Len(q.items) + Len(q.bad)
<1>2. ASSUME next PROVE OK
  <2> DEFINE v == IF q.probation = 1 THEN q.items[1].seq ELSE q.first_seq
             y == q.probation - 1
             a == [q EXCEPT !.probation = y]
  <2>1. ~first
    BY <1>2
  <2>2. v \in Seqs /\ y \in Nat
    <3>1. 1 \in 1..Len(q.items)
      BY <1>0, <1>2
    <3>2. q.items[1] \in S
      BY <1>0, <3>1, ElementOfSeq
    <3> QED
      BY <1>0, <3>2 DEF Numbered
  <2>3. p = [q EXCEPT !.probation = @ - 1,
                      !.first_seq = IF q.probation = 1 THEN q.items[1].seq ELSE @]
    BY <1>2, <2>1
  <2>4. p = [a EXCEPT !.first_seq = v]
    BY <2>3
  <2>5. freed = <<>>
    BY <1>2
  <2> HIDE DEF v, y, p, freed
  <2>6. a \in Queue(S) /\ a.items = q.items /\ a.bad = q.bad
    BY <2>2, QuePut
  <2> HIDE DEF a
  <2>7. p \in Queue(S) /\ p.items = q.items /\ p.bad = q.bad
    BY <2>2, <2>4, <2>6, QuePut
  <2>8. Len(freed) = 0
    BY <2>5
  <2> QED
    BY <1>0, <2>7, <2>8 DEF Bounded
<1>3. ASSUME first, ~next PROVE OK
  <2> DEFINE a == [q EXCEPT !.probation = 0]
  <2>3. p = [q EXCEPT !.probation = 0, !.first_seq = pkt.seq]
    BY <1>3
  <2>4. p = [a EXCEPT !.first_seq = pkt.seq]
    BY <2>3
  <2>5. freed = <<>>
    BY <1>3
  <2> HIDE DEF p, freed
  <2>6. a \in Queue(S) /\ a.items = q.items /\ a.bad = q.bad
    BY <1>0, QuePut
  <2> HIDE DEF a
  <2>7. p \in Queue(S) /\ p.items = q.items /\ p.bad = q.bad
    BY <1>0, <2>4, <2>6, QuePut
  <2>8. Len(freed) = 0
    BY <2>5
  <2> QED
    BY <1>0, <2>7, <2>8 DEF Bounded
<1>4. ASSUME ~first, ~next PROVE OK
  <2>1. p = rtp_queue_reset(q) /\ freed = q.bad \o q.items
    BY <1>4
  <2> HIDE DEF p, freed
  <2>2. p \in Queue(S) /\ p.items = <<>> /\ p.bad = <<>>
    BY <2>1, ResetOK
  <2>3. Len(p.items) = 0 /\ Len(p.bad) = 0
    BY <2>2
  <2>4. Len(freed) = Len(q.bad) + Len(q.items)
    BY <1>0, <2>1, ConcatProperties
  <2>5. Bounded(p)
    BY <2>3, Windows DEF Bounded
  <2>6. Len(p.items) + Len(p.bad) + Len(freed) = Len(q.items) + Len(q.bad)
        /\ Len(freed) \in Nat
    <3>1. Len(q.items) \in Nat /\ Len(q.bad) \in Nat
      BY <1>0
    <3> DEFINE a == Len(p.items)
               b == Len(p.bad)
               c == Len(freed)
               d == Len(q.items)
               e == Len(q.bad)
    <3>2. d \in Nat /\ e \in Nat /\ a = 0 /\ b = 0 /\ c = e + d
      BY <2>3, <2>4, <3>1
    <3> HIDE DEF a, b, c, d, e
    <3>3. a + b + c = d + e /\ c \in Nat
      BY <3>2
    <3> QED
      BY <3>3 DEF a, b, c, d, e
  <2> QED
    BY <2>2, <2>5, <2>6
<1>5. OK
  BY <1>2, <1>3, <1>4, Zenon
<1> HIDE DEF p, freed
<1>6. p1 \in Queue(S) /\ p1.items = p.items /\ p1.bad = p.bad
  BY <1>0, <1>5, QuePut
<1> HIDE DEF p1
<1>7. Inserted(S, p1, w)
  BY <1>6, AppendOK
<1> HIDE DEF w
<1>8. Bounded(p1) /\ Len(p1.items) + Len(p1.bad) + Len(freed) = Len(q.items) + Len(q.bad)
  BY <1>5, <1>6 DEF Bounded
<1>9. Len(freed) \in Nat
  BY <1>5
<1> HIDE DEF OK
<1> QED
  BY <1>1, <1>6, <1>7, <1>8, <1>9, KeptInsert

\* rtp_queue_write() of a packet out of the window.
LEMMA BadOK ==
  ASSUME NEW S, Numbered(S), NEW q \in Queue(S), Bounded(q), NEW pkt \in S
  PROVE  Kept(S, q, write_bad(q, pkt))
<1> DEFINE follows == q.bad # <<>> /\ q.bad_seq = pkt.seq
           p == IF follows THEN q ELSE rtp_queue_reset_bad_items(q)
           freed == IF follows THEN <<>> ELSE q.bad
           x == Append(p.bad, pkt)
           y == (pkt.seq + 1) % (RTP_SEQMOD - 1)
           a == [p EXCEPT !.bad = x]
           b == [a EXCEPT !.bad_seq = y]
           v == Result(b, 1, freed)
<1>0. /\ pkt.seq \in Seqs /\ Len(q.items) \in Nat /\ Len(q.bad) \in Nat
      /\ q.items \in Seq(S) /\ q.bad \in Seq(S)
  BY QueFields DEF Numbered
<1>1. CASE follows /\ Len(q.bad) >= RTP_SEQUENTIAL
  <2>1. write_bad(q, pkt) = resync(q, pkt)
    BY <1>1 DEF write_bad
  <2> QED
    BY <1>0, <2>1, ResyncOK
<1>2. CASE ~(follows /\ Len(q.bad) >= RTP_SEQUENTIAL)
  <2>1. write_bad(q, pkt) = Result([p EXCEPT !.bad = Append(@, pkt), !.bad_seq = y], 1, freed)
    BY <1>2 DEF write_bad
  <2>2. /\ p \in Queue(S) /\ Len(freed) \in Nat /\ Len(p.bad) \in Nat /\ p.items = q.items
        /\ Len(p.bad) < RTP_SEQUENTIAL /\ Len(p.bad) + Len(freed) = Len(q.bad)
        /\ p.bad \in Seq(S)
    <3>1. CASE follows
      BY <1>0, <1>2, <3>1, Windows
    <3>2. CASE ~follows
      <4>1. p = rtp_queue_reset_bad_items(q) /\ freed = q.bad
        BY <3>2
      <4> HIDE DEF p, freed
      <4>2. p \in Queue(S) /\ p.items = q.items /\ p.bad = <<>>
        BY <4>1, ResetOK
      <4> QED
        BY <1>0, <4>1, <4>2, Windows
    <3> QED
      BY <3>1, <3>2
  <2> HIDE DEF p, freed
  <2>3. [p EXCEPT !.bad = Append(@, pkt), !.bad_seq = y] = b
    BY <2>2 DEF Queue
  <2>4. x \in Seq(S) /\ Len(x) = Len(p.bad) + 1
    BY <2>2
  <2>5. y \in Nat
    <3>1. pkt.seq + 1 \in Nat /\ RTP_SEQMOD - 1 \in Nat /\ RTP_SEQMOD - 1 > 0
      BY <1>0, Windows DEF Seqs
    <3> DEFINE m == RTP_SEQMOD - 1
               k == pkt.seq + 1
    <3> HIDE DEF m, k
    <3>2. k \in Nat /\ m \in Nat /\ m > 0
      BY <3>1 DEF m, k
    <3>3. k % m \in Nat
      BY <3>2
    <3> QED
      BY <3>3 DEF m, k
  <2> HIDE DEF x, y
  <2>6. a \in Queue(S) /\ a.items = q.items /\ a.bad = x
    BY <2>2, <2>4, QuePut
  <2> HIDE DEF a
  <2>7. b \in Queue(S) /\ b.items = q.items /\ b.bad = x
    BY <2>5, <2>6, QuePut
  <2>8. v.q = b /\ v.r = 1 /\ v.freed = freed
    BY DEF Result
  <2>9. write_bad(q, pkt) = v
    BY <2>1, <2>3
  <2> HIDE DEF b, v
  <2>10. One(v.r > 0) = 1
    BY <2>8 DEF One
  <2>11. Len(v.q.items) <= MAX_PACKET /\ Len(v.q.bad) <= RTP_SEQUENTIAL
    BY <1>0, <2>2, <2>4, <2>7, <2>8, Windows DEF Bounded
  <2>12. Len(v.q.items) + Len(v.q.bad) + Len(v.freed) = Len(q.items) + Len(q.bad) + 1
    <3>1. /\ Len(v.q.items) = Len(q.items) /\ Len(v.q.bad) = Len(p.bad) + 1
          /\ Len(v.freed) = Len(freed)
      BY <2>4, <2>7, <2>8
    <3>2. /\ Len(q.items) \in Nat /\ Len(p.bad) \in Nat /\ Len(freed) \in Nat
          /\ Len(p.bad) + Len(freed) = Len(q.bad)
      BY <1>0, <2>2
    <3> DEFINE x1 == Len(v.q.items)
               x2 == Len(v.q.bad)
               x3 == Len(v.freed)
               y1 == Len(q.items)
               y2 == Len(q.bad)
               z1 == Len(p.bad)
               z2 == Len(freed)
    <3>3. /\ y1 \in Nat /\ z1 \in Nat /\ z2 \in Nat /\ z1 + z2 = y2 /\ x1 = y1
          /\ x2 = z1 + 1 /\ x3 = z2
      BY <3>1, <3>2
    <3> HIDE DEF x1, x2, x3, y1, y2, z1, z2
    <3>4. x1 + x2 + x3 = y1 + y2 + 1
      BY <3>3
    <3> QED
      BY <3>4 DEF x1, x2, x3, y1, y2
  <2>13. Kept(S, q, v)
    <3>1. v.q \in Queue(S) /\ v.r \in Int /\ Len(v.freed) \in Nat
      BY <2>2, <2>7, <2>8
    <3> QED
      BY <2>10, <2>11, <2>12, <3>1, Zenon DEF Kept
  <2> QED
    BY <2>9, <2>13
<1> QED
  BY <1>1, <1>2

\* Nothing happens to a packet that is there already or too late.
LEMMA KeptSame ==
  ASSUME NEW S, NEW q \in Queue(S), Bounded(q)
  PROVE  Kept(S, q, Result(q, -1, <<>>))
<1> DEFINE w == Result(q, -1, <<>>)
<1>1. w.q = q /\ w.r = -1 /\ w.freed = <<>>
  BY DEF Result
<1>2. Len(w.freed) = 0 /\ One(w.r > 0) = 0 /\ Len(q.items) \in Nat /\ Len(q.bad) \in Nat
  BY <1>1, QueFields DEF One
<1> HIDE DEF w
<1>3. Len(w.q.items) + Len(w.q.bad) + Len(w.freed) = Len(q.items) + Len(q.bad) + One(w.r > 0)
  BY ONLY <1>1, <1>2
<1>4. /\ w.q \in Queue(S) /\ w.r \in Int /\ Len(w.freed) \in Nat
      /\ Len(w.q.items) <= MAX_PACKET /\ Len(w.q.bad) <= RTP_SEQUENTIAL
  BY <1>1, <1>2 DEF Bounded
<1>5. Kept(S, q, w)
  BY <1>3, <1>4, Zenon DEF Kept
<1> QED
  BY <1>5 DEF w

\* rtp_queue_write() of a packet.
LEMMA WriteOK ==
  ASSUME NEW S, Numbered(S), NEW q \in Queue(S), Bounded(q), NEW pkt \in S
  PROVE  Kept(S, q, rtp_queue_write(q, pkt))
<1> DEFINE delta == U16(pkt.seq - q.last_seq)
           kept == rtp_queue_reset_bad_items(q)
           idx == rtp_queue_find(q, pkt.seq)
           A == q.probation > 0
           B == q.probation = 0 /\ 0 < delta /\ delta < RTP_DROPOUT
           C == q.probation = 0 /\ I16(delta) <= 0
                /\ I16(delta) >= I16(q.first_seq - q.last_seq)
           w == rtp_queue_write(q, pkt)
<1>0. /\ pkt.seq \in Seqs /\ Len(q.items) \in Nat /\ Len(q.bad) \in Nat /\ q.probation \in Nat
      /\ q.last_seq \in Seqs
  BY QueFields DEF Numbered
<1>k. /\ kept \in Queue(S) /\ kept.items = q.items /\ kept.bad = <<>> /\ Len(kept.bad) = 0
      /\ Bounded(kept) /\ Len(kept.items) + Len(kept.bad) + Len(q.bad) = Len(q.items) + Len(q.bad)
  <2>1. kept \in Queue(S) /\ kept.items = q.items /\ kept.bad = <<>>
    BY ResetOK
  <2>2. Len(kept.bad) = 0
    BY <2>1
  <2> QED
    BY <1>0, <2>1, <2>2, Windows DEF Bounded
<1>f. idx \in 0 .. Len(q.items) + 1
  BY <1>0, FindPosition
<1>d. delta \in Nat
  <2>1. delta \in Seqs
    BY <1>0, Distance
  <2> QED
    BY <2>1, Windows DEF Seqs
<1> HIDE DEF delta, kept, idx
<1>1. CASE A
  <2>1. ~B /\ ~C
    BY <1>1
  <2>2. w = write_on_probation(q, pkt)
    BY <1>1, <2>1 DEF rtp_queue_write, delta, kept, idx
  <2> QED
    BY <1>1, <2>2, ProbationOK
<1>2. CASE B
  <2> DEFINE p == [kept EXCEPT !.last_seq = pkt.seq]
             v == append(p, pkt)
  <2>1. ~A
    BY <1>2
  <2>2. ~C
    <3>1. delta < RTP_SEQMOD \div 2 /\ RTP_DROPOUT \in Nat /\ RTP_SEQMOD \div 2 <= RTP_SEQMOD
      BY <1>2, <1>d, QueueAssumption DEF QueueAssumption
    <3>2. U16(delta) = delta
      BY <1>d, <3>1, Windows DEF U16
    <3>3. I16(delta) = delta
      BY <3>1, <3>2 DEF I16
    <3> QED
      BY <1>2, <1>d, <3>3
  <2>3. w = [v EXCEPT !.freed = q.bad]
    BY <1>2, <2>1, <2>2 DEF rtp_queue_write, delta, kept, idx
  <2>4. p \in Queue(S) /\ p.items = kept.items /\ p.bad = kept.bad
    BY <1>0, <1>k, QuePut
  <2> HIDE DEF p
  <2>5. Inserted(S, p, v)
    BY <2>4, AppendOK
  <2> HIDE DEF v
  <2>6. Bounded(p) /\ Len(p.items) + Len(p.bad) + Len(q.bad) = Len(q.items) + Len(q.bad)
    BY <1>k, <2>4 DEF Bounded
  <2> QED
    BY <1>0, <2>3, <2>4, <2>5, <2>6, KeptInsert
<1>3. CASE C /\ ~B
  <2>1. ~A
    BY <1>3
  <2>2. CASE idx = 0
    <3>1. w = Result(q, -1, <<>>)
      BY <1>3, <2>1, <2>2 DEF rtp_queue_write, delta, kept, idx
    <3> QED
      BY <3>1, KeptSame
  <2>3. CASE idx # 0
    <3> DEFINE v == rtp_queue_insert(kept, idx, pkt)
    <3>1. w = [v EXCEPT !.freed = q.bad]
      BY <1>3, <2>1, <2>3 DEF rtp_queue_write, delta, kept, idx
    <3>2. idx \in 1 .. Len(kept.items) + 1
      BY <1>0, <1>f, <1>k, <2>3
    <3>3. Inserted(S, kept, v)
      BY <1>k, <3>2, InsertOK
    <3> HIDE DEF v
    <3> QED
      BY <1>0, <1>k, <3>1, <3>3, KeptInsert
  <2> QED
    BY <2>2, <2>3
<1>4. CASE ~A /\ ~B /\ ~C
  <2>1. w = IF U16(q.first_seq - pkt.seq) < RTP_MISORDER
            THEN Result(q, -1, <<>>) ELSE write_bad(q, pkt)
    BY <1>4 DEF rtp_queue_write, delta, kept, idx
  <2>2. CASE U16(q.first_seq - pkt.seq) < RTP_MISORDER
    BY <2>1, <2>2, KeptSame
  <2>3. CASE ~(U16(q.first_seq - pkt.seq) < RTP_MISORDER)
    BY <2>1, <2>3, BadOK
  <2> QED
    BY <2>2, <2>3
<1> QED
  BY <1>1, <1>2, <1>3, <1>4

\* rtp_queue_read(): the head leaves the queue.
LEMMA ReadOK ==
  ASSUME NEW S, Numbered(S), NEW q \in Queue(S), q.items # <<>>
  PROVE  LET r == rtp_queue_read(q) IN
         /\ r.pkt \in S /\ r.q \in Queue(S) /\ r.q.bad = q.bad
         /\ Len(r.q.items) = Len(q.items) - 1 /\ Len(q.items) >= 1
<1> DEFINE head == q.items[1]
           x == Tail(q.items)
           y == IF q.threshold = 0 \/ q.first_seq = head.seq
                THEN U16(q.first_seq + 1) ELSE U16(head.seq + 1)
           a == [q EXCEPT !.items = x]
           b == [a EXCEPT !.first_seq = y]
           r == rtp_queue_read(q)
<1>0. q.items \in Seq(S) /\ Len(q.items) \in Nat /\ q.first_seq \in Seqs
  BY QueFields
<1>1. Len(q.items) >= 1 /\ x \in Seq(S) /\ Len(x) = Len(q.items) - 1
  BY <1>0
<1>2. head \in S
  <2>1. 1 \in 1..Len(q.items)
    BY <1>0, <1>1
  <2> QED
    BY <1>0, <2>1, ElementOfSeq
<1>3. head.seq \in Seqs
  BY <1>2 DEF Numbered
<1>4. \A s \in Seqs : U16(s + 1) \in Seqs
  <2> SUFFICES ASSUME NEW s \in Seqs PROVE U16(s + 1) \in Seqs
    OBVIOUS
  <2>1. s + 1 \in Int
    BY Windows DEF Seqs
  <2> DEFINE k == s + 1
  <2> HIDE DEF k
  <2>2. k % RTP_SEQMOD \in 0 .. RTP_SEQMOD - 1
    BY <2>1, Windows DEF k
  <2> QED
    BY <2>2 DEF U16, Seqs, k
<1>5. y \in Seqs
  BY <1>0, <1>3, <1>4
<1>6. [q EXCEPT !.items = Tail(@),
                !.first_seq = IF q.threshold = 0 \/ @ = head.seq
                              THEN U16(@ + 1) ELSE U16(head.seq + 1)] = b
  BY DEF Queue
<1>7. r.pkt = head /\ r.q = b
  BY <1>6 DEF rtp_queue_read
<1> HIDE DEF x, y, head, r
<1>8. a \in Queue(S) /\ a.items = x /\ a.bad = q.bad
  BY <1>1, QuePut
<1> HIDE DEF a
<1>9. b \in Queue(S) /\ b.items = x /\ b.bad = q.bad
  BY <1>5, <1>8, QuePut
<1> HIDE DEF b
<1> QED
  BY <1>1, <1>2, <1>7, <1>9 DEF r

\* A packet that is read goes to the session as one of somebody else.
OfSenders(S) == Numbered(S) /\ \A p \in S : p.ssrc \in {1, 2}

\* The loop that hands out packets: each one read leaves the queue and is given back.
Drained(S, q0, d) ==
  /\ d.q \in Queue(S) /\ d.q.bad = q0.bad /\ d.c \in Sessions /\ d.n \in Nat
  /\ Len(d.q.items) = Len(q0.items) - d.n /\ d.n <= Len(q0.items)

\* Before the first turn.
LEMMA UndrainedOK ==
  ASSUME NEW S, NEW q0 \in Queue(S), session \in Sessions
  PROVE  Drained(S, q0, undrained(q0))
<1>1. undrained(q0).q = q0 /\ undrained(q0).c = session /\ undrained(q0).n = 0
  BY DEF undrained
<1>2. Len(q0.items) \in Nat
  BY QueFields
<1> QED
  BY <1>1, <1>2 DEF Drained

\* After the last one, whether the queue ran dry or the payload handler failed.
LEMMA DrainOK ==
  ASSUME NEW S, OfSenders(S), NEW q0 \in Queue(S), session \in Sessions
  PROVE  Drained(S, q0, drain(q0))
<1> DEFINE n == Len(q0.items)
           s == undrained(q0)
           Step(d) ==
             LET r == rtp_queue_read(d.q)
                 o == rtp_payload_decode_input(unpacker_kind, d.u, r.pkt, RTP_SEQMOD)
             IN  [q |-> r.q, u |-> o.u, out |-> d.out \o o.out, n |-> d.n + 1,
                  c |-> rtcp_input_rtp(d.c, r.pkt.ssrc, r.pkt.seq), go |-> o.r >= 0]
           Turn(d) == IF d.go /\ readable(d.q) THEN Step(d) ELSE d
           Runs(f, k) == f = [i \in 0..k |-> IF i = 0 THEN s ELSE Turn(f[i - 1])]
           K == {k \in Nat : \E f : Runs(f, k)}
<1>0. n \in Nat
  BY QueFields
<1>1. drain(q0) = (CHOOSE f : Runs(f, n))[n]
  BY Zenon DEF drain
<1>2. ASSUME NEW d, Drained(S, q0, d) PROVE Drained(S, q0, Turn(d))
  <2> DEFINE r == rtp_queue_read(d.q)
             e == Step(d)
  <2>1. CASE ~(d.go /\ readable(d.q))
    BY <1>2, <2>1
  <2>2. CASE d.go /\ readable(d.q)
    <3>1. d.q \in Queue(S) /\ d.q.items # <<>> /\ Numbered(S)
      BY <1>2, <2>2 DEF Drained, readable, OfSenders
    <3>2. /\ r.pkt \in S /\ r.q \in Queue(S) /\ r.q.bad = d.q.bad
          /\ Len(r.q.items) = Len(d.q.items) - 1 /\ Len(d.q.items) >= 1
      BY <3>1, ReadOK
    <3>3. e.q = r.q /\ e.n = d.n + 1 /\ e.c = rtcp_input_rtp(d.c, r.pkt.ssrc, r.pkt.seq)
      BY Zenon
    <3> HIDE DEF r, e
    <3>4. r.pkt.ssrc \in Ssrcs /\ r.pkt.ssrc # self /\ r.pkt.seq \in Seqs
      BY <3>2, LinkAssumption DEF OfSenders, Numbered, LinkAssumption, self
    <3>5. d.c \in Sessions /\ SessionOK(d.c)
      BY <1>2 DEF Drained, Sessions
    <3>6. SessionOK(e.c)
      BY <3>3, <3>4, <3>5, InputRtpOK
    <3>7. e.c \in Sessions
      BY <3>6 DEF Sessions, SessionOK
    <3>8. d.n \in Nat /\ Len(d.q.items) = n - d.n /\ d.n <= n /\ d.q.bad = q0.bad
      BY <1>2 DEF Drained
    <3> HIDE DEF n
    <3>9. e.n \in Nat /\ Len(e.q.items) = n - e.n /\ e.n <= n
      BY <1>0, <3>2, <3>3, <3>8
    <3>10. Drained(S, q0, e)
      BY <3>2, <3>3, <3>7, <3>8, <3>9 DEF Drained, n
    <3> QED
      BY <2>2, <3>10 DEF e
  <2> QED
    BY <2>1, <2>2
<1> HIDE DEF Turn, s, n
<1>3. 0 \in K
  <2> DEFINE f == [i \in 0..0 |-> s]
  <2>1. Runs(f, 0)
    OBVIOUS
  <2> QED
    BY <2>1
<1>4. ASSUME NEW k \in Nat, k \in K PROVE k + 1 \in K
  <2>1. PICK f : Runs(f, k)
    BY <1>4
  <2>2. \A i \in 0..k : f[i] = IF i = 0 THEN s ELSE Turn(f[i - 1])
    BY <2>1, Zenon
  <2> DEFINE g == [i \in 0 .. k + 1 |-> IF i <= k THEN f[i] ELSE Turn(f[k])]
  <2>3. ASSUME NEW i \in 0 .. k + 1
        PROVE  g[i] = IF i = 0 THEN s ELSE Turn(g[i - 1])
    <3>1. CASE i = 0
      BY <2>2, <3>1
    <3>2. CASE i # 0 /\ i <= k
      <4>1. i - 1 \in 0 .. k + 1 /\ i - 1 <= k /\ i \in 0..k
        BY <3>2
      <4>2. g[i] = f[i] /\ g[i - 1] = f[i - 1]
        BY <3>2, <4>1
      <4> QED
        BY <2>2, <3>2, <4>1, <4>2
    <3>3. CASE i = k + 1
      <4>1. g[k] = f[k] /\ g[k + 1] = Turn(f[k]) /\ i - 1 = k /\ i # 0
        BY <3>3
      <4> QED
        BY <3>3, <4>1
    <3> QED
      BY <3>1, <3>2, <3>3
  <2>4. Runs(g, k + 1)
    <3> DEFINE h == [i \in 0 .. k + 1 |-> IF i = 0 THEN s ELSE Turn(g[i - 1])]
    <3>1. \A i \in 0 .. k + 1 : g[i] = h[i]
      BY <2>3
    <3> QED
      BY <3>1
  <2>5. \E h : Runs(h, k + 1)
    <3> HIDE DEF g, Runs
    <3> QED
      BY <2>4
  <2> QED
    BY <2>5
<1>5. \E f : Runs(f, n)
  <2>1. n \in K
    <3> HIDE DEF K
    <3> QED
      BY <1>0, <1>3, <1>4, NatSetInduction
  <2> QED
    BY <2>1
<1> DEFINE D == CHOOSE f : Runs(f, n)
<1>6. Runs(D, n)
  <2> HIDE DEF Runs
  <2> QED
    BY <1>5
<1> HIDE DEF D
<1>7. \A i \in 0..n : D[i] = IF i = 0 THEN s ELSE Turn(D[i - 1])
  BY <1>6, Zenon
<1> DEFINE G == {k \in Nat : k <= n => Drained(S, q0, D[k])}
<1>8. 0 \in G
  <2>1. D[0] = s
    BY <1>0, <1>7
  <2> QED
    BY <2>1, UndrainedOK DEF s
<1>9. ASSUME NEW k \in Nat, k \in G PROVE k + 1 \in G
  <2> SUFFICES ASSUME k + 1 <= n PROVE Drained(S, q0, D[k + 1])
    OBVIOUS
  <2>1. k + 1 \in 0..n /\ k + 1 # 0 /\ (k + 1) - 1 = k /\ k <= n
    BY <1>0
  <2>2. D[k + 1] = Turn(D[k])
    BY <1>7, <2>1
  <2>3. Drained(S, q0, D[k])
    BY <1>9, <2>1
  <2> QED
    BY <1>2, <2>2, <2>3
<1>10. Drained(S, q0, D[n])
  <2>1. n \in G
    <3> HIDE DEF G
    <3> QED
      BY <1>0, <1>8, <1>9, NatSetInduction
  <2> QED
    BY <1>0, <2>1
<1> QED
  BY <1>1, <1>10 DEF D

-----------------------------------------------------------------------------
\* The receiver.

\* Whoever is listed is referred to as often as listed, and once more when it is the
\* session's own; nothing of the session is left when it is closed.
SessionInv ==
  /\ state # "closed" => session \in Sessions
  /\ state = "closed" => /\ session \in Session
                         /\ session.members = <<>> /\ session.senders = <<>>
                         /\ \A s \in Ssrcs : session.mem[s].ref = 0

\* What may arrive: what was sent, whole or damaged.
Arriving == Range(sent) \cup UNION {Damaged(pkt) : pkt \in Range(sent)}

\* The invariant of the receiver: what is queued was sent, the arrays are not overrun,
\* and the session is right.
LinkInv ==
  /\ scenario \in Scenarios /\ state \in {"open", "found", "closed"}
  /\ nxt \in 1 .. Len(sent) + 1 /\ held \subseteq 1 .. nxt - 1
  /\ queue \in Queue(Arriving) /\ Bounded(queue)
  /\ spare \in BOOLEAN /\ SessionInv

\* Every packet buffer is in the queue, among the saved packets or the spare one.
HeapInv == heap = Len(queue.items) + Len(queue.bad) + One(spare)

\* The queue has room for the saved packets and one more.
Room == Len(queue.items) + Len(queue.bad) < MAX_PACKET

\* What is sent is a sequence of packets of the two senders.
LEMMA SentWire ==
  ASSUME LinkInv
  PROVE  /\ sent \in Seq(Range(sent)) /\ Len(sent) \in Nat /\ OfSenders(Range(sent))
         /\ \A i \in 1..Len(sent) : sent[i] \in Range(sent)
         /\ OfSenders(Arriving) /\ Range(sent) \subseteq Arriving
         /\ \A i \in 1..Len(sent) : Damaged(sent[i]) \subseteq Arriving
<1>1. Wire(sent)
  BY StreamWire DEF LinkInv, sent
<1>2. sent \in Seq(Range(sent)) /\ Len(sent) \in Nat /\ DOMAIN sent = 1..Len(sent)
  BY <1>1 DEF Wire
<1>3. OfSenders(Range(sent))
  BY <1>1, <1>2 DEF OfSenders, Numbered, Wire, Range
<1>4. \A i \in 1..Len(sent) : sent[i] \in Range(sent)
  BY <1>2 DEF Range
<1> DEFINE S == Range(sent)
<1> HIDE DEF S
<1>5. \A pkt \in S : \A x \in Damaged(pkt) : x.seq = pkt.seq /\ x.ssrc = pkt.ssrc
  BY DEF Damaged
<1>6. OfSenders(S \cup UNION {Damaged(pkt) : pkt \in S})
  <2>1. OfSenders(S)
    BY <1>3 DEF S
  <2> QED
    BY <1>5, <2>1 DEF OfSenders, Numbered
<1>7. OfSenders(Arriving)
  BY <1>6 DEF Arriving, S
<1> QED
  BY <1>2, <1>3, <1>4, <1>7 DEF Arriving

\* It depends on the scenario only.
LEMMA ArrivingSame == scenario' = scenario => sent' = sent /\ Arriving' = Arriving
  BY DEF sent, Arriving

\* rtp_demuxer_input().
LEMMA InputOK ==
  ASSUME LinkInv, NEW pkt \in Arriving, rtp_demuxer_input(pkt)
  PROVE  /\ scenario' = scenario /\ state' \in {"open", "found"} /\ state = "open"
         /\ queue' \in Queue(Arriving) /\ Bounded(queue') /\ session' \in Sessions
         /\ spare' \in BOOLEAN /\ use' = use /\ rtcps' = rtcps
         /\ Room => Len(queue'.items) + Len(queue'.bad) <= Len(queue.items) + Len(queue.bad) + 1
         /\ Room /\ HeapInv => HeapInv'
<1> DEFINE S == Arriving
           w == rtp_queue_write(queue, pkt)
           d == IF w.r > 0 THEN drain(w.q) ELSE undrained(w.q)
           given == Len(w.freed) + (IF w.r > 0 THEN d.n ELSE 1)
<1>1. /\ state = "open" /\ queue' = d.q /\ session' = d.c
      /\ heap' = rtp_demuxer_freepkt(rtp_demuxer_alloc(heap, spare), FALSE, given)
      /\ spare' = (given > 0) /\ scenario' = scenario /\ use' = use /\ rtcps' = rtcps
      /\ state' \in {"found", state}
  BY DEF rtp_demuxer_input
<1> HIDE DEF d
<1>2. OfSenders(S) /\ Numbered(S) /\ queue \in Queue(S) /\ Bounded(queue) /\ spare \in BOOLEAN
  BY SentWire DEF OfSenders, LinkInv
<1>3. session \in Sessions
  BY <1>1 DEF LinkInv, SessionInv
<1> HIDE DEF S
<1>s. pkt \in S
  BY DEF S
<1>4. Kept(S, queue, w)
  BY <1>2, <1>s, WriteOK
<1> HIDE DEF w
<1>5. /\ w.q \in Queue(S) /\ w.r \in Int /\ Len(w.freed) \in Nat
      /\ Len(w.q.items) <= MAX_PACKET /\ Len(w.q.bad) <= RTP_SEQUENTIAL
      /\ Room => Len(w.q.items) + Len(w.q.bad) + Len(w.freed)
                   = Len(queue.items) + Len(queue.bad) + One(w.r > 0)
  BY <1>4, Zenon DEF Kept, Room
<1>6. Drained(S, w.q, d)
  <2>1. CASE w.r > 0
    <3>1. d = drain(w.q)
      BY <2>1 DEF d
    <3> QED
      BY <1>2, <1>3, <1>5, <3>1, DrainOK
  <2>2. CASE ~(w.r > 0)
    <3>1. d = undrained(w.q)
      BY <2>2 DEF d
    <3> QED
      BY <1>3, <1>5, <3>1, UndrainedOK
  <2> QED
    BY <2>1, <2>2
<1>7. w.r > 0 \/ d.n = 0
  <2>1. CASE ~(w.r > 0)
    <3>1. d = undrained(w.q)
      BY <2>1 DEF d
    <3> QED
      BY <3>1 DEF undrained
  <2> QED
    BY <2>1
<1>8. /\ d.q \in Queue(S) /\ d.q.bad = w.q.bad /\ d.c \in Sessions /\ d.n \in Nat
      /\ Len(d.q.items) = Len(w.q.items) - d.n /\ d.n <= Len(w.q.items)
  BY <1>6 DEF Drained
<1>9. /\ Len(w.q.items) \in Nat /\ Len(w.q.bad) \in Nat /\ MAX_PACKET \in Nat
      /\ Len(queue.items) \in Nat /\ Len(queue.bad) \in Nat
  BY <1>2, <1>5, QueFields, Windows
<1>10. Bounded(d.q)
  <2>1. Len(d.q.items) <= MAX_PACKET
    BY <1>5, <1>8, <1>9
  <2> QED
    BY <1>5, <1>8, <2>1 DEF Bounded
<1>11. given \in Nat
  BY <1>5, <1>8
<1>12. spare' \in BOOLEAN
  BY <1>1, <1>11
<1> DEFINE I == Len(queue.items)
           B == Len(queue.bad)
           wI == Len(w.q.items)
           wB == Len(w.q.bad)
           wF == Len(w.freed)
           n == d.n
           r == w.r
<1>13. /\ I \in Nat /\ B \in Nat /\ wI \in Nat /\ wB \in Nat /\ wF \in Nat /\ n \in Nat
       /\ n <= wI /\ r \in Int /\ (r > 0 \/ n = 0)
       /\ given = wF + (IF r > 0 THEN n ELSE 1)
       /\ (Room => wI + wB + wF = I + B + One(r > 0))
       /\ Len(queue'.items) = wI - n /\ Len(queue'.bad) = wB
       /\ (HeapInv => heap = I + B + One(spare))
       /\ (heap' = (wI - n) + wB + One(given > 0) => HeapInv')
  <2>1. Len(queue'.items) = wI - n /\ Len(queue'.bad) = wB
    BY <1>1, <1>8
  <2>2. heap' = (wI - n) + wB + One(given > 0) => HeapInv'
    BY <1>1, <2>1 DEF HeapInv
  <2>3. HeapInv => heap = I + B + One(spare)
    BY DEF HeapInv
  <2> HIDE DEF given
  <2> QED
    BY <1>5, <1>7, <1>8, <1>9, <2>1, <2>2, <2>3 DEF given
<1> HIDE DEF I, B, wI, wB, wF, n, r, given
<1>a. /\ heap' = rtp_demuxer_freepkt(rtp_demuxer_alloc(heap, spare), FALSE, given)
      /\ spare \in BOOLEAN
  BY <1>1, <1>2
<1>14. ASSUME Room, HeapInv PROVE HeapInv'
  <2>1. heap' = (wI - n) + wB + One(given > 0)
    <3>1. heap = I + B + One(spare)
      BY <1>13, <1>14
    <3>2. wI + wB + wF = I + B + One(r > 0)
      BY <1>13, <1>14
    <3>3. given = wF + (IF r > 0 THEN n ELSE 1)
      BY <1>13
    <3>4. /\ I \in Nat /\ B \in Nat /\ wI \in Nat /\ wB \in Nat /\ wF \in Nat /\ n \in Nat
          /\ n <= wI /\ r \in Int /\ (r > 0 \/ n = 0)
      BY <1>13
    <3>5. rtp_demuxer_freepkt(rtp_demuxer_alloc(heap, spare), FALSE, given)
            = (wI - n) + wB + One(given > 0)
      <4>1. rtp_demuxer_alloc(heap, spare) = I + B + 1
        BY <1>a, <3>1, <3>4 DEF rtp_demuxer_alloc, One
      <4>2. CASE r > 0
        <5>1. wI + wB + wF = I + B + 1 /\ given = wF + n
          BY <3>2, <3>3, <4>2 DEF One
        <5> QED
          BY <3>4, <4>1, <5>1 DEF rtp_demuxer_freepkt, One
      <4>3. CASE ~(r > 0)
        <5>1. wI + wB + wF = I + B /\ given = wF + 1 /\ n = 0
          BY <3>2, <3>3, <3>4, <4>3 DEF One
        <5> QED
          BY <3>4, <4>1, <5>1 DEF rtp_demuxer_freepkt, One
      <4> QED
        BY <4>2, <4>3
    <3> QED
      BY <1>a, <3>5
  <2> QED
    BY <1>13, <2>1
<1>15. ASSUME Room PROVE Len(queue'.items) + Len(queue'.bad) <= I + B + 1
  <2>1. wI + wB + wF = I + B + One(r > 0)
    BY <1>13, <1>15
  <2>2. One(r > 0) \in {0, 1}
    BY DEF One
  <2>3. (wI - n) + wB <= I + B + 1
    BY <1>13, <2>1, <2>2
  <2> QED
    BY <1>13, <2>3
<1> QED
  BY <1>1, <1>8, <1>10, <1>12, <1>14, <1>15 DEF S, I, B

\* A new queue.
LEMMA QueueCreate ==
  ASSUME NEW S, NEW t \in {0, JITTER}
  PROVE  /\ rtp_queue_create(t) \in Queue(S) /\ Bounded(rtp_queue_create(t))
         /\ Len(rtp_queue_create(t).items) = 0 /\ Len(rtp_queue_create(t).bad) = 0
<1> DEFINE q == rtp_queue_create(t)
<1>1. q.items = <<>> /\ q.bad = <<>>
  BY DEF rtp_queue_create
<1>2. 0 \in Seqs /\ 1 \in Nat /\ 0 \in Nat /\ <<>> \in Seq(S)
  BY Windows DEF Seqs
<1>3. q \in Queue(S)
  BY <1>2 DEF rtp_queue_create, Queue
<1>4. Len(q.items) = 0 /\ Len(q.bad) = 0
  BY <1>1
<1> QED
  BY <1>3, <1>4, Windows DEF Bounded

\* Both hold initially.
LEMMA LinkStarts == LinkInit => LinkInv /\ HeapInv
<1> SUFFICES ASSUME LinkInit PROVE LinkInv /\ HeapInv
  OBVIOUS
<1>1. /\ scenario \in Scenarios /\ state = "open" /\ nxt = 1 /\ held = {}
      /\ heap = 0 /\ spare = FALSE /\ session = rtp_create
  BY DEF LinkInit
<1>2. PICK t \in {0, JITTER} : queue = rtp_queue_create(t)
  BY DEF LinkInit
<1>3. /\ queue \in Queue(Arriving) /\ Bounded(queue)
      /\ Len(queue.items) = 0 /\ Len(queue.bad) = 0
  BY <1>2, QueueCreate
<1>4. Wire(sent)
  BY <1>1, StreamWire DEF sent
<1>5. Len(sent) \in Nat
  BY <1>4 DEF Wire
<1>6. nxt \in 1 .. Len(sent) + 1 /\ held \subseteq 1 .. nxt - 1
  BY <1>1, <1>5
<1>7. SessionInv
  BY <1>1, CreateOK DEF SessionInv
<1>8. LinkInv
  BY <1>1, <1>3, <1>6, <1>7 DEF LinkInv
<1>9. HeapInv
  BY <1>1, <1>3 DEF HeapInv, One
<1> QED
  BY <1>8, <1>9

\* The datagrams of the model are RTCP packets of others.
LEMMA DatagramsTyped ==
  ASSUME NEW ps \in RtcpDatagrams
  PROVE  ps \in Seq(RtcpPacket)
<1>0. 1 \in Ssrcs /\ 2 \in Ssrcs /\ 1 # self /\ 2 # self
  BY LinkAssumption DEF LinkAssumption, self
<1>1. ASSUME NEW k \in {"SR", "RR", "SDES", "BYE", "FB", "APP"}, NEW s \in {1, 2}
      PROVE  [kind |-> k, ssrcs |-> <<s>>] \in RtcpPacket
  <2>1. /\ <<s>> \in Seq(Ssrcs) /\ <<s>> # <<>> /\ <<s>>[1] = s /\ s # self
        /\ <<s>> \in Seq(Ssrcs \ {self})
    BY <1>0
  <2> DEFINE l == <<s>>
  <2> HIDE DEF l
  <2>2. l \in Seq(Ssrcs) /\ l # <<>> /\ l[1] # self /\ l \in Seq(Ssrcs \ {self})
    BY <2>1 DEF l
  <2>3. [kind |-> k, ssrcs |-> l] \in RtcpPacket
    BY <2>2 DEF RtcpPacket
  <2> QED
    BY <2>3 DEF l
<1>2. CASE \E k \in {"SR", "RR", "SDES", "BYE", "FB", "APP"}, s \in {1, 2} :
              ps = <<[kind |-> k, ssrcs |-> <<s>>]>>
  <2>1. PICK k \in {"SR", "RR", "SDES", "BYE", "FB", "APP"}, s \in {1, 2} :
              ps = <<[kind |-> k, ssrcs |-> <<s>>]>>
    BY <1>2
  <2> DEFINE p == [kind |-> k, ssrcs |-> <<s>>]
  <2>2. p \in RtcpPacket /\ ps = <<p>>
    BY <1>1, <2>1
  <2> HIDE DEF p
  <2> QED
    BY <2>2, SeqOne
<1>3. CASE ps = <<[kind |-> "RR", ssrcs |-> <<2>>], [kind |-> "BYE", ssrcs |-> <<1, 2>>]>>
  <2> DEFINE p == [kind |-> "RR", ssrcs |-> <<2>>]
             l == <<1, 2>>
             r == [kind |-> "BYE", ssrcs |-> l]
  <2>1. p \in RtcpPacket
    BY <1>1
  <2>2. l \in Seq(Ssrcs) /\ l # <<>> /\ l[1] = 1
    BY <1>0
  <2>s. ps = <<p, r>>
    BY <1>3
  <2> HIDE DEF l
  <2>3. r \in RtcpPacket
    BY <1>0, <2>2 DEF RtcpPacket
  <2> HIDE DEF p, r
  <2>4. <<p, r>> \in Seq(RtcpPacket)
    BY <2>1, <2>3
  <2> QED
    BY <2>4, <2>s
<1>4. CASE ps = <<[kind |-> "SDES", ssrcs |-> <<1, 2>>]>>
  <2> DEFINE l == <<1, 2>>
             p == [kind |-> "SDES", ssrcs |-> l]
  <2>1. l \in Seq(Ssrcs) /\ l # <<>> /\ l[1] = 1 /\ l \in Seq(Ssrcs \ {self})
    BY <1>0
  <2>2. ps = <<p>>
    BY <1>4
  <2> HIDE DEF l
  <2>3. p \in RtcpPacket
    BY <1>0, <2>1 DEF RtcpPacket
  <2> HIDE DEF p
  <2> QED
    BY <2>2, <2>3, SeqOne
<1> QED
  BY <1>2, <1>3, <1>4 DEF RtcpDatagrams

\* rtp_demuxer_destroy().
LEMMA DestroyStep ==
  ASSUME LinkInv, rtp_demuxer_destroy
  PROVE  LinkInv' /\ (HeapInv => HeapInv') /\ Len(queue'.items) = 0 /\ Len(queue'.bad) = 0
<1> DEFINE n == Len(queue.items) + Len(queue.bad)
           S == Arriving
<1>1. /\ state \in {"open", "found"} /\ state' = "closed" /\ spare' = FALSE
      /\ heap' = rtp_demuxer_freepkt(heap, spare, n) - (IF spare \/ n > 0 THEN 1 ELSE 0)
      /\ queue' = rtp_queue_reset(queue) /\ session' = rtp_destroy(session)
      /\ scenario' = scenario /\ nxt' = nxt /\ held' = held
  BY DEF rtp_demuxer_destroy, network
<1>2. queue \in Queue(S) /\ session \in Sessions /\ spare \in BOOLEAN
  BY <1>1 DEF LinkInv, SessionInv
<1>3. queue' \in Queue(S) /\ queue'.items = <<>> /\ queue'.bad = <<>>
  <2> HIDE DEF S
  <2> QED
    BY <1>1, <1>2, ResetOK
<1>4. Len(queue'.items) = 0 /\ Len(queue'.bad) = 0
  BY <1>3
<1>5. SessionInv'
  <2>1. /\ session' \in Session /\ session'.members = <<>> /\ session'.senders = <<>>
        /\ \A s \in Ssrcs : session'.mem[s].ref = 0
    BY <1>1, <1>2, DestroyOK
  <2> QED
    BY <1>1, <2>1 DEF SessionInv
<1>6. Bounded(queue')
  BY <1>4, Windows DEF Bounded
<1>7. sent' = sent /\ Arriving' = Arriving
  BY <1>1, ArrivingSame
<1>8. LinkInv'
  <2>1. scenario' \in Scenarios /\ nxt' \in 1 .. Len(sent') + 1 /\ held' \subseteq 1 .. nxt' - 1
    BY <1>1, <1>7 DEF LinkInv
  <2>2. queue' \in Queue(Arriving')
    BY <1>3, <1>7
  <2> QED
    BY <1>1, <1>5, <1>6, <2>1, <2>2 DEF LinkInv
<1>9. ASSUME HeapInv PROVE HeapInv'
  <2>1. n \in Nat
    <3> HIDE DEF S
    <3>1. Len(queue.items) \in Nat /\ Len(queue.bad) \in Nat
      BY <1>2, QueFields
    <3> DEFINE a == Len(queue.items)
               b == Len(queue.bad)
    <3>2. a \in Nat /\ b \in Nat
      BY <3>1
    <3> HIDE DEF a, b
    <3>3. a + b \in Nat
      BY <3>2
    <3> QED
      BY <3>3 DEF a, b
  <2>2. heap = n + One(spare)
    BY <1>9 DEF HeapInv
  <2> HIDE DEF n
  <2>3. heap' = 0
    BY <1>1, <1>2, <2>1, <2>2 DEF rtp_demuxer_freepkt, One
  <2> QED
    BY <1>1, <1>4, <2>3 DEF HeapInv, One
<1> QED
  BY <1>4, <1>8, <1>9

\* What the network takes from the sender.
LEMMA AdvanceOK ==
  ASSUME LinkInv, Advance, scenario' = scenario
  PROVE  /\ sent' = sent /\ nxt \in 1..Len(sent) /\ nxt' = nxt + 1
         /\ nxt' \in 1 .. Len(sent') + 1 /\ sent[nxt] \in Arriving /\ Arriving' = Arriving
         /\ 1 .. nxt - 1 \subseteq 1 .. nxt' - 1 /\ nxt \in 1 .. nxt' - 1
<1>1. sent' = sent /\ Arriving' = Arriving
  BY ArrivingSame
<1>2. Len(sent) \in Nat /\ nxt \in 1 .. Len(sent) + 1 /\ nxt <= Len(sent) /\ nxt' = nxt + 1
  BY SentWire DEF LinkInv, Advance
<1>3. nxt \in 1..Len(sent)
  BY <1>2
<1>4. sent[nxt] \in Arriving
  BY <1>3, SentWire
<1>5. nxt' \in 1 .. Len(sent) + 1 /\ 1 .. nxt - 1 \subseteq 1 .. nxt' - 1 /\ nxt \in 1 .. nxt' - 1
  BY <1>2
<1> QED
  BY <1>1, <1>2, <1>3, <1>4, <1>5

\* Every step preserves LinkInv.
LEMMA LinkStep == LinkInv /\ [LinkNext]_linkVars => LinkInv'
<1> SUFFICES ASSUME LinkInv, [LinkNext]_linkVars PROVE LinkInv'
  OBVIOUS
<1>0. /\ scenario \in Scenarios /\ state \in {"open", "found", "closed"}
      /\ nxt \in 1 .. Len(sent) + 1 /\ held \subseteq 1 .. nxt - 1
      /\ queue \in Queue(Arriving) /\ Bounded(queue)
      /\ spare \in BOOLEAN /\ SessionInv
  BY DEF LinkInv
<1>1. ASSUME Advance, NEW pkt \in Arriving, rtp_demuxer_input(pkt), held' \in {held, held \cup {nxt}}
      PROVE  LinkInv'
  <2>1. /\ scenario' = scenario /\ state' \in {"open", "found"}
        /\ queue' \in Queue(Arriving) /\ Bounded(queue') /\ session' \in Sessions
        /\ spare' \in BOOLEAN
    BY <1>1, InputOK
  <2>2. /\ sent' = sent /\ Arriving' = Arriving /\ nxt' \in 1 .. Len(sent') + 1
        /\ 1 .. nxt - 1 \subseteq 1 .. nxt' - 1 /\ nxt \in 1 .. nxt' - 1
    BY <1>1, <2>1, AdvanceOK
  <2>3. SessionInv'
    BY <2>1 DEF SessionInv
  <2>4. held' \subseteq 1 .. nxt' - 1
    <3> DEFINE A == 1 .. nxt - 1
               B == 1 .. nxt' - 1
    <3>1. held \subseteq A /\ A \subseteq B /\ nxt \in B
      BY <1>0, <2>2
    <3> HIDE DEF A, B
    <3>2. held' \subseteq B
      BY <1>1, <3>1
    <3> QED
      BY <3>2 DEF B
  <2>5. queue' \in Queue(Arriving') /\ scenario' \in Scenarios
    BY <1>0, <2>1, <2>2
  <2> QED
    BY <2>1, <2>2, <2>3, <2>4, <2>5 DEF LinkInv
<1>2. CASE Deliver
  <2>1. Advance /\ rtp_demuxer_input(sent[nxt]) /\ held' = held
    BY <1>2 DEF Deliver
  <2>2. sent[nxt] \in Arriving
    <3>1. nxt \in 1..Len(sent)
      BY <1>0, <2>1, SentWire DEF Advance
    <3> QED
      BY <3>1, SentWire
  <2> QED
    BY <1>1, <2>1, <2>2
<1>3. CASE Duplicate
  <2>1. Advance /\ rtp_demuxer_input(sent[nxt]) /\ held' = held \cup {nxt}
    BY <1>3 DEF Duplicate
  <2>2. sent[nxt] \in Arriving
    <3>1. nxt \in 1..Len(sent)
      BY <1>0, <2>1, SentWire DEF Advance
    <3> QED
      BY <3>1, SentWire
  <2> QED
    BY <1>1, <2>1, <2>2
<1>4. CASE Lose \/ Delay
  <2>1. /\ Advance /\ scenario' = scenario /\ state' = state /\ queue' = queue
        /\ session' = session /\ spare' = spare /\ held' \in {held, held \cup {nxt}}
    BY <1>4 DEF Lose, Delay, demuxerVars
  <2>2. /\ sent' = sent /\ Arriving' = Arriving /\ nxt' \in 1 .. Len(sent') + 1
        /\ 1 .. nxt - 1 \subseteq 1 .. nxt' - 1 /\ nxt \in 1 .. nxt' - 1
    BY <2>1, AdvanceOK
  <2>3. SessionInv'
    BY <1>0, <2>1 DEF SessionInv
  <2>4. held' \subseteq 1 .. nxt' - 1
    <3> DEFINE A == 1 .. nxt - 1
               B == 1 .. nxt' - 1
    <3>1. held \subseteq A /\ A \subseteq B /\ nxt \in B
      BY <1>0, <2>2
    <3> HIDE DEF A, B
    <3>2. held' \subseteq B
      BY <2>1, <3>1
    <3> QED
      BY <3>2 DEF B
  <2>5. queue' \in Queue(Arriving') /\ Bounded(queue')
    BY <1>0, <2>1, <2>2
  <2> QED
    BY <1>0, <2>1, <2>2, <2>3, <2>4, <2>5 DEF LinkInv
<1>5. CASE DeliverLate
  <2>1. PICK i \in held : held' = held \ {i} /\ rtp_demuxer_input(sent[i]) /\ nxt' = nxt
    BY <1>5 DEF DeliverLate
  <2>2. sent[i] \in Arriving
    <3>1. i \in 1..Len(sent)
      BY <1>0, SentWire
    <3> QED
      BY <3>1, SentWire
  <2>3. /\ scenario' = scenario /\ state' \in {"open", "found"}
        /\ queue' \in Queue(Arriving) /\ Bounded(queue') /\ session' \in Sessions
        /\ spare' \in BOOLEAN
    BY <2>1, <2>2, InputOK
  <2>4. sent' = sent /\ Arriving' = Arriving
    BY <2>3, ArrivingSame
  <2>5. SessionInv'
    BY <2>3 DEF SessionInv
  <2>6. /\ queue' \in Queue(Arriving') /\ scenario' \in Scenarios
        /\ nxt' \in 1 .. Len(sent') + 1 /\ held' \subseteq 1 .. nxt' - 1
    BY <1>0, <2>1, <2>3, <2>4
  <2> QED
    BY <2>3, <2>5, <2>6 DEF LinkInv
<1>6. ASSUME scenario' = scenario, state' = state, nxt' = nxt, held' = held, queue' = queue,
             session' \in Sessions \/ session' = session, state = "open" \/ session' = session,
             spare' \in BOOLEAN
      PROVE  LinkInv'
  <2>1. sent' = sent /\ Arriving' = Arriving
    BY <1>6, ArrivingSame
  <2>2. SessionInv'
    BY <1>0, <1>6 DEF SessionInv
  <2>3. /\ queue' \in Queue(Arriving') /\ scenario' \in Scenarios /\ Bounded(queue')
        /\ nxt' \in 1 .. Len(sent') + 1 /\ held' \subseteq 1 .. nxt' - 1
        /\ state' \in {"open", "found", "closed"}
    BY <1>0, <1>6, <2>1
  <2> QED
    BY <1>6, <2>2, <2>3 DEF LinkInv
<1>7. CASE Garbage
  <2>1. /\ scenario' = scenario /\ state' = state /\ nxt' = nxt /\ held' = held
        /\ queue' = queue /\ session' = session /\ spare' \in BOOLEAN
    BY <1>7 DEF Garbage
  <2> QED
    BY <1>6, <2>1
<1>8. CASE Rtcp
  <2>1. PICK ps \in RtcpDatagrams, after \in Ssrcs : session' = rtcp_input_rtcp(session, ps, after)
    BY <1>8 DEF Rtcp
  <2>2. /\ scenario' = scenario /\ state' = state /\ nxt' = nxt /\ held' = held
        /\ queue' = queue /\ spare' = spare /\ state = "open"
    BY <1>8 DEF Rtcp, network
  <2>3. session \in Sessions
    BY <1>0, <2>2 DEF SessionInv
  <2>4. session' \in Sessions
    BY <2>1, <2>3, DatagramsTyped, InputRtcpOK
  <2> QED
    BY <1>0, <1>6, <2>2, <2>4
<1>9. CASE rtp_demuxer_rtcp
  <2>1. /\ scenario' = scenario /\ state' = state /\ nxt' = nxt /\ held' = held
        /\ queue' = queue /\ spare' = spare /\ state = "open"
        /\ session' = rtp_rtcp_report(session)
    BY <1>9 DEF rtp_demuxer_rtcp, network
  <2>2. session \in Sessions
    BY <1>0, <2>1 DEF SessionInv
  <2>3. session' \in Sessions
    BY <2>1, <2>2, ReportOK
  <2> QED
    BY <1>0, <1>6, <2>1, <2>3
<1>10. CASE rtp_demuxer_destroy
  BY <1>10, DestroyStep
<1>11. CASE UNCHANGED linkVars
  BY <1>0, <1>6, <1>11 DEF linkVars
<1>12. CASE Damage
  <2>1. PICK pkt \in Damaged(sent[nxt]) : rtp_demuxer_input(pkt)
    BY <1>12 DEF Damage
  <2>2. Advance /\ held' = held
    BY <1>12 DEF Damage
  <2>3. nxt \in 1..Len(sent)
    BY <1>0, <2>2, SentWire DEF Advance
  <2>4. pkt \in Arriving
    BY <2>3, SentWire
  <2> QED
    BY <1>1, <2>1, <2>2, <2>4
<1> QED
  BY <1>2, <1>3, <1>4, <1>5, <1>7, <1>8, <1>9, <1>10, <1>11, <1>12 DEF LinkNext

\* As long as the queue has room, no buffer is lost and none is freed twice.
LEMMA HeapStep == LinkInv /\ Room /\ HeapInv /\ [LinkNext]_linkVars => HeapInv'
<1> SUFFICES ASSUME LinkInv, Room, HeapInv, [LinkNext]_linkVars PROVE HeapInv'
  OBVIOUS
<1>0. nxt \in 1 .. Len(sent) + 1 /\ held \subseteq 1 .. nxt - 1 /\ spare \in BOOLEAN
      /\ queue \in Queue(Arriving)
  BY DEF LinkInv
<1>1. ASSUME NEW i \in 1..Len(sent), NEW pkt \in {sent[i]} \cup Damaged(sent[i]), rtp_demuxer_input(pkt)
      PROVE  HeapInv'
  <2>1. pkt \in Arriving
    BY <1>1, SentWire
  <2> QED
    BY <1>1, <2>1, InputOK
<1>2. CASE Deliver \/ Duplicate
  <2>1. Advance /\ rtp_demuxer_input(sent[nxt])
    BY <1>2 DEF Deliver, Duplicate
  <2>2. nxt \in 1..Len(sent)
    BY <1>0, <2>1, SentWire DEF Advance
  <2> QED
    BY <1>1, <2>1, <2>2
<1>3. CASE DeliverLate
  <2>1. PICK i \in held : rtp_demuxer_input(sent[i])
    BY <1>3 DEF DeliverLate
  <2>2. i \in 1..Len(sent)
    BY <1>0, SentWire
  <2> QED
    BY <1>1, <2>1, <2>2
<1>4. CASE Lose \/ Delay \/ Rtcp \/ rtp_demuxer_rtcp \/ UNCHANGED linkVars
  <2>1. queue' = queue /\ heap' = heap /\ spare' = spare
    BY <1>4 DEF Lose, Delay, Rtcp, rtp_demuxer_rtcp, linkVars, demuxerVars
  <2> QED
    BY <2>1 DEF HeapInv
<1>5. CASE Garbage
  <2> DEFINE n == Len(queue.items) + Len(queue.bad)
  <2>1. queue' = queue /\ heap' = rtp_demuxer_alloc(heap, spare) /\ spare' = TRUE
    BY <1>5 DEF Garbage
  <2>2. n \in Nat
    <3>1. Len(queue.items) \in Nat /\ Len(queue.bad) \in Nat
      BY <1>0, QueFields
    <3> DEFINE a == Len(queue.items)
               b == Len(queue.bad)
    <3>2. a \in Nat /\ b \in Nat
      BY <3>1
    <3> HIDE DEF a, b
    <3>3. a + b \in Nat
      BY <3>2
    <3> QED
      BY <3>3 DEF a, b
  <2>3. heap = n + One(spare) /\ (HeapInv' <=> heap' = n + One(spare'))
    BY <2>1 DEF HeapInv
  <2> HIDE DEF n
  <2>4. heap' = n + One(spare')
    BY <1>0, <2>1, <2>2, <2>3 DEF rtp_demuxer_alloc, One
  <2> QED
    BY <2>3, <2>4
<1>6. CASE rtp_demuxer_destroy
  BY <1>6, DestroyStep
<1>7. CASE Damage
  <2>1. PICK pkt \in Damaged(sent[nxt]) : rtp_demuxer_input(pkt)
    BY <1>7 DEF Damage
  <2>2. nxt \in 1..Len(sent)
    BY <1>0, <1>7, SentWire DEF Damage, Advance
  <2> QED
    BY <1>1, <2>1, <2>2
<1> QED
  BY <1>2, <1>3, <1>4, <1>5, <1>6, <1>7 DEF LinkNext

\* The lists somebody is in.
LEMMA ListCount ==
  ASSUME NEW c \in Session, NEW s
  PROVE  Cardinality({l \in {"members", "senders"} : s \in Range(c[l])})
           = One(s \in Range(c.members)) + One(s \in Range(c.senders))
<1> DEFINE L == {l \in {"members", "senders"} : s \in Range(c[l])}
           A == s \in Range(c.members)
           B == s \in Range(c.senders)
<1>1. /\ IsFiniteSet({}) /\ Cardinality({}) = 0
      /\ IsFiniteSet({"members"}) /\ Cardinality({"members"}) = 1
      /\ IsFiniteSet({"senders"}) /\ Cardinality({"senders"}) = 1
  BY FS_EmptySet, FS_Singleton
<1>2. Cardinality({"members", "senders"}) = 2
  <2>1. {"members"} \cup {"senders"} = {"members", "senders"} /\ "senders" \notin {"members"}
    OBVIOUS
  <2>2. Cardinality({"members"} \cup {"senders"}) = Cardinality({"members"}) + 1
    BY <1>1, <2>1, FS_AddElement
  <2> QED
    BY <1>1, <2>1, <2>2
<1>3. L = (IF A THEN {"members"} ELSE {}) \cup (IF B THEN {"senders"} ELSE {})
  BY Zenon
<1> HIDE DEF A, B, L
<1>4. CASE A /\ B
  <2>1. L = {"members", "senders"}
    BY <1>3, <1>4
  <2> QED
    BY <1>2, <1>4, <2>1 DEF One, L, A, B
<1>5. CASE A /\ ~B
  <2>1. L = {"members"}
    BY <1>3, <1>5
  <2> QED
    BY <1>1, <1>5, <2>1 DEF One, L, A, B
<1>6. CASE ~A /\ B
  <2>1. L = {"senders"}
    BY <1>3, <1>6
  <2> QED
    BY <1>1, <1>6, <2>1 DEF One, L, A, B
<1>7. CASE ~A /\ ~B
  <2>1. L = {}
    BY <1>3, <1>7
  <2> QED
    BY <1>1, <1>7, <2>1 DEF One, L, A, B
<1> QED
  BY <1>4, <1>5, <1>6, <1>7

\* A member's reference count, from the lists.
LEMMA RefsExact ==
  ASSUME LinkInv, NEW s \in Ssrcs
  PROVE  session.mem[s].ref =
            Cardinality({l \in {"members", "senders"} : s \in Range(session[l])})
            + (IF s = self /\ state # "closed" THEN 1 ELSE 0)
<1> DEFINE A == One(s \in Range(session.members))
           B == One(s \in Range(session.senders))
           N == Cardinality({l \in {"members", "senders"} : s \in Range(session[l])})
<1>0. SessionInv
  BY DEF LinkInv
<1>1. session \in Session
  BY <1>0 DEF SessionInv, Sessions
<1>2. N = A + B
  BY <1>1, ListCount
<1>3. A \in Nat /\ B \in Nat
  BY DEF One
<1>4. CASE state = "closed"
  <2>1. session.members = <<>> /\ session.senders = <<>> /\ session.mem[s].ref = 0
    BY <1>0, <1>4 DEF SessionInv
  <2>2. Range(<<>>) = {}
    BY DEF Range
  <2>3. A = 0 /\ B = 0
    BY <2>1, <2>2 DEF One
  <2> HIDE DEF A, B, N
  <2>4. session.mem[s].ref = N + (IF s = self /\ state # "closed" THEN 1 ELSE 0)
    BY <1>2, <1>4, <2>1, <2>3
  <2> QED
    BY <2>4 DEF N
<1>5. CASE state # "closed"
  <2>1. session.mem[s].ref = A + B + One(s = self)
    BY <1>0, <1>5 DEF SessionInv, Sessions, SessionOK, Refs
  <2> HIDE DEF A, B, N
  <2>2. session.mem[s].ref = N + (IF s = self /\ state # "closed" THEN 1 ELSE 0)
    BY <1>2, <1>5, <2>1 DEF One
  <2> QED
    BY <2>2 DEF N
<1> QED
  BY <1>4, <1>5

\* LinkInv is an invariant of every scenario.
LEMMA LinkInvariant == LinkSpec => []LinkInv
  BY LinkStarts, LinkStep, PTL DEF LinkSpec

\* What a report would say of any sender at any time, through wraps, restarts, losses
\* and reports in between: the numbers received do not go back before the first and the
\* fraction lost fits its octet.
THEOREM ReportsSound == LinkSpec => []ReportSound
<1>1. LinkInv => ReportSound
  <2> SUFFICES ASSUME LinkInv, NEW s \in Reported(session)
               PROVE  /\ extseq(session.mem[s]) >= session.mem[s].base
                      /\ rtcp_report_block(session.mem[s]).fraction \in 0 .. 255
    BY DEF ReportSound
  <2>1. s \in Range(session.senders) /\ session.mem[s].packets > 0
    BY DEF Reported
  <2>2. state # "closed"
    BY <2>1 DEF LinkInv, SessionInv, Range
  <2>3. session \in Session /\ SessionOK(session)
    BY <2>2 DEF LinkInv, SessionInv, Sessions
  <2>4. s \in Ssrcs
    <3>1. session.senders \in Seq(Ssrcs)
      BY <2>3 DEF Session
    <3> QED
      BY <2>1, <3>1 DEF Range
  <2>5. session.mem[s] \in Member /\ Counted(session.mem[s])
    BY <2>3, <2>4 DEF Session, SessionOK
  <2> QED
    BY <2>1, <2>5, FractionFits
<1> QED
  BY <1>1, LinkInvariant, PTL

\* The arrays are not overrun and a member's reference count is the number of lists it is
\* in, and one for the session's own, whoever came, reported or left in any order.
ReferencesExact ==
    /\ Len(queue.items) <= MAX_PACKET /\ Len(queue.bad) <= RTP_SEQUENTIAL + 1
    /\ \A s \in Ssrcs :
         session.mem[s].ref =
            Cardinality({l \in {"members", "senders"} : s \in Range(session[l])})
            + (IF s = self /\ state # "closed" THEN 1 ELSE 0)

\* It follows from LinkInv.
LEMMA InvReferences == LinkInv => ReferencesExact
<1> SUFFICES ASSUME LinkInv PROVE ReferencesExact
  OBVIOUS
<1>1. Len(queue.items) <= MAX_PACKET /\ Len(queue.bad) <= RTP_SEQUENTIAL + 1
  <2>1. Len(queue.items) <= MAX_PACKET /\ Len(queue.bad) <= RTP_SEQUENTIAL
        /\ queue \in Queue(Arriving)
    BY DEF LinkInv, Bounded
  <2>2. Len(queue.bad) \in Nat /\ RTP_SEQUENTIAL \in Nat
    BY <2>1, QueFields, Windows
  <2> DEFINE b == Len(queue.bad)
  <2>3. b \in Nat /\ b <= RTP_SEQUENTIAL
    BY <2>1, <2>2
  <2> HIDE DEF b
  <2>4. b <= RTP_SEQUENTIAL + 1
    BY <2>2, <2>3
  <2> QED
    BY <2>1, <2>4 DEF b
<1>2. \A s \in Ssrcs :
         session.mem[s].ref =
            Cardinality({l \in {"members", "senders"} : s \in Range(session[l])})
            + (IF s = self /\ state # "closed" THEN 1 ELSE 0)
  BY RefsExact
<1> QED
  BY <1>1, <1>2, Zenon DEF ReferencesExact

\* The arrays and the reference counts of librtp, for every limit, SSRC set and scenario,
\* with no condition on how full the queue is.
THEOREM ReferencesCounted == LinkSpec => []ReferencesExact
  BY LinkInvariant, InvReferences, PTL

\* As long as the queue has room for the saved packets too, no packet buffer is lost, none
\* is freed twice, and none is left after rtp_demuxer_destroy().
THEOREM MemoryAccounted == LinkSpec /\ []Room => []MemoryExact
<1>1. LinkInv /\ HeapInv => MemoryExact
  <2> SUFFICES ASSUME LinkInv, HeapInv PROVE MemoryExact
    OBVIOUS
  <2>1. ReferencesExact
    BY InvReferences
  <2>2. heap = Len(queue.items) + Len(queue.bad) + (IF spare THEN 1 ELSE 0)
    BY DEF HeapInv, One
  <2> QED
    BY <2>1, <2>2, Zenon DEF ReferencesExact, MemoryExact
<1> QED
  BY <1>1, LinkStarts, LinkInvariant, HeapStep, PTL DEF LinkSpec

\* The streams of the model fit into the queue, duplicates included.
StreamsFit == \A c \in Scenarios : Len(Stream[c]) + MaxEvents < MAX_PACKET

\* There are no more packets in the queue and under way than were sent or doubled.
FlowInv ==
  /\ IsFiniteSet(held) /\ IsFiniteSet(faults) /\ faults \subseteq 0 .. nxt - 1 /\ rtcps \in Nat
  /\ Cardinality(faults) + rtcps <= MaxEvents
  /\ Len(queue.items) + Len(queue.bad) + Cardinality(held) <= nxt - 1 + Cardinality(faults)

\* Then the queue has room.
LEMMA FlowRoom ==
  ASSUME StreamsFit, LinkInv, FlowInv
  PROVE  /\ Room /\ Len(queue.items) + Len(queue.bad) \in Nat /\ Cardinality(held) \in Nat
         /\ Cardinality(faults) \in Nat /\ nxt \in Nat /\ MaxEvents \in Nat
<1> DEFINE a == Len(queue.items)
           b == Len(queue.bad)
           h == Cardinality(held)
           f == Cardinality(faults)
           l == Len(sent)
<1>1. a \in Nat /\ b \in Nat
  <2>1. queue \in Queue(Arriving)
    BY DEF LinkInv
  <2> QED
    BY <2>1, QueFields
<1>2. h \in Nat /\ f \in Nat
  BY FS_CardinalityType DEF FlowInv
<1>3. l \in Nat /\ nxt \in 1 .. l + 1 /\ l + MaxEvents < MAX_PACKET
  BY SentWire DEF LinkInv, StreamsFit, sent
<1>4. rtcps \in Nat /\ f + rtcps <= MaxEvents /\ a + b + h <= nxt - 1 + f
  BY DEF FlowInv
<1>5. MaxEvents \in Nat /\ MAX_PACKET \in Nat
  BY LinkAssumption, Windows DEF LinkAssumption
<1> HIDE DEF a, b, h, f, l
<1>6. a + b < MAX_PACKET /\ a + b \in Nat /\ nxt \in Nat
  BY <1>1, <1>2, <1>3, <1>4, <1>5
<1> QED
  BY <1>2, <1>5, <1>6 DEF Room, a, b, h, f

\* FlowInv holds initially.
LEMMA FlowStarts == LinkInit => FlowInv
<1> SUFFICES ASSUME LinkInit PROVE FlowInv
  OBVIOUS
<1>1. held = {} /\ faults = {} /\ rtcps = 0 /\ nxt = 1
  BY DEF LinkInit
<1>2. PICK t \in {0, JITTER} : queue = rtp_queue_create(t)
  BY DEF LinkInit
<1>3. Len(queue.items) = 0 /\ Len(queue.bad) = 0
  BY <1>2, QueueCreate
<1>4. IsFiniteSet({}) /\ Cardinality({}) = 0
  BY FS_EmptySet
<1> QED
  BY <1>1, <1>3, <1>4, LinkAssumption DEF FlowInv, LinkAssumption

\* Every step preserves FlowInv: a packet enters the queue only when it is sent, comes
\* late or is doubled.
LEMMA FlowStep == StreamsFit /\ LinkInv /\ FlowInv /\ [LinkNext]_linkVars => FlowInv'
<1> SUFFICES ASSUME StreamsFit, LinkInv, FlowInv, [LinkNext]_linkVars PROVE FlowInv'
  OBVIOUS
<1> DEFINE q == Len(queue.items) + Len(queue.bad)
           q1 == Len(queue'.items) + Len(queue'.bad)
           h == Cardinality(held)
           f == Cardinality(faults)
           h1 == Cardinality(held')
           f1 == Cardinality(faults')
<1>0. /\ IsFiniteSet(held) /\ IsFiniteSet(faults) /\ faults \subseteq 0 .. nxt - 1
      /\ rtcps \in Nat /\ f + rtcps <= MaxEvents /\ q + h <= nxt - 1 + f
  BY DEF FlowInv
<1>1. Room /\ q \in Nat /\ h \in Nat /\ f \in Nat /\ nxt \in Nat /\ MaxEvents \in Nat
  BY FlowRoom
<1>i. nxt \in 1 .. Len(sent) + 1 /\ held \subseteq 1 .. nxt - 1 /\ nxt \notin held /\ nxt \notin faults
  BY <1>0, <1>1 DEF LinkInv
\* The new state in numbers.
<1>2. ASSUME IsFiniteSet(held'), IsFiniteSet(faults'), faults' \subseteq 0 .. nxt' - 1,
             rtcps' \in Nat, f1 + rtcps' <= MaxEvents, q1 + h1 <= nxt' - 1 + f1
      PROVE  FlowInv'
  BY <1>2 DEF FlowInv
<1>3. ASSUME NEW i \in 1..Len(sent), NEW pkt \in {sent[i]} \cup Damaged(sent[i]), rtp_demuxer_input(pkt)
      PROVE  q1 <= q + 1 /\ q1 \in Nat /\ rtcps' = rtcps
  <2>0. pkt \in Arriving
    BY <1>3, SentWire
  <2>1. /\ queue' \in Queue(Arriving) /\ rtcps' = rtcps
        /\ Len(queue'.items) + Len(queue'.bad) <= Len(queue.items) + Len(queue.bad) + 1
    BY <1>1, <1>3, <2>0, InputOK
  <2>2. Len(queue'.items) \in Nat /\ Len(queue'.bad) \in Nat
    BY <2>1, QueFields
  <2> DEFINE a == Len(queue'.items)
             b == Len(queue'.bad)
  <2>3. a \in Nat /\ b \in Nat
    BY <2>2
  <2> HIDE DEF a, b
  <2>4. a + b \in Nat
    BY <2>3
  <2> QED
    BY <2>1, <2>4 DEF a, b
<1> HIDE DEF q, q1
\* One more fault.
<1>4. ASSUME MayFail, NEW x, faults' = faults \cup {x}, x \notin faults, rtcps' = rtcps
      PROVE  IsFiniteSet(faults') /\ f1 = f + 1 /\ f1 + rtcps' <= MaxEvents
  <2>1. IsFiniteSet(faults') /\ f1 = f + 1
    BY <1>0, <1>4, FS_AddElement
  <2>2. f + rtcps < MaxEvents
    BY <1>4 DEF MayFail
  <2> HIDE DEF f, f1
  <2> QED
    BY <1>0, <1>1, <1>4, <2>1, <2>2
\* One more packet under way.
<1>5. ASSUME held' = held \cup {nxt} PROVE IsFiniteSet(held') /\ h1 = h + 1
  BY <1>0, <1>i, <1>5, FS_AddElement
<1>6. CASE Deliver
  <2>1. Advance /\ rtp_demuxer_input(sent[nxt]) /\ held' = held /\ faults' = faults
    BY <1>6 DEF Deliver
  <2>2. nxt' = nxt + 1 /\ nxt \in 1..Len(sent)
    BY <1>i, <2>1, SentWire DEF Advance
  <2>3. q1 <= q + 1 /\ q1 \in Nat /\ rtcps' = rtcps
    BY <1>3, <2>1, <2>2
  <2>4. h1 = h /\ f1 = f /\ faults' \subseteq 0 .. nxt' - 1
    BY <1>0, <1>1, <2>1, <2>2
  <2> HIDE DEF h, f, h1, f1
  <2>5. q1 + h1 <= nxt' - 1 + f1
    BY <1>0, <1>1, <2>2, <2>3, <2>4
  <2> QED
    BY <1>0, <1>2, <2>1, <2>3, <2>4, <2>5
<1>7. CASE Lose \/ Delay
  <2>1. /\ Advance /\ MayFail /\ faults' = faults \cup {nxt} /\ rtcps' = rtcps /\ queue' = queue
        /\ held' \in {held, held \cup {nxt}}
    BY <1>7 DEF Lose, Delay, demuxerVars
  <2>2. nxt' = nxt + 1 /\ nxt \in 1..Len(sent)
    BY <1>i, <2>1, SentWire DEF Advance
  <2>3. IsFiniteSet(faults') /\ f1 = f + 1 /\ f1 + rtcps' <= MaxEvents
    BY <1>4, <1>i, <2>1
  <2>4. IsFiniteSet(held') /\ h1 \in {h, h + 1}
    BY <1>0, <1>5, <2>1
  <2>5. q1 = q
    BY <2>1 DEF q, q1
  <2>6. faults' \subseteq 0 .. nxt' - 1
    BY <1>0, <1>1, <2>1, <2>2
  <2> HIDE DEF h, f, h1, f1
  <2>7. q1 + h1 <= nxt' - 1 + f1
    BY <1>0, <1>1, <2>2, <2>3, <2>4, <2>5
  <2> QED
    BY <1>0, <1>2, <2>1, <2>3, <2>4, <2>6, <2>7
<1>8. CASE Duplicate
  <2>1. /\ Advance /\ MayFail /\ faults' = faults \cup {nxt} /\ held' = held \cup {nxt}
        /\ rtp_demuxer_input(sent[nxt])
    BY <1>8 DEF Duplicate
  <2>2. nxt' = nxt + 1 /\ nxt \in 1..Len(sent)
    BY <1>i, <2>1, SentWire DEF Advance
  <2>3. q1 <= q + 1 /\ q1 \in Nat /\ rtcps' = rtcps
    BY <1>3, <2>1, <2>2
  <2>4. IsFiniteSet(faults') /\ f1 = f + 1 /\ f1 + rtcps' <= MaxEvents
    BY <1>4, <1>i, <2>1, <2>3
  <2>5. IsFiniteSet(held') /\ h1 = h + 1
    BY <1>5, <2>1
  <2>6. faults' \subseteq 0 .. nxt' - 1
    BY <1>0, <1>1, <2>1, <2>2
  <2> HIDE DEF h, f, h1, f1
  <2>7. q1 + h1 <= nxt' - 1 + f1
    BY <1>0, <1>1, <2>2, <2>3, <2>4, <2>5
  <2> QED
    BY <1>0, <1>2, <2>3, <2>4, <2>5, <2>6, <2>7
<1>9. CASE DeliverLate
  <2>1. PICK i \in held : held' = held \ {i} /\ rtp_demuxer_input(sent[i]) /\ nxt' = nxt
                          /\ faults' = faults
    BY <1>9 DEF DeliverLate
  <2>2. i \in 1..Len(sent)
    BY <1>i, SentWire
  <2>3. q1 <= q + 1 /\ q1 \in Nat /\ rtcps' = rtcps
    BY <1>3, <2>1, <2>2
  <2>4. IsFiniteSet(held') /\ h1 = h - 1
    BY <1>0, <2>1, FS_RemoveElement
  <2>5. f1 = f
    BY <2>1
  <2> HIDE DEF h, f, h1, f1
  <2>6. q1 + h1 <= nxt' - 1 + f1
    BY <1>0, <1>1, <2>1, <2>3, <2>4, <2>5
  <2> QED
    BY <1>0, <1>2, <2>1, <2>3, <2>4, <2>5, <2>6
<1>10. CASE Garbage
  <2>1. /\ MayFail /\ 0 \notin faults /\ faults' = faults \cup {0} /\ rtcps' = rtcps
        /\ queue' = queue /\ held' = held /\ nxt' = nxt
    BY <1>10 DEF Garbage
  <2>2. IsFiniteSet(faults') /\ f1 = f + 1 /\ f1 + rtcps' <= MaxEvents
    BY <1>4, <2>1
  <2>3. q1 = q /\ h1 = h
    BY <2>1 DEF q, q1
  <2>4. faults' \subseteq 0 .. nxt' - 1
    BY <1>0, <1>1, <1>i, <2>1
  <2> HIDE DEF h, f, h1, f1
  <2>5. q1 + h1 <= nxt' - 1 + f1
    BY <1>0, <1>1, <2>1, <2>2, <2>3
  <2> QED
    BY <1>0, <1>2, <2>1, <2>2, <2>4, <2>5
<1>11. CASE Rtcp \/ rtp_demuxer_rtcp
  <2>1. /\ MayFail /\ faults' = faults /\ rtcps' = rtcps + 1
        /\ queue' = queue /\ held' = held /\ nxt' = nxt
    BY <1>11 DEF Rtcp, rtp_demuxer_rtcp, network
  <2>2. f + rtcps < MaxEvents
    BY <2>1 DEF MayFail
  <2>3. q1 = q /\ h1 = h /\ f1 = f
    BY <2>1 DEF q, q1
  <2> HIDE DEF h, f, h1, f1
  <2>4. rtcps' \in Nat /\ f1 + rtcps' <= MaxEvents /\ q1 + h1 <= nxt' - 1 + f1
    BY <1>0, <1>1, <2>1, <2>2, <2>3
  <2> QED
    BY <1>0, <1>2, <2>1, <2>4
<1>12. CASE rtp_demuxer_destroy
  <2>1. faults' = faults /\ rtcps' = rtcps /\ held' = held /\ nxt' = nxt
    BY <1>12 DEF rtp_demuxer_destroy, network
  <2>2. q1 = 0
    <3> DEFINE a == Len(queue'.items)
               b == Len(queue'.bad)
    <3>1. a = 0 /\ b = 0
      BY <1>12, DestroyStep
    <3> HIDE DEF a, b
    <3>2. a + b = 0
      BY <3>1
    <3> QED
      BY <3>2 DEF q1, a, b
  <2>3. h1 = h /\ f1 = f
    BY <2>1
  <2> HIDE DEF h, f, h1, f1
  <2>4. q1 + h1 <= nxt' - 1 + f1 /\ f1 + rtcps' <= MaxEvents
    BY <1>0, <1>1, <2>1, <2>2, <2>3
  <2> QED
    BY <1>0, <1>2, <2>1, <2>4
<1>13. CASE UNCHANGED linkVars
  BY <1>13 DEF linkVars, FlowInv
<1>14. CASE Damage
  <2>1. Advance /\ MayFail /\ faults' = faults \cup {nxt} /\ held' = held
    BY <1>14 DEF Damage
  <2>0. PICK pkt \in Damaged(sent[nxt]) : rtp_demuxer_input(pkt)
    BY <1>14 DEF Damage
  <2>2. nxt' = nxt + 1 /\ nxt \in 1..Len(sent)
    BY <1>i, <2>1, SentWire DEF Advance
  <2>3. q1 <= q + 1 /\ q1 \in Nat /\ rtcps' = rtcps
    BY <1>3, <2>0, <2>2
  <2>4. IsFiniteSet(faults') /\ f1 = f + 1 /\ f1 + rtcps' <= MaxEvents
    BY <1>4, <1>i, <2>1, <2>3
  <2>5. h1 = h
    BY <2>1
  <2>6. faults' \subseteq 0 .. nxt' - 1
    BY <1>0, <1>1, <2>1, <2>2
  <2> HIDE DEF h, f, h1, f1
  <2>7. q1 + h1 <= nxt' - 1 + f1
    BY <1>0, <1>1, <2>2, <2>3, <2>4, <2>5
  <2> QED
    BY <1>0, <1>2, <2>1, <2>3, <2>4, <2>6, <2>7
<1> QED
  BY <1>6, <1>7, <1>8, <1>9, <1>10, <1>11, <1>12, <1>13, <1>14 DEF LinkNext

\* A queue that holds more than the sender sends and the network doubles always has room:
\* then the buffers are accounted for without a condition on the behaviour.
THEOREM MemoryOfStreams ==
  ASSUME StreamsFit
  PROVE  LinkSpec => []MemoryExact
<1>1. LinkInv /\ FlowInv /\ [LinkNext]_linkVars => FlowInv'
  BY FlowStep
<1>2. LinkInv /\ FlowInv => Room
  BY FlowRoom
<1> QED
  BY <1>1, <1>2, FlowStarts, LinkInvariant, MemoryAccounted, PTL DEF LinkSpec
=============================================================================
