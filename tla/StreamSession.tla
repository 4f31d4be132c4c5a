---------------------------- MODULE StreamSession ----------------------------
(***************************************************************************)
(* The stream: the receiver thread of src/src/rtp_receiver.cpp, which also *)
(* watches for a change of codec, and read_video_stream() of main.cpp,     *)
(* which restarts the decoder for another codec and notices that the video *)
(* is lost.  A step ends at an access to what the two threads share: the   *)
(* codec, codec_changed, m_running, last_demux_output_ms, video_present,   *)
(* the MppPacket and the clock.                                            *)
(*                                                                         *)
(* A datagram is what rtp_classify_codec() makes of it: a codec or UNKNOWN.*)
(* The demuxer is external: a datagram completes an access unit or not.    *)
(* The decoder is external: it is the codec it was created for, and it     *)
(* accepts an end of stream in the end.  Its frames are in DisplayHandoff. *)
(***************************************************************************)
EXTENDS Integers

CONSTANTS
  Codecs,                 \* H264 and H265
  CODEC_MISMATCH_CONFIRM, \* datagrams of another codec that confirm a change
  NO_VIDEO_TIMEOUT,       \* NO_VIDEO_TIMEOUT_MS
  Wrap,                   \* 2^64: timestamps are subtracted modulo Wrap
  MaxPackets,             \* bound: datagrams received
  MaxTime                 \* bound: the clock stops here

ASSUME SessionAssumption ==
  /\ "UNKNOWN" \notin Codecs
  /\ CODEC_MISMATCH_CONFIRM \in Nat \ {0} /\ NO_VIDEO_TIMEOUT \in Nat
  /\ MaxPackets \in Nat /\ MaxTime \in Nat \ {0}
  /\ Wrap \in Nat /\ Wrap > MaxTime + NO_VIDEO_TIMEOUT

VARIABLES
  signal_flag,            \* a termination signal came
  clock,                  \* the time in ms, from 1
  m_video_codec,          \* receiver: the codec of the stream
  m_codec_mismatch_count, \* receiver: datagrams of another codec
  m_running,              \* the receiver thread shall run
  rpc,                    \* receiver thread: the step it is at, none before the first
  demuxer,                \* receiver thread: the codec its demuxer is for
  received,               \* datagrams received
  codec_changed,          \* the receiver saw another codec
  decoder,                \* the codec the decoder is for
  packet_eos,             \* the MppPacket is marked as an end of stream
  last_demux_output_ms,   \* time of the last access unit, 0 if none
  video_present,          \* the stream is considered present
  mpc,                    \* main thread: the step it is at
  now                     \* main thread: the time it read

receiverVars == <<m_video_codec, m_codec_mismatch_count, rpc, demuxer, received>>
presenceVars == <<last_demux_output_ms, video_present>>
decoderVars == <<codec_changed, decoder, packet_eos>>
vars == <<receiverVars, presenceVars, decoderVars, signal_flag, clock, m_running, mpc, now>>

\* What detect_rtp_codec() can make of a payload.
AnyCodec == Codecs \cup {"UNKNOWN"}

Init ==
  /\ signal_flag = FALSE /\ clock = 1
  /\ m_video_codec = "UNKNOWN" /\ m_codec_mismatch_count = 0 /\ m_running = FALSE
  /\ rpc = "none" /\ demuxer = "UNKNOWN" /\ received = 0
  /\ codec_changed = FALSE /\ decoder = "UNKNOWN" /\ packet_eos = FALSE
  /\ last_demux_output_ms = 0 /\ video_present = FALSE
  /\ mpc = "detect" /\ now = 0

-----------------------------------------------------------------------------
(* The environment *)

sig_handler ==
  /\ signal_flag' = TRUE
  /\ UNCHANGED <<receiverVars, presenceVars, decoderVars, clock, m_running, mpc, now>>

\* Early enough that the timeout can pass before MaxTime.
Early == clock + NO_VIDEO_TIMEOUT + 1 < MaxTime

\* Time passes, but not so far that what was received can no longer be early.
Tick ==
  /\ clock < MaxTime /\ (rpc = "stamp" => Early)
  /\ clock' = clock + 1
  /\ UNCHANGED <<receiverVars, presenceVars, decoderVars, signal_flag, m_running, mpc, now>>

-----------------------------------------------------------------------------
(* The receiver thread *)

ReceiverOnly == UNCHANGED <<signal_flag, clock, m_running, decoder, packet_eos, mpc, now>>

\* The loop sees m_running cleared, or poll() fails.
ReceiverEnds ==
  /\ rpc = "poll" /\ rpc' = "done"
  /\ ReceiverOnly
  /\ UNCHANGED <<m_video_codec, m_codec_mismatch_count, demuxer, received,
                 codec_changed, presenceVars>>

Mismatch(c) == c \notin {"UNKNOWN", m_video_codec}

Confirmed == m_codec_mismatch_count + 1 >= CODEC_MISMATCH_CONFIRM

\* A datagram of class c.  A confirmed change is not demuxed.
Receive(c) ==
  /\ rpc = "poll" /\ m_running /\ received < MaxPackets /\ Early
  /\ received' = received + 1
  /\ IF Mismatch(c) /\ Confirmed
     THEN m_video_codec' = c /\ m_codec_mismatch_count' = 0 /\ rpc' = "notify"
     ELSE /\ m_codec_mismatch_count' = IF Mismatch(c) THEN m_codec_mismatch_count + 1
                                       ELSE IF c = m_video_codec THEN 0
                                       ELSE m_codec_mismatch_count
          /\ rpc' \in {"poll", "stamp"}
          /\ UNCHANGED m_video_codec
  /\ ReceiverOnly
  /\ UNCHANGED <<demuxer, codec_changed, presenceVars>>

\* The callback, told of a change.
NotifiesChange ==
  /\ rpc = "notify" /\ rpc' = "poll" /\ codec_changed' = TRUE
  /\ ReceiverOnly
  /\ UNCHANGED <<m_video_codec, m_codec_mismatch_count, demuxer, received, presenceVars>>

\* The callback, given an access unit: the time first, then the presence.
Stamps ==
  /\ rpc = "stamp" /\ rpc' = "present" /\ last_demux_output_ms' = clock
  /\ ReceiverOnly
  /\ UNCHANGED <<m_video_codec, m_codec_mismatch_count, demuxer, received, video_present,
                 codec_changed>>

MarksPresent ==
  /\ rpc = "present" /\ rpc' = "put" /\ video_present' = TRUE
  /\ ReceiverOnly
  /\ UNCHANGED <<m_video_codec, m_codec_mismatch_count, demuxer, received,
                 last_demux_output_ms, codec_changed>>

\* feed_packet_to_decoder(): the decoder takes it, stalls for 100 ms, or a signal came.
FeedsDecoder ==
  /\ rpc = "put" /\ rpc' = "poll"
  /\ ReceiverOnly
  /\ UNCHANGED <<m_video_codec, m_codec_mismatch_count, demuxer, received, presenceVars,
                 codec_changed>>

ReceiverStops == ~m_running /\ ReceiverEnds
ReceiverFails == m_running /\ ReceiverEnds
ReceiverNext ==
  ReceiverStops \/ NotifiesChange \/ Stamps \/ MarksPresent \/ FeedsDecoder

-----------------------------------------------------------------------------
(* The main thread: read_video_stream() *)

MainOnly == UNCHANGED <<signal_flag, clock, m_codec_mismatch_count, received>>

start_receiving(c) == m_running' = TRUE /\ rpc' = "poll" /\ demuxer' = c

\* A decoder for codec c and a packet to feed it with.
setup_mpi(c) == decoder' = c /\ packet_eos' = FALSE

\* What detect_codec() returns unless a signal came.
detect_codec == Codecs

\* init() finds the codec; setup_mpi() and the first start_receiving().
Detects(c) ==
  /\ mpc = "detect" /\ ~signal_flag /\ mpc' = "loop"
  /\ m_video_codec' = c /\ setup_mpi(c)
  /\ last_demux_output_ms' = 0 /\ start_receiving(c)
  /\ MainOnly /\ UNCHANGED <<codec_changed, video_present, now>>

DetectAborts ==
  /\ mpc = "detect" /\ signal_flag /\ mpc' = "done"
  /\ MainOnly
  /\ UNCHANGED <<m_video_codec, rpc, demuxer, presenceVars, decoderVars, m_running, now>>

\* MUTANT: stop_receiving() joins without telling the thread to end.
JoinOnly == UNCHANGED m_running

TellsToEnd == m_running' = FALSE

\* stop_receiving(), for a restart or for good.
StopsReceiving ==
  /\ mpc = "loop" /\ (signal_flag \/ codec_changed)
  /\ mpc' = IF signal_flag THEN "join_last" ELSE "join"
  /\ TellsToEnd
  /\ MainOnly
  /\ UNCHANGED <<m_video_codec, rpc, demuxer, presenceVars, decoderVars, now>>

\* MUTANT: the receiver thread is not waited for.
NoJoin == mpc \in {"join", "join_last"}

Joined == mpc \in {"join", "join_last"} /\ rpc = "done"

\* The thread is joined; the packet it used becomes an end of stream, fed until the
\* decoder takes it.
JoinsAndFeedsEos ==
  /\ Joined /\ packet_eos' = TRUE
  /\ mpc' = IF mpc = "join" THEN "restart" ELSE "done"
  /\ MainOnly
  /\ UNCHANGED <<m_video_codec, rpc, demuxer, presenceVars, codec_changed, decoder,
                 m_running, now>>

\* MUTANT: the decoder is made for the codec it had.
RecreatesOld == decoder' = decoder /\ packet_eos' = FALSE

\* MUTANT: the packet is kept, marked as it is.
RecreatesDecoderOnly == decoder' = m_video_codec /\ UNCHANGED packet_eos

\* cleanup_mpi() and setup_mpi(): another decoder, and another packet.
Recreates == setup_mpi(m_video_codec)

\* restart_mpi().
Restarts ==
  /\ mpc = "restart" /\ mpc' = "resume"
  /\ Recreates /\ codec_changed' = FALSE
  /\ MainOnly
  /\ UNCHANGED <<m_video_codec, rpc, demuxer, presenceVars, m_running, now>>

Resumes ==
  /\ mpc = "resume" /\ mpc' = "loop"
  /\ last_demux_output_ms' = 0 /\ video_present' = FALSE
  /\ start_receiving(m_video_codec)
  /\ MainOnly /\ UNCHANGED <<m_video_codec, decoderVars, now>>

ReadsClock ==
  /\ mpc = "loop" /\ ~signal_flag /\ ~codec_changed
  /\ now' = clock /\ mpc' = "load"
  /\ MainOnly
  /\ UNCHANGED <<m_video_codec, rpc, demuxer, presenceVars, decoderVars, m_running>>

\* MUTANT: any access unit counts, however old.
EverSeen(last) == last # 0

\* Unsigned: a time after now is a very old one.
has_video(last) == last # 0 /\ (now - last + Wrap) % Wrap <= NO_VIDEO_TIMEOUT

LoadsLast ==
  /\ mpc = "load"
  /\ mpc' = IF has_video(last_demux_output_ms) THEN "loop" ELSE "lost"
  /\ MainOnly
  /\ UNCHANGED <<m_video_codec, rpc, demuxer, presenceVars, decoderVars, m_running, now>>

LoadsPresent ==
  /\ mpc = "lost" /\ mpc' = IF video_present THEN "declare" ELSE "loop"
  /\ MainOnly
  /\ UNCHANGED <<m_video_codec, rpc, demuxer, presenceVars, decoderVars, m_running, now>>

\* The log line, the presence and the OSD's facts.
DeclaresLoss ==
  /\ mpc = "declare" /\ mpc' = "loop" /\ video_present' = FALSE
  /\ MainOnly
  /\ UNCHANGED <<m_video_codec, rpc, demuxer, last_demux_output_ms, decoderVars, m_running, now>>

MainNext ==
  \/ DetectAborts \/ StopsReceiving \/ JoinsAndFeedsEos \/ Restarts
  \/ Resumes \/ ReadsClock \/ LoadsLast \/ LoadsPresent \/ DeclaresLoss

Ended == mpc = "done" /\ UNCHANGED vars

Next ==
  \/ sig_handler \/ Tick \/ ReceiverNext \/ ReceiverFails \/ MainNext \/ Ended
  \/ \E c \in detect_codec : Detects(c)
  \/ \E c \in AnyCodec : Receive(c)

Spec == Init /\ [][Next]_vars

\* Both threads keep running and time passes; datagrams and signals are not owed.
FairSpec == Spec /\ WF_vars(MainNext) /\ WF_vars(ReceiverNext) /\ WF_vars(Tick)

-----------------------------------------------------------------------------
(* Properties *)

\* Type correctness; the mismatch count stays below the number that confirms a change.
TypeOK ==
  /\ signal_flag \in BOOLEAN /\ m_running \in BOOLEAN /\ codec_changed \in BOOLEAN
  /\ packet_eos \in BOOLEAN /\ video_present \in BOOLEAN
  /\ clock \in 1..MaxTime /\ now \in 0..MaxTime /\ last_demux_output_ms \in 0..MaxTime
  /\ m_video_codec \in AnyCodec /\ demuxer \in AnyCodec /\ decoder \in AnyCodec
  /\ m_codec_mismatch_count \in 0..CODEC_MISMATCH_CONFIRM - 1
  /\ received \in 0..MaxPackets
  /\ rpc \in {"none", "poll", "notify", "stamp", "present", "put", "done"}
  /\ mpc \in {"detect", "loop", "join", "restart", "resume", "load", "lost", "declare",
              "join_last", "done"}

\* No change of codec is lost: while the decoder is for another codec than the stream
\* the main thread has been told, or is about to be, even if the codec changes again
\* before it has reacted.
ChangeNotLost == m_video_codec # decoder => codec_changed \/ rpc = "notify"

\* Access units are fed to a decoder of the demuxer's codec, in a packet that no
\* earlier restart left marked as an end of stream.
DataFitsDecoder == rpc = "put" => demuxer = decoder /\ ~packet_eos

\* The main thread uses the receiver's packet, and replaces the decoder, only while
\* no receiver thread runs.
PacketExclusive == mpc \in {"restart", "resume", "done"} => rpc \in {"none", "done"}

\* A stream that stays away is noticed: once nothing has come for longer than the
\* timeout, video_present becomes false, whatever interleaving came before.
LossReported == clock = MaxTime ~> ~video_present \/ signal_flag

\* A termination signal ends read_video_stream(), in the middle of a restart too.
SessionEnds == signal_flag ~> mpc = "done"

\* The log line main.cpp:886: the stream is lost when no access unit came for
\* NO_VIDEO_TIMEOUT.  It does not hold (README, section 6).
LossIsReal ==
  mpc = "declare" => last_demux_output_ms = 0 \/ clock > last_demux_output_ms + NO_VIDEO_TIMEOUT

=============================================================================
