------------------------------ MODULE Feedback ------------------------------
(***************************************************************************)
(* A feedback message on its way: packed by one peer's librtp into a       *)
(* buffer of so many octets, unpacked by the other's.                      *)
(***************************************************************************)
EXTENDS RtcpFormats, TccFeedback

CONSTANTS Messages,          \* what may be sent: [kind, items, room]
          MaxLoops           \* turns of rtcp_xr_unpack()'s loop looked at

(* No run of reports is longer than its field: see ChunkAt. *)
ASSUME RunsFit == \A m \in Messages : m.kind = "tcc01" => Len(m.items) <= RUN_MAX

NoMessage == [kind |-> "none", items |-> <<>>, room |-> 0]

VARIABLES msg,               \* the message
          packet,            \* what the network carries, <<>> before
          got,               \* the items of the last call of on_rtcp()
          calls              \* how many calls there were

fbVars == <<msg, packet, got, calls>>

FbInit == msg \in Messages /\ packet = <<>> /\ got = <<>> /\ calls = 0

Pack ==
    /\ msg # NoMessage /\ packet = <<>>
    /\ packet' = <<CASE msg.kind = "tcc01" -> rtcp_rtpfb_tcc01_pack(msg.items)
                     [] msg.kind \in RtpfbKinds -> rtcp_rtpfb_pack(msg, msg.room)
                     [] msg.kind \in PsfbKinds -> rtcp_psfb_pack(msg, msg.room)
                     [] msg.kind \in XrKinds -> rtcp_xr_pack(msg, msg.room)>>
    /\ UNCHANGED <<msg, got, calls>>

(* rtcp_rtpfb_unpack() and rtcp_psfb_unpack(). *)
Unpack ==
    /\ packet # <<>> /\ calls = 0 /\ msg.kind \notin XrKinds
    /\ got' = CASE msg.kind = "tcc01" -> rtcp_rtpfb_tcc01_unpack(packet[1])
                [] msg.kind \in RtpfbKinds -> rtcp_rtpfb_unpack(msg.kind, packet[1])
                [] msg.kind \in PsfbKinds -> rtcp_psfb_unpack(msg.kind, packet[1])
    /\ calls' = 1
    /\ UNCHANGED <<msg, packet>>

(* rtcp_xr_unpack(): the loop never moves on to the next block, so that it *)
(* hands over the first one for ever.                                      *)
UnpackXr ==
    /\ packet # <<>> /\ calls < MaxLoops /\ msg.kind \in XrKinds
    /\ got' = rtcp_xr_unpack(msg.kind, packet[1])
    /\ calls' = calls + 1
    /\ UNCHANGED <<msg, packet>>

FbNext == Pack \/ Unpack \/ UnpackXr

-----------------------------------------------------------------------------
(* The formats whose reader and writer do not agree: see RtcpFormats.      *)
Disagreeing == {"lrr", "rpsi", "xr_ecn", "ccfb"}

(* What has to be there for the whole message to fit. *)
Needed(m) ==
    LET n == Len(m.items)
    IN  (IF m.kind \in XrKinds THEN 8 ELSE 12) +
        CASE m.kind \in DOMAIN ListFormats -> n * ListFormats[m.kind].size
          [] m.kind \in XrKinds -> 4 + n * BlockFormats[m.kind].size
          [] m.kind = "pli" -> 0
          [] m.kind = "ecn" -> 20
          [] m.kind = "ps" -> 8 + 4 * Len(m.items[1].payload)
          [] m.kind = "vbcm" -> 8 + Padded(Len(m.items[1].payload))
          [] m.kind = "remb" -> 8 + 4 * n

(* What the receiver's application is told is what the sender's asked to   *)
(* send, in every bit: the whole message when the buffer had room for it,  *)
(* else some first items of it, never a changed one; and the packet stayed *)
(* in the buffer.  (rtcp_*_pack(), rtcp_*_unpack(); transport-wide         *)
(* feedback with every mix of lost, early and late packets.)               *)
FeedbackReadsBack ==
    /\ calls > 0 /\ msg.kind = "tcc01" => got = msg.items
    /\ calls > 0 /\ msg.kind \notin Disagreeing \cup {"tcc01"} =>
         /\ IsPrefix(got, msg.items)
         /\ msg.room >= Needed(msg) => got = msg.items
         /\ packet[1].bytes + 4 <= msg.room \/ packet[1].bytes = -1
=============================================================================
