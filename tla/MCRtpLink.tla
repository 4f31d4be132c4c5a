------------------------------ MODULE MCRtpLink ------------------------------
(* The sequence numbers of the two runs of the sender.  On a noisy network   *)
(* the first wraps once its member has left its probation, or not; the       *)
(* second continues it, jumps, jumps and wraps later, or wraps where         *)
(* write_bad() counts.  On a faultless one the second starts with every      *)
(* number there is, those that are too late among them.                      *)
EXTENDS RtpLink

Runs(numbers, noisy) ==
    {[codec |-> c, first |-> n[1], second |-> n[2], noisy |-> noisy] :
        c \in {"H264", "H265"}, n \in numbers}

Numbers ==
    Runs({<<61, 1>>, <<61, 20>>, <<30, 58>>, <<30, 61>>}, TRUE)
    \cup Runs({30, 61} \X (0 .. RTP_SEQMOD - 1), FALSE)
=============================================================================
