----------------------------- MODULE NalChannel -----------------------------
(***************************************************************************)
(* What the receiver promises the decoder about a lossy network: what is   *)
(* handed over are whole units that were sent.  Units may be missing or,   *)
(* unless the channel is ordered, come late and twice; no unit is ever cut *)
(* short, spliced from two or invented.                                    *)
(***************************************************************************)
EXTENDS Naturals, Sequences

VARIABLES ordered, sent, got

vars == <<ordered, sent, got>>

Init ==
    /\ ordered \in BOOLEAN
    /\ sent = 0
    /\ got = <<>>

Kept == Len(got') >= Len(got) /\ SubSeq(got', 1, Len(got)) = got

New == Len(got) + 1 .. Len(got')

Next ==
    /\ ordered' = ordered
    /\ sent' >= sent
    /\ Kept
    /\ \A i \in New : got'[i] \in 1 .. sent'
    /\ ordered => \A i \in New : i > 1 => got'[i] > got'[i - 1]

Spec == Init /\ [][Next]_vars
=============================================================================
