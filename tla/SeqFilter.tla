------------------------------ MODULE SeqFilter ------------------------------
(***************************************************************************)
(* The part of a FIFO that survives a wipe: both Dvr::on_tick() and        *)
(* VideoEncoder::drop_pending_frames() move the entries they keep, in      *)
(* order, to a new queue.  SelectSeq would do for TLC; the prover knows    *)
(* nothing of it, so the kept positions are enumerated in order instead.   *)
(* And what a FIFO amounts to: the sum of its entries' sizes.              *)
(***************************************************************************)
EXTENDS Integers, Sequences, FiniteSets

Increasing(f, n) == \A a, b \in 1..n : a < b => f[a] < f[b]
Covers(f, n, I) == \A i \in I : \E a \in 1..n : f[a] = i

\* The increasing enumeration of a finite set I of positions.
InOrder(I) ==
  CHOOSE f \in [1..Cardinality(I) -> I] :
    Increasing(f, Cardinality(I)) /\ Covers(f, Cardinality(I), I)

\* The entries of q at the positions I, in order.
Keep(q, I) == [j \in 1..Cardinality(I) |-> q[InOrder(I)[j]]]

\* The sums of the first 0, 1, ... numbers of w, and of all of them.
PartialSums(w) ==
  LET S[i \in 0..Len(w)] == IF i = 0 THEN 0 ELSE S[i - 1] + w[i] IN S
Total(w) == PartialSums(w)[Len(w)]

=============================================================================
