---------------------------- MODULE TccFeedback ----------------------------
(***************************************************************************)
(* Transport-wide congestion control feedback (rtcp-rtpfb.c): the reports  *)
(* on consecutive packets, [received, ato], as chunks of symbols followed  *)
(* by arrival time deltas of one or two octets.                            *)
(*                                                                         *)
(* A chunk is [sym, n, wide, run]: the symbols of its n reports, whether   *)
(* the vector has two-bit symbols, whether it is a run length chunk.  The  *)
(* buffer is taken to be large enough (see rtcp_rtpfb_tcc01_pack()'s use   *)
(* of bytes, which it does not lower by the 8 octets of the head).         *)
(***************************************************************************)
EXTENDS Integers, Sequences, SequencesExt, FiniteSetsExt

U16(n) == n % 65536
I16(n) == IF n >= 32768 THEN n - 65536 ELSE n

(* Altered: a negative delta counts as small. *)
LargeSigned(r) == r.received /\ r.ato * 4 > 255

(* A delta that one octet cannot hold, in units of 250 us. *)
Large(r) == r.received /\ U16(r.ato * 4) > 255

(* The longest run that a chunk's 13 bits hold. *)
RUN_MAX == 8191

(* The run of reports from i on that are received alike. *)
RunFrom(rs, i) ==
    LET ends == {j \in i .. Len(rs) : j = Len(rs) \/ rs[j + 1].received # rs[i].received}
    IN  Min(ends) - i + 1

AnyLarge(rs, i, n) == \E j \in i .. Min({i + n - 1, Len(rs)}) : Large(rs[j])

Symbol(r) == IF ~r.received THEN 0 ELSE IF Large(r) THEN 2 ELSE 1

(* The chunk that starts with report i: a run if it is longer than what a  *)
(* vector holds, else a vector, of 14 one-bit or 7 two-bit symbols; a      *)
(* vector of 7 or fewer small ones has two-bit symbols too.  A run's       *)
(* length is ORed into the chunk's low 13 bits without a limit, so that    *)
(* one of more than RUN_MAX reports would spill into the symbol: Feedback  *)
(* sends no such message.                                                  *)
ChunkAt(rs, i) ==
    LET k == RunFrom(rs, i)
        two == IF AnyLarge(rs, i, k) THEN 2 ELSE 1
        left == Len(rs) - i + 1
        wide == AnyLarge(rs, i, 14) \/ left <= 7
        n == Min({left, IF AnyLarge(rs, i, 14) THEN 7 ELSE 14})
    IN  IF k > 14 \div two
        THEN [run |-> TRUE, wide |-> FALSE, n |-> k,
              sym |-> [j \in 1 .. k |-> IF rs[i].received THEN two ELSE 0]]
        ELSE [run |-> FALSE, wide |-> wide, n |-> n, sym |-> [j \in 1 .. n |-> Symbol(rs[i + j - 1])]]

Octets(v, n) == IF n = 0 THEN <<>> ELSE IF n = 1 THEN <<v % 256>> ELSE <<U16(v) \div 256, v % 256>>

(* begin and the reports' numbers run together, and so are left out. *)
rtcp_rtpfb_tcc01_pack(rs) ==
    LET Chunks[i \in 1 .. Len(rs) + 1] ==
            IF i > Len(rs) THEN <<>> ELSE LET c == ChunkAt(rs, i) IN <<c>> \o Chunks[i + c.n]
        chunks == Chunks[1]
        symbols == FlattenSeq([c \in DOMAIN chunks |-> chunks[c].sym])
        deltas == FlattenSeq([i \in DOMAIN rs |-> Octets(rs[i].ato * 4, symbols[i])])
        n == 8 + 2 * Len(chunks) + Len(deltas)
        pad == (4 - (n % 4)) % 4
    IN  [num |-> Len(rs), chunks |-> chunks,
         octets |-> deltas \o [j \in 1 .. pad |-> IF j = pad THEN pad ELSE 0]]

(* One-bit symbols say received or not. *)
rtcp_rtpfb_tcc01_unpack(w) ==
    LET Read(c) == [j \in 1 .. c.n |-> IF c.run \/ c.wide THEN c.sym[j] ELSE Min({c.sym[j], 1})]
        symbols == SubSeq(FlattenSeq([c \in DOMAIN w.chunks |-> Read(w.chunks[c])]), 1, w.num)
        Report(s, at) ==
            [received |-> s # 0,
             ato |-> CASE s = 0 -> 0
                       [] s = 1 -> w.octets[at] \div 4
                       [] s = 2 -> I16(w.octets[at] * 256 + w.octets[at + 1]) \div 4]
        R[i \in 1 .. w.num + 1, at \in 1 .. Len(w.octets) + 1] ==
            IF i > w.num THEN <<>>
            ELSE <<Report(symbols[i], at)>> \o R[i + 1, at + symbols[i]]
    IN  R[1, 1]
=============================================================================
