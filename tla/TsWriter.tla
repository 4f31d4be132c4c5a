------------------------------ MODULE TsWriter ------------------------------
(***************************************************************************)
(* The MPEG-TS file of a recording (dvr/ts_writer.cpp) and the clock that  *)
(* the DVR runs it with (dvr.cpp, next_frame_duration()): access units cut *)
(* into packets of 188 octets, the tables between them, and what is left   *)
(* of them after writes and flushes that fail.                             *)
(*                                                                         *)
(* A unit that was written is in the buffer of stdio or on storage; a      *)
(* failing call throws the buffer away.  How much of it had gone out is    *)
(* known only where a flush succeeded or failed: synced.                   *)
(*                                                                         *)
(* A packet is [pid, pusi, cc, af, rai, pcr, at, unit, from, to]: af is    *)
(* its adaptation field's length octet, -1 without one; octets from .. to  *)
(* of its unit's PES packet were copied to offset at.                      *)
(***************************************************************************)
EXTENDS Integers, Sequences, FiniteSets, FiniteSetsExt, SequencesExt

CONSTANTS Lengths,           \* octets of an access unit
          PtsSteps,          \* ms from one unit's pts to the next one's
          MaxUnits,          \* units looked at in a file
          MaxFails,          \* no call fails once this many units of a file are lost
          MaxCut,            \* whole packets, of the first few, left by a failing call
          TIMESTAMPS,        \* 2^33, the time stamps within TS_TIMESTAMP_MASK
          nominal_fps

ASSUME TsAssumption ==
    /\ Lengths \subseteq Nat \ {0}
    /\ PtsSteps \subseteq Int
    /\ TIMESTAMPS \in Nat \ {0} /\ nominal_fps \in Nat \ {0} /\ MaxCut \in Nat

TS_PACKET_SIZE == 188
PES_HEADER == 14
PSI_INTERVAL_90K == 9000
MS_TO_90K == 90
FIRST_PTS == 1000           \* of a file; only differences count after it
MAX_FRAME_DURATION_90K == 90000 \div 4

VARIABLES mux,               \* TsWriter's per-file members, and open
          clock,             \* Dvr's rec_start_pts, segment_video_ticks, last_good_duration
          pts,               \* of the latest access unit
          file,              \* the packets on storage and, after them, in the buffer
          units,             \* the units given to write_nal() for this file; ok until a
                             \* call fails that may throw away some of their octets
          synced             \* packets on storage for sure, and units given until then

tsVars == <<mux, clock, pts, file, units, synced>>

(* open() and begin_video(), which set back all of TsWriter. *)
FreshMux ==
    [open |-> TRUE, media_ticks |-> 0, last_psi_ticks |-> 0, psi_pending |-> TRUE,
     cc_video |-> 0, cc_pat |-> 0, cc_pmt |-> 0, write_fail_streak |-> 0]

TsInit ==
    /\ mux = [FreshMux EXCEPT !.open = FALSE]
    /\ clock = [rec_start_pts |-> -1, ticks |-> 0, last_good |-> 0]
    /\ pts = FIRST_PTS /\ file = <<>> /\ units = <<>>
    /\ synced = [packets |-> 0, units |-> 0]

-----------------------------------------------------------------------------
emit_section(pid, cc) ==
    [pid |-> pid, pusi |-> TRUE, cc |-> cc, af |-> -1, rai |-> FALSE, pcr |-> -1,
     at |-> 4, unit |-> 0, from |-> 0, to |-> TS_PACKET_SIZE - 4]

(* Altered: a single spare octet becomes a field of length 1. *)
PadsOneOctetShort(pad) == pad

(* The length octet of an adaptation field made only for padding. *)
PaddingOnly(pad) == IF pad = 1 THEN 0 ELSE pad - 1

(* The loop of emit_pes(): every packet but the last is full, and the first *)
(* has a field with length, flags and PCR; so packet k of a unit starts at *)
(* octet Start(k) of its PES packet.                                       *)
Fixed(k) == IF k = 1 THEN 8 ELSE 0
Room(k) == TS_PACKET_SIZE - 4 - Fixed(k)
Start(k) == IF k = 1 THEN 0 ELSE Room(1) + (k - 2) * Room(2)

PesPackets(len) ==
    LET rest == PES_HEADER + len - Room(1)
    IN  IF rest <= 0 THEN 1 ELSE 1 + (rest + Room(2) - 1) \div Room(2)

PesPacket(u, len, key, pcr, cc, k) ==
    LET remaining == PES_HEADER + len - Start(k)
        pad == IF remaining < Room(k) THEN Room(k) - remaining ELSE 0
        af == IF k = 1 THEN 7 + pad ELSE IF pad = 0 THEN -1 ELSE PaddingOnly(pad)
    IN  [pid |-> "video", pusi |-> k = 1, cc |-> cc, af |-> af,
         rai |-> k = 1 /\ key, pcr |-> IF k = 1 THEN pcr ELSE -1,
         at |-> IF af = 0 THEN 5 ELSE 4 + Fixed(k) + pad,
         unit |-> u, from |-> Start(k), to |-> Start(k) + Room(k) - pad]

emit_pes(u, len, key, pcr, cc_video) ==
    [k \in 1 .. PesPackets(len) |-> PesPacket(u, len, key, pcr, (cc_video + k - 1) % 16, k)]

(* Altered: the tables go out with key frames alone. *)
TablesOnKeysOnly(key) == mux.psi_pending \/ key

TablesDue(key) ==
    \/ mux.psi_pending \/ key
    \/ mux.media_ticks - mux.last_psi_ticks >= PSI_INTERVAL_90K

(* mux_access_unit(): the packets of unit number u, tables first. *)
Muxed(u, len, key) ==
    (IF TablesDue(key) THEN <<emit_section("pat", mux.cc_pat), emit_section("pmt", mux.cc_pmt)>>
     ELSE <<>>)
    \o emit_pes(u, len, key, mux.media_ticks % TIMESTAMPS, mux.cc_video)

(* Altered: a gap's frame lasts as long as the gap. *)
DurationKeepsGaps(c, now) ==
    LET start == IF c.rec_start_pts < 0 THEN now ELSE c.rec_start_pts
        target == (now - start) * MS_TO_90K
    IN  [rec_start_pts |-> start, ticks |-> target, last_good |-> target - c.ticks]

(* The duration is last_good of the result. *)
next_frame_duration(c, now) ==
    LET start == IF c.rec_start_pts < 0 THEN now ELSE c.rec_start_pts
        target == (now - start) * MS_TO_90K
        duration == Max({target - c.ticks, 1})
        usual == IF c.last_good > 0 THEN c.last_good ELSE 90000 \div nominal_fps
    IN  IF duration > MAX_FRAME_DURATION_90K
        THEN [rec_start_pts |-> start, ticks |-> target + usual, last_good |-> usual]
        ELSE [rec_start_pts |-> start, ticks |-> c.ticks + duration, last_good |-> duration]

-----------------------------------------------------------------------------
Torn == [pid |-> "torn", pusi |-> FALSE, cc |-> 0, af |-> -1, rai |-> FALSE, pcr |-> -1,
         at |-> 0, unit |-> 0, from |-> 0, to |-> 0]

(* What a failing call leaves of these packets: all that was synced, some  *)
(* of the rest (the first few, or all but the last), and perhaps part of   *)
(* the next.  When only the fdatasync() fails it leaves them all.          *)
Remains(ps, most) ==
    LET cuts == {k \in synced.packets .. most : k <= synced.packets + MaxCut \/ k >= Len(ps) - 1}
    IN  {SubSeq(ps, 1, k) : k \in cuts}
        \cup {Append(SubSeq(ps, 1, k), Torn) : k \in cuts \ {Len(ps)}}

(* The units whose octets may have been in the buffer. *)
Lost(us) ==
    [i \in DOMAIN us |-> IF i <= synced.units THEN us[i] ELSE [us[i] EXCEPT !.ok = FALSE]]

(* A call fails on a file with these packets and units. *)
CallFails(ps, us, most) ==
    /\ Cardinality({i \in DOMAIN units : ~units[i].ok}) < MaxFails
    /\ file' \in Remains(ps, most) /\ units' = Lost(us)
    /\ synced' = [packets |-> Len(file'), units |-> Len(us)]

(* write_block(): the packets go through the buffer of fwrite(). *)
WriteFails(ps, us) == CallFails(ps, us, Len(ps) - 1)
Written(ps, us) == file' = ps /\ units' = us /\ UNCHANGED synced

(* sync_now(): fflush() and fdatasync(). *)
SyncFails(ps, us) == CallFails(ps, us, Len(ps))
Syncs(ps, us) ==
    file' = ps /\ units' = us /\ synced' = [packets |-> Len(ps), units |-> Len(us)]

(* write_nal() of an access unit, with the duration the DVR computed for   *)
(* it; streak is write_fail_streak after it.  A flush may be due or not.   *)
write_nal(len, key, step, streak) ==
    LET now == IF units = <<>> THEN FIRST_PTS ELSE pts + step
        c == next_frame_duration(clock, now)
        due == TablesDue(key)
        ps == file \o Muxed(Len(units) + 1, len, key)
        us == Append(units, [len |-> len, key |-> key, pts |-> now, ok |-> TRUE,
                             at |-> mux.media_ticks, tables |-> due])
    IN  /\ mux.open /\ Len(units) < MaxUnits
        /\ units = <<>> => key
        /\ \/ WriteFails(ps, us) /\ streak = mux.write_fail_streak + 1
           \/ Written(ps, us) /\ streak = 0
           \/ Syncs(ps, us) /\ streak = 0
           \/ SyncFails(ps, us) /\ streak = 1
        /\ mux' = [mux EXCEPT
                     !.media_ticks = @ + c.last_good,
                     !.last_psi_ticks = IF due THEN mux.media_ticks ELSE @,
                     !.psi_pending = IF due THEN FALSE ELSE @,
                     !.cc_pat = IF due THEN (@ + 1) % 16 ELSE @,
                     !.cc_pmt = IF due THEN (@ + 1) % 16 ELSE @,
                     !.cc_video = (@ + PesPackets(len)) % 16,
                     !.write_fail_streak = streak]
        /\ clock' = c /\ pts' = now

WriteNal ==
    \E len \in Lengths, key \in BOOLEAN, step \in PtsSteps,
       streak \in 0 .. mux.write_fail_streak + 1 : write_nal(len, key, step, streak)

(* open_next_file(): the last file is closed, the next one begun. *)
OpenNext ==
    /\ mux' = FreshMux
    /\ clock' = [clock EXCEPT !.rec_start_pts = -1, !.ticks = 0]
    /\ file' = <<>> /\ units' = <<>> /\ synced' = [packets |-> 0, units |-> 0]
    /\ pts' = FIRST_PTS

(* finalize_current_file(), also after fail(): close() flushes. *)
Close ==
    /\ mux.open /\ mux' = [mux EXCEPT !.open = FALSE]
    /\ Syncs(file, units) \/ SyncFails(file, units)
    /\ UNCHANGED <<clock, pts>>

TsNext == OpenNext \/ WriteNal \/ Close

TsSpec == TsInit /\ [][TsNext]_tsVars

-----------------------------------------------------------------------------
(* A reader of the file. *)

Videos == {i \in DOMAIN file : file[i].pid = "video"}

(* The octets that the length of the adaptation field leaves to the        *)
(* payload are the ones that were copied, and fill the packet.             *)
Aligned(p) ==
    LET start == 4 + IF p.af >= 0 THEN 1 + p.af ELSE 0
    IN  start = p.at /\ start + (p.to - p.from) = TS_PACKET_SIZE

(* The packets a reader joins to the unit that starts at i: up to the next *)
(* start.                                                                  *)
JoinedFrom(i) ==
    LET ends == {j \in Videos : j > i /\ file[j].pusi} \cup {Len(file) + 1}
    IN  {j \in Videos : j >= i /\ j < Min(ends)}

(* Every access unit whose write succeeded, and which no later call that   *)
(* failed found unsynced, is read back whole, from its first octet to its  *)
(* last, at its own time and marked as a key frame if it is one, whatever  *)
(* was lost before or after it; if it was synced it is on storage.  The    *)
(* counters of a PID skip only where a unit was lost.  (emit_pes(),        *)
(* write_block(), sync_now())                                              *)
FileReadsBack ==
    /\ \A u \in DOMAIN units : units[u].ok =>
         \E i \in Videos :
            LET js == JoinedFrom(i)
                total == PES_HEADER + units[u].len
            IN  /\ file[i].pusi /\ file[i].rai = units[u].key
                /\ file[i].pcr = units[u].at % TIMESTAMPS /\ file[i].from = 0 /\ \E j \in js : file[j].to = total
                /\ \A j \in js :
                     /\ file[j].unit = u /\ Aligned(file[j])
                     /\ u <= synced.units => j <= synced.packets
                     /\ file[j].to < total =>
                          \E k \in js : k = j + 1 /\ file[k].from = file[j].to
                                        /\ file[k].cc = (file[j].cc + 1) % 16
    /\ \A i, j \in Videos :
         (i < j /\ ~\E k \in Videos : i < k /\ k < j)
         => \/ file[j].cc = (file[i].cc + 1) % 16
            \/ \E u \in DOMAIN units : ~units[u].ok /\ file[i].unit <= u /\ u <= file[j].unit

(* A unit that is in the file has the tables in the file before it, by     *)
(* less than a table interval of media time, unless a call that failed     *)
(* took them, from a unit less than an interval before: mux_access_unit()  *)
(* forgets psi_pending_ before it knows how its write ends, and nothing    *)
(* sets it again when a flush fails.                                       *)
TablesLead ==
    \A u \in DOMAIN units : units[u].ok =>
        \E t \in 1 .. u :
            /\ units[t].tables /\ units[u].at - units[t].at < PSI_INTERVAL_90K
            /\ ~units[t].ok \/ \E i \in Videos :
                    /\ file[i].unit = t /\ file[i].pusi /\ i > 2
                    /\ file[i - 2].pid = "pat" /\ file[i - 1].pid = "pmt"

(* The timeline of a file: every unit has a later time stamp than the one  *)
(* before, the DVR's count is never behind the time the units' pts tell    *)
(* and never ahead of it by more than the longest frame and a tick for     *)
(* every unit, and the file's own clock is behind only by gaps that were   *)
(* longer than the longest frame: through pts that stand still, run        *)
(* backwards or jump.                                                      *)
TimelineTracks ==
    LET n == Len(units)
        Elapsed(i) == (units[i].pts - units[1].pts) * MS_TO_90K
        latest == Max({Elapsed(i) : i \in DOMAIN units})
        skipped == clock.ticks - mux.media_ticks
    IN  mux.open /\ n > 0 =>
          /\ \A i \in 1 .. n - 1 : units[i].at < units[i + 1].at
          /\ clock.ticks >= Elapsed(n)
          /\ clock.ticks <= latest + MAX_FRAME_DURATION_90K + n
          /\ skipped = 0 \/ skipped > MAX_FRAME_DURATION_90K
=============================================================================
