--------------------------- MODULE TsWriterProofs ---------------------------
(***************************************************************************)
(* Theorems about the recorded file of TsWriter, for access units of any   *)
(* length, in any number, with any time stamps and any writes and flushes  *)
(* that fail: what is read back, where the tables are and how the timeline *)
(* follows the time stamps.                                                *)
(*                                                                         *)
(* What is said of a file is said of packets f and units us, so that a     *)
(* write can be followed in two parts: the unit added to what stdio was    *)
(* given, and what a failing call leaves of that.                          *)
(***************************************************************************)
EXTENDS TsWriter, WellFoundedInduction, TLAPS

-----------------------------------------------------------------------------
(* Types *)

Packet ==
  [pid : {"video", "pat", "pmt", "torn"}, pusi : BOOLEAN, cc : 0 .. 15, af : Int, rai : BOOLEAN,
   pcr : Int, at : Int, unit : Nat, from : Int, to : Int]

Unit == [len : Nat \ {0}, key : BOOLEAN, pts : Int, ok : BOOLEAN, at : Int, tables : BOOLEAN]

Mux ==
  [open : BOOLEAN, media_ticks : Int, last_psi_ticks : Int, psi_pending : BOOLEAN,
   cc_video : 0 .. 15, cc_pat : 0 .. 15, cc_pmt : 0 .. 15, write_fail_streak : Nat]

Clock == [rec_start_pts : Int, ticks : Int, last_good : 0 .. MAX_FRAME_DURATION_90K]

TsTypeOK ==
  /\ mux \in Mux /\ clock \in Clock /\ pts \in Int
  /\ file \in Seq(Packet) /\ units \in Seq(Unit)
  /\ synced \in [packets : Nat, units : Nat]

-----------------------------------------------------------------------------
(* The timeline *)

\* The first unit of a file starts its clock; the count of ticks starts with it.
Anchored ==
  /\ units = <<>> => clock.rec_start_pts = -1 /\ clock.ticks = 0 /\ mux.media_ticks = 0
  /\ units # <<>> => /\ clock.rec_start_pts = FIRST_PTS /\ units[1].pts = FIRST_PTS
                     /\ clock.last_good >= 1

Since(t) == (t - FIRST_PTS) * MS_TO_90K

\* Where the count of the DVR may be: k is the unit with the latest time.
Bounded ==
  units # <<>> =>
    /\ clock.ticks >= Since(units[Len(units)].pts)
    /\ \E k \in DOMAIN units :
         /\ \A i \in DOMAIN units : units[i].pts <= units[k].pts
         /\ clock.ticks <= Since(units[k].pts) + MAX_FRAME_DURATION_90K + Len(units)
    /\ LET skipped == clock.ticks - mux.media_ticks
       IN  skipped = 0 \/ skipped > MAX_FRAME_DURATION_90K

\* The time stamps in the file, and the one that the next unit gets.
Rising ==
  /\ \A i \in 1 .. Len(units) - 1 : units[i].at < units[i + 1].at
  /\ units # <<>> => units[Len(units)].at < mux.media_ticks

ClockInv == TsTypeOK /\ Anchored /\ Bounded /\ Rising

-----------------------------------------------------------------------------
(* The tables *)

VideosOf(f) == {i \in DOMAIN f : f[i].pid = "video"}

\* The tables sent with unit t are in the file, or the unit was lost.
TablesIn(f, us, t) ==
  ~us[t].ok \/ \E i \in VideosOf(f) : /\ f[i].unit = t /\ f[i].pusi /\ i > 2
                                     /\ f[i - 2].pid = "pat" /\ f[i - 1].pid = "pmt"

\* The latest tables are those that last_psi_ticks_ remembers.
LatestTables(f, us, m) ==
  /\ us # <<>> =>
       \E t \in DOMAIN us :
         us[t].tables /\ us[t].at = m.last_psi_ticks /\ TablesIn(f, us, t)
  /\ us = <<>> => m.psi_pending

\* TablesLead of these packets and units.
Leads(f, us) ==
  \A u \in DOMAIN us : us[u].ok =>
    \E t \in 1 .. u :
      us[t].tables /\ us[u].at - us[t].at < PSI_INTERVAL_90K /\ TablesIn(f, us, t)

-----------------------------------------------------------------------------
(* The packets *)

\* The packets of a file are of its units, in their order.
InOrder(f, us) ==
  /\ \A i \in VideosOf(f) : f[i].unit \in 1 .. Len(us)
  /\ \A i, j \in VideosOf(f) : i < j => f[i].unit <= f[j].unit

\* A packet that does not start a unit follows one of a unit.
Follows(f) == \A j \in VideosOf(f) : ~f[j].pusi => j > 1 /\ j - 1 \in VideosOf(f)

\* Unit u is in the file, from i on, and what comes after it starts another.
Stored(f, us, u, i, cc) ==
  LET c == PesPackets(us[u].len)
  IN  /\ i + c - 1 <= Len(f)
      /\ \A k \in 1 .. c :
           f[i + k - 1] = PesPacket(u, us[u].len, us[u].key, us[u].at % TIMESTAMPS,
                                    (cc + k - 1) % 16, k)
      /\ i + c \in VideosOf(f) => f[i + c].pusi

AllStored(f, us) ==
  \A u \in DOMAIN us : us[u].ok => \E i \in DOMAIN f, cc \in 0 .. 15 : Stored(f, us, u, i, cc)

\* A unit was lost, unit a or one after it, up to unit b.
LostIn(us, a, b) == \E u \in DOMAIN us : ~us[u].ok /\ a <= u /\ u <= b

Counted(f, us) ==
  \A i, j \in VideosOf(f) :
    i < j /\ ~(\E k \in VideosOf(f) : i < k /\ k < j)
    => f[j].cc = (f[i].cc + 1) % 16 \/ LostIn(us, f[i].unit, f[j].unit)

\* The counter goes on from the last packet, unless a unit was lost since.
CounterGoesOn(f, us, cc_video) ==
  \A i \in VideosOf(f) :
    (\A k \in VideosOf(f) : k <= i)
    => cc_video = (f[i].cc + 1) % 16 \/ LostIn(us, f[i].unit, Len(us))

FileInv(f, us, cc_video) ==
  InOrder(f, us) /\ Follows(f) /\ AllStored(f, us) /\ Counted(f, us) /\ CounterGoesOn(f, us, cc_video)

\* The synced units are within the synced packets, and when every unit is synced
\* so is every packet.
Sync(f, us, packets, count) ==
  /\ packets <= Len(f) /\ count <= Len(us)
  /\ count = Len(us) => packets = Len(f)
  /\ \A i \in VideosOf(f) : f[i].unit <= count => i <= packets

\* What is kept of the packets and the units, with this state of the multiplexer.
Kept(f, us, m) ==
  /\ f \in Seq(Packet) /\ us \in Seq(Unit)
  /\ LatestTables(f, us, m) /\ Leads(f, us) /\ FileInv(f, us, m.cc_video)

TsInv == ClockInv /\ Kept(file, units, mux) /\ Sync(file, units, synced.packets, synced.units)

-----------------------------------------------------------------------------
(* What the operators of TsWriter compute *)

\* The larger of two numbers.
LEMMA MaxOfTwo ==
  ASSUME NEW a \in Int, NEW b \in Int
  PROVE  Max({a, b}) = IF a >= b THEN a ELSE b
<1>1. \E x \in {a, b} : \A y \in {a, b} : x >= y
  OBVIOUS
<1>2. Max({a, b}) \in {a, b} /\ \A y \in {a, b} : Max({a, b}) >= y
  BY <1>1 DEF Max
<1> QED
  BY <1>2

\* The duration of a frame: at least a tick, at most the longest frame, and
\* the count of ticks never behind the time stamps.
LEMMA Duration ==
  ASSUME NEW c \in Clock, NEW now \in Int,
         \/ c.rec_start_pts = -1 /\ c.ticks = 0 /\ now = FIRST_PTS
         \/ c.rec_start_pts = FIRST_PTS /\ c.last_good >= 1
  PROVE  LET r == next_frame_duration(c, now)
         IN  /\ r \in Clock /\ r.rec_start_pts = FIRST_PTS /\ r.last_good >= 1
             /\ r.ticks >= Since(now)
             /\ \/ /\ Since(now) - c.ticks > MAX_FRAME_DURATION_90K
                   /\ r.ticks = Since(now) + r.last_good
                \/ /\ r.ticks = c.ticks + r.last_good
                   /\ r.ticks = Since(now) \/ r.ticks = c.ticks + 1
<1> DEFINE start == IF c.rec_start_pts < 0 THEN now ELSE c.rec_start_pts
           target == (now - start) * MS_TO_90K
           duration == Max({target - c.ticks, 1})
           usual == IF c.last_good > 0 THEN c.last_good ELSE 90000 \div nominal_fps
           r == next_frame_duration(c, now)
<1>1. c.rec_start_pts \in Int /\ c.ticks \in Int /\ c.last_good \in 0 .. MAX_FRAME_DURATION_90K
  BY DEF Clock
<1>2. start = FIRST_PTS /\ target = Since(now) /\ target \in Int
  BY <1>1 DEF FIRST_PTS, Since, MS_TO_90K
<1>3. MAX_FRAME_DURATION_90K = 22500
  BY DEF MAX_FRAME_DURATION_90K
<1>4. duration = IF target - c.ticks >= 1 THEN target - c.ticks ELSE 1
  BY <1>1, <1>2, MaxOfTwo
<1>5. r = IF duration > MAX_FRAME_DURATION_90K
          THEN [rec_start_pts |-> start, ticks |-> target + usual, last_good |-> usual]
          ELSE [rec_start_pts |-> start, ticks |-> c.ticks + duration, last_good |-> duration]
  BY DEF next_frame_duration
<1> HIDE DEF r, duration, target, start
<1>6. CASE duration > MAX_FRAME_DURATION_90K
  <2>1. target - c.ticks > MAX_FRAME_DURATION_90K
    BY <1>1, <1>2, <1>3, <1>4, <1>6
  <2>2. c.last_good >= 1
    BY <1>1, <1>2, <1>3, <2>1 DEF Since, FIRST_PTS, MS_TO_90K
  <2>3. usual = c.last_good
    BY <1>1, <2>2
  <2> HIDE DEF usual
  <2>4. r = [rec_start_pts |-> FIRST_PTS, ticks |-> target + c.last_good, last_good |-> c.last_good]
    BY <1>2, <1>5, <1>6, <2>3
  <2>5. r \in Clock /\ r.rec_start_pts = FIRST_PTS /\ r.ticks = target + c.last_good /\ r.last_good = c.last_good
    BY <1>1, <1>2, <2>4 DEF Clock, FIRST_PTS
  <2> QED
    BY <1>1, <1>2, <2>1, <2>2, <2>5 DEF r
<1>7. CASE ~(duration > MAX_FRAME_DURATION_90K)
  <2>1. r = [rec_start_pts |-> FIRST_PTS, ticks |-> c.ticks + duration, last_good |-> duration]
    BY <1>2, <1>5, <1>7
  <2>2. duration \in Int /\ duration >= 1 /\ duration <= MAX_FRAME_DURATION_90K
    <3>1. duration \in Int /\ duration >= 1
      BY <1>1, <1>2, <1>4
    <3>2. ~(duration > 22500)
      BY <1>3, <1>7
    <3>3. duration <= 22500
      BY <3>1, <3>2
    <3> QED
      BY <1>3, <3>1, <3>3
  <2>3. r \in Clock /\ r.rec_start_pts = FIRST_PTS /\ r.ticks = c.ticks + duration /\ r.last_good = duration
    <3>1. c.ticks + duration \in Int /\ duration \in 0 .. MAX_FRAME_DURATION_90K
      BY <1>1, <2>2
    <3> QED
      BY <2>1, <3>1 DEF Clock, FIRST_PTS
  <2>4. c.ticks + duration >= target /\ (c.ticks + duration = target \/ c.ticks + duration = c.ticks + 1)
    BY <1>1, <1>2, <1>4
  <2> QED
    BY <1>2, <1>3, <2>2, <2>3, <2>4 DEF r
<1> QED
  BY <1>6, <1>7

\* The packets of a unit: every one but the last is full, and the last one ends
\* where the unit does.
LEMMA Packets ==
  ASSUME NEW len \in Nat \ {0}
  PROVE  /\ PesPackets(len) \in Nat \ {0}
         /\ \A k \in 1 .. PesPackets(len) :
              /\ Start(k) \in Nat /\ Room(k) \in {176, 184}
              /\ Start(k) < PES_HEADER + len
              /\ k = PesPackets(len) => PES_HEADER + len <= Start(k) + Room(k)
              /\ k < PesPackets(len) =>
                   Start(k + 1) = Start(k) + Room(k) /\ Start(k + 1) < PES_HEADER + len
<1> DEFINE rest == len + 14 - 176
           q == (rest + 183) \div 184
<1>1. PesPackets(len) = IF rest <= 0 THEN 1 ELSE 1 + q
  BY DEF PesPackets, PES_HEADER, Room, Fixed, TS_PACKET_SIZE
<1>2. rest > 0 => q \in Nat \ {0} /\ 184 * (q - 1) < rest /\ rest <= 184 * q
  OBVIOUS
<1> HIDE DEF q
<1>3. \A k \in Nat \ {0} : /\ Start(k) = IF k = 1 THEN 0 ELSE 176 + (k - 2) * 184
                           /\ Room(k) = IF k = 1 THEN 176 ELSE 184
  BY DEF Start, Room, Fixed, TS_PACKET_SIZE
<1>4. PesPackets(len) \in Nat \ {0}
  BY <1>1, <1>2
<1>5. ASSUME NEW k \in 1 .. PesPackets(len)
      PROVE  /\ Start(k) \in Nat /\ Room(k) \in {176, 184}
             /\ Start(k) < PES_HEADER + len
             /\ k = PesPackets(len) => PES_HEADER + len <= Start(k) + Room(k)
             /\ k < PesPackets(len) =>
                  Start(k + 1) = Start(k) + Room(k) /\ Start(k + 1) < PES_HEADER + len
  <2>1. k \in Nat \ {0} /\ k + 1 \in Nat \ {0} /\ k <= PesPackets(len)
    BY <1>4
  <2> QED
    BY <1>1, <1>2, <1>3, <1>4, <2>1 DEF PES_HEADER
<1> QED
  BY <1>4, <1>5

\* What packet k of a unit holds, and that a reader finds its octets.
Reads(p, u, len, key, pcr, cc, k) ==
  LET total == PES_HEADER + len
  IN  /\ p.pid = "video" /\ p.unit = u /\ p.cc = cc
      /\ (p.pusi <=> k = 1) /\ (k = 1 => p.rai = key /\ p.pcr = pcr)
      /\ p.from = Start(k) /\ Aligned(p)
      /\ k = PesPackets(len) => p.to = total
      /\ p.to < total => k < PesPackets(len) /\ p.to = Start(k + 1)

\* The octets of a unit are where the fields of its packets say.
LEMMA PacketHolds ==
  ASSUME NEW u \in Nat, NEW len \in Nat \ {0}, NEW key \in BOOLEAN, NEW pcr \in Int,
         NEW cc \in 0 .. 15, NEW k \in 1 .. PesPackets(len)
  PROVE  LET p == PesPacket(u, len, key, pcr, cc, k)
         IN  p \in Packet /\ Reads(p, u, len, key, pcr, cc, k)
<1> DEFINE p == PesPacket(u, len, key, pcr, cc, k)
           remaining == PES_HEADER + len - Start(k)
           pad == IF remaining < Room(k) THEN Room(k) - remaining ELSE 0
           af == IF k = 1 THEN 7 + pad ELSE IF pad = 0 THEN -1 ELSE PaddingOnly(pad)
<1>1. p = [pid |-> "video", pusi |-> k = 1, cc |-> cc, af |-> af,
           rai |-> k = 1 /\ key, pcr |-> IF k = 1 THEN pcr ELSE -1,
           at |-> IF af = 0 THEN 5 ELSE 4 + Fixed(k) + pad,
           unit |-> u, from |-> Start(k), to |-> Start(k) + Room(k) - pad]
  BY DEF PesPacket
<1>2. /\ PesPackets(len) \in Nat \ {0} /\ k \in Nat /\ Start(k) \in Nat /\ Room(k) \in {176, 184}
      /\ Start(k) < PES_HEADER + len
      /\ k = PesPackets(len) => PES_HEADER + len <= Start(k) + Room(k)
      /\ k < PesPackets(len) => Start(k + 1) = Start(k) + Room(k) /\ Start(k + 1) < PES_HEADER + len
  BY Packets
<1>3. PES_HEADER + len \in Nat
  BY DEF PES_HEADER
<1>4. pad \in 0 .. 183 /\ remaining \in Nat \ {0}
  BY <1>2 DEF PES_HEADER
<1>5. Fixed(k) = (IF k = 1 THEN 8 ELSE 0) /\ Room(k) = 184 - Fixed(k)
  BY DEF Room, Fixed, TS_PACKET_SIZE
<1>6. k < PesPackets(len) => pad = 0
  BY <1>2 DEF PES_HEADER
<1>7. k = PesPackets(len) => Start(k) + Room(k) - pad = PES_HEADER + len
  BY <1>2 DEF PES_HEADER
<1> HIDE DEF pad
<1>8. af = IF k = 1 THEN 7 + pad ELSE IF pad = 0 THEN -1 ELSE IF pad = 1 THEN 0 ELSE pad - 1
  BY DEF PaddingOnly
<1> HIDE DEF af
<1>9. af \in Int /\ af >= -1
  BY <1>4, <1>8
<1> HIDE DEF p
<1>10. /\ p.pid = "video" /\ p.unit = u /\ p.cc = cc /\ p.pusi = (k = 1) /\ p.af = af
       /\ p.from = Start(k) /\ p.to = Start(k) + Room(k) - pad
       /\ p.at = (IF af = 0 THEN 5 ELSE 4 + Fixed(k) + pad)
       /\ (k = 1 => p.rai = key /\ p.pcr = pcr)
  BY <1>1
<1>11. p \in Packet
  BY <1>1, <1>2, <1>4, <1>5, <1>9 DEF Packet
<1>12. Aligned(p)
  BY <1>2, <1>4, <1>5, <1>8, <1>10 DEF Aligned, TS_PACKET_SIZE
<1>13. p.to < PES_HEADER + len => k < PesPackets(len) /\ p.to = Start(k + 1)
  BY <1>2, <1>4, <1>6, <1>7, <1>10
<1> QED
  BY <1>7, <1>10, <1>11, <1>12, <1>13 DEF p, Reads

-----------------------------------------------------------------------------
(* What a write does *)

Now(step) == IF units = <<>> THEN FIRST_PTS ELSE pts + step

\* A write of an access unit, field by field.
Wrote(len, key, step) ==
  /\ mux.open /\ pts' = Now(step) /\ clock' = next_frame_duration(clock, Now(step))
  /\ mux' \in Mux /\ mux'.open
  /\ mux'.media_ticks = mux.media_ticks + clock'.last_good
  /\ mux'.last_psi_ticks = (IF TablesDue(key) THEN mux.media_ticks ELSE mux.last_psi_ticks)
  /\ (TablesDue(key) => ~mux'.psi_pending) /\ (~TablesDue(key) => mux'.psi_pending = mux.psi_pending)
  /\ mux'.cc_video = (mux.cc_video + PesPackets(len)) % 16

\* The units after it: U has one more, and the others as they were.
Grown(U, len, key, step) ==
  /\ U \in Seq(Unit) /\ Len(U) = Len(units) + 1
  /\ \A i \in 1 .. Len(units) : U[i] = units[i]
  /\ LET u == U[Len(units) + 1]
     IN  /\ u.len = len /\ u.key = key /\ u.pts = Now(step) /\ u.ok
         /\ u.at = mux.media_ticks /\ u.tables = TablesDue(key)

Given(len, key) == file \o Muxed(Len(units) + 1, len, key)

\* What the calls of stdio do with packets F and units U.
Called(F, U) ==
  \/ /\ file' = F /\ units' = U
     /\ synced' = synced \/ synced' = [packets |-> Len(F), units |-> Len(U)]
  \/ \E k \in synced.packets .. Len(F) :
       /\ file' = SubSeq(F, 1, k) \/ file' = Append(SubSeq(F, 1, k), Torn)
       /\ units' = Lost(U) /\ synced' = [packets |-> Len(file'), units |-> Len(U)]

\* A call that fails leaves a part that holds all that was synced.
LEMMA FailureLeaves ==
  ASSUME NEW F \in Seq(Packet), NEW U, synced.packets \in Nat,
         NEW most, most \in {Len(F) - 1, Len(F)}, CallFails(F, U, most)
  PROVE  Called(F, U)
<1>1. PICK k \in synced.packets .. most :
         file' = SubSeq(F, 1, k) \/ file' = Append(SubSeq(F, 1, k), Torn)
  BY DEF CallFails, Remains
<1>2. k \in synced.packets .. Len(F)
  <2> DEFINE L == Len(F)
             p == synced.packets
  <2>1. L \in Nat /\ p \in Nat /\ most \in {L - 1, L} /\ k \in p .. most
    BY <1>1
  <2> HIDE DEF L, p
  <2>2. k \in p .. L
    BY <2>1
  <2> QED
    BY <2>2 DEF L, p
<1>3. units' = Lost(U) /\ synced' = [packets |-> Len(file'), units |-> Len(U)]
  BY DEF CallFails
<1> QED
  BY <1>1, <1>2, <1>3 DEF Called

\* What write_nal() does to everything but the file.
LEMMA WriteFacts ==
  ASSUME TsTypeOK, Anchored, NEW len \in Lengths, NEW key \in BOOLEAN, NEW step \in PtsSteps,
         NEW streak \in Nat, write_nal(len, key, step, streak)
  PROVE  /\ Wrote(len, key, step) /\ clock' \in Clock /\ Now(step) \in Int /\ len \in Nat \ {0}
         /\ \E U : /\ Grown(U, len, key, step)
                  /\ \/ Written(Given(len, key), U) \/ Syncs(Given(len, key), U)
                     \/ WriteFails(Given(len, key), U) \/ SyncFails(Given(len, key), U)
<1>1. len \in Nat \ {0} /\ step \in Int
  BY TsAssumption
<1>2. Now(step) \in Int
  BY <1>1 DEF Now, TsTypeOK, FIRST_PTS
<1>3. clock' = next_frame_duration(clock, Now(step)) /\ pts' = Now(step) /\ mux.open
  BY DEF write_nal, Now
<1>4. clock' \in Clock
  BY <1>2, <1>3, Duration DEF TsTypeOK, Anchored, Now
<1>5. TablesDue(key) \in BOOLEAN
  BY DEF TablesDue, TsTypeOK, Mux
<1> DEFINE due == TablesDue(key)
<1>6. mux' = [mux EXCEPT
                !.media_ticks = @ + clock'.last_good,
                !.last_psi_ticks = IF due THEN mux.media_ticks ELSE @,
                !.psi_pending = IF due THEN FALSE ELSE @,
                !.cc_pat = IF due THEN (@ + 1) % 16 ELSE @,
                !.cc_pmt = IF due THEN (@ + 1) % 16 ELSE @,
                !.cc_video = (@ + PesPackets(len)) % 16,
                !.write_fail_streak = streak]
  BY DEF write_nal, Now
<1> DEFINE this == [len |-> len, key |-> key, pts |-> Now(step), ok |-> TRUE,
                    at |-> mux.media_ticks, tables |-> due]
           U == Append(units, this)
<1>7. \/ Written(Given(len, key), U) \/ Syncs(Given(len, key), U)
      \/ WriteFails(Given(len, key), U) \/ SyncFails(Given(len, key), U)
  BY DEF write_nal, Now, Given
<1> HIDE DEF due
<1>8. clock'.last_good \in Int /\ PesPackets(len) \in Nat
  BY <1>1, <1>4, Packets DEF Clock
<1>9. /\ mux' \in Mux /\ mux'.open = mux.open
      /\ mux'.media_ticks = mux.media_ticks + clock'.last_good
      /\ mux'.last_psi_ticks = (IF due THEN mux.media_ticks ELSE mux.last_psi_ticks)
      /\ (due => ~mux'.psi_pending) /\ (~due => mux'.psi_pending = mux.psi_pending)
      /\ mux'.cc_video = (mux.cc_video + PesPackets(len)) % 16
  <2>1. mux \in Mux
    BY DEF TsTypeOK
  <2>2. /\ mux.open \in BOOLEAN /\ mux.psi_pending \in BOOLEAN /\ mux.media_ticks \in Int
        /\ mux.last_psi_ticks \in Int /\ mux.cc_video \in 0 .. 15 /\ mux.cc_pat \in 0 .. 15
        /\ mux.cc_pmt \in 0 .. 15 /\ mux.write_fail_streak \in Nat
    BY <2>1 DEF Mux
  <2> DEFINE media == mux.media_ticks + clock'.last_good
             last_psi == IF due THEN mux.media_ticks ELSE mux.last_psi_ticks
             pending == IF due THEN FALSE ELSE mux.psi_pending
             pat == IF due THEN (mux.cc_pat + 1) % 16 ELSE mux.cc_pat
             pmt == IF due THEN (mux.cc_pmt + 1) % 16 ELSE mux.cc_pmt
             video == (mux.cc_video + PesPackets(len)) % 16
  <2>3. mux' = [open |-> mux.open, media_ticks |-> media, last_psi_ticks |-> last_psi,
                psi_pending |-> pending, cc_video |-> video, cc_pat |-> pat, cc_pmt |-> pmt,
                write_fail_streak |-> streak]
    BY <1>6, <2>1 DEF Mux
  <2>4. /\ media \in Int /\ last_psi \in Int /\ pending \in BOOLEAN /\ pat \in 0 .. 15
        /\ pmt \in 0 .. 15 /\ video \in 0 .. 15 /\ streak \in Nat
    <3>1. media \in Int /\ last_psi \in Int
      BY <1>8, <2>2
    <3>2. pending \in BOOLEAN
      BY <2>2
    <3>3. pat \in 0 .. 15 /\ pmt \in 0 .. 15
      BY <2>2
    <3>4. video \in 0 .. 15
      BY <1>8, <2>2
    <3>5. streak \in Nat
      BY <2>2
    <3> QED
      BY <3>1, <3>2, <3>3, <3>4, <3>5
  <2> HIDE DEF media, last_psi, pending, pat, pmt, video
  <2>5. mux' \in Mux
    BY <2>2, <2>3, <2>4 DEF Mux
  <2>6. /\ mux'.open = mux.open /\ mux'.media_ticks = media /\ mux'.last_psi_ticks = last_psi
        /\ mux'.psi_pending = pending /\ mux'.cc_video = video
    BY <2>3
  <2> QED
    BY <2>5, <2>6 DEF media, last_psi, pending, video
<1>10. /\ this \in Unit /\ this.len = len /\ this.key = key /\ this.pts = Now(step) /\ this.ok
       /\ this.at = mux.media_ticks /\ this.tables = due
  BY <1>1, <1>2, <1>5 DEF Unit, TsTypeOK, Mux, due
<1> HIDE DEF this
<1>11. /\ U \in Seq(Unit) /\ Len(U) = Len(units) + 1
       /\ \A i \in 1 .. Len(units) : U[i] = units[i]
       /\ U[Len(units) + 1] = this
  BY <1>10 DEF TsTypeOK
<1> HIDE DEF U
<1>12. Grown(U, len, key, step)
  BY <1>10, <1>11 DEF Grown, due
<1>13. Wrote(len, key, step)
  BY <1>1, <1>2, <1>3, <1>4, <1>9 DEF Wrote, due
<1> QED
  BY <1>1, <1>2, <1>4, <1>7, <1>12, <1>13

\* The time stamps of the units after a write, lost ones too.
Timed(step) ==
  /\ units' \in Seq(Unit) /\ Len(units') = Len(units) + 1
  /\ \A i \in 1 .. Len(units) : units'[i].pts = units[i].pts /\ units'[i].at = units[i].at
  /\ units'[Len(units) + 1].pts = Now(step) /\ units'[Len(units) + 1].at = mux.media_ticks

\* A write keeps the timeline.
LEMMA ClockWrite ==
  ASSUME TsTypeOK, Anchored, Bounded, Rising, NEW len, NEW key, NEW step,
         Wrote(len, key, step), Timed(step), Now(step) \in Int, clock' \in Clock
  PROVE  Anchored' /\ Bounded' /\ Rising'
<1> DEFINE n == Len(units)
           M == MAX_FRAME_DURATION_90K
<1>0. n \in Nat /\ M = 22500 /\ (units = <<>> <=> n = 0) /\ units' # <<>>
  BY DEF TsTypeOK, MAX_FRAME_DURATION_90K, Timed
<1>1. /\ clock.ticks \in Int /\ mux.media_ticks \in Int /\ clock'.ticks \in Int
      /\ clock'.last_good \in Int /\ clock'.last_good <= M /\ mux'.media_ticks = mux.media_ticks + clock'.last_good
  BY DEF TsTypeOK, Clock, Mux, Wrote
<1>2. \A i \in 1 .. n : units[i].pts \in Int /\ units[i].at \in Int
  <2>1. \A i \in 1 .. n : units[i] \in Unit
    BY DEF TsTypeOK
  <2> QED
    BY <2>1 DEF Unit
<1>3. /\ clock'.rec_start_pts = FIRST_PTS /\ clock'.last_good >= 1
      /\ clock'.ticks >= Since(Now(step))
      /\ \/ /\ Since(Now(step)) - clock.ticks > M
            /\ clock'.ticks = Since(Now(step)) + clock'.last_good
         \/ /\ clock'.ticks = clock.ticks + clock'.last_good
            /\ clock'.ticks = Since(Now(step)) \/ clock'.ticks = clock.ticks + 1
  BY Duration DEF Anchored, TsTypeOK, Wrote, Now
<1>4. /\ Len(units') = n + 1
      /\ \A i \in 1 .. n : units'[i].pts = units[i].pts /\ units'[i].at = units[i].at
      /\ units'[n + 1].pts = Now(step) /\ units'[n + 1].at = mux.media_ticks
  BY DEF Timed
<1>5. Anchored'
  BY <1>0, <1>3, <1>4 DEF Anchored, Now
<1>6. Rising'
  <2>1. ASSUME NEW i \in 1 .. n PROVE units'[i].at < units'[i + 1].at
    <3>1. CASE i < n
      BY <1>0, <1>4, <2>1, <3>1 DEF Rising
    <3>2. CASE i = n
      BY <1>0, <1>4, <2>1, <3>2 DEF Rising
    <3> QED
      BY <1>0, <3>1, <3>2
  <2>2. units'[n + 1].at < mux'.media_ticks
    BY <1>1, <1>3, <1>4
  <2> QED
    BY <1>0, <1>4, <2>1, <2>2 DEF Rising
<1>7. Since(Now(step)) \in Int /\ \A i \in 1 .. n : Since(units[i].pts) \in Int
  BY <1>2 DEF Since, FIRST_PTS, MS_TO_90K
<1>8. PICK a, b, s, g :
         a = clock.ticks /\ b = clock'.ticks /\ s = Since(Now(step)) /\ g = clock'.last_good
  OBVIOUS
<1>9. a \in Int /\ b \in Int /\ s \in Int /\ g \in Int /\ g <= 22500 /\ 1 <= g
  <2>1. M = 22500
    BY <1>0
  <2> HIDE DEF M
  <2> QED
    BY <1>1, <1>3, <1>7, <1>8, <2>1
<1>10. (s - a > 22500 /\ b = s + g) \/ (b = a + g /\ (b = s \/ b = a + 1))
  <2>1. M = 22500
    BY <1>0
  <2> HIDE DEF M
  <2> QED
    BY <1>3, <1>8, <2>1
<1>11. \A k \in Int, l \in Nat : s <= k /\ a <= k + 22500 + l => b <= k + 22500 + (l + 1)
  BY <1>9, <1>10
<1>12. LET skipped == clock'.ticks - mux'.media_ticks IN skipped = 0 \/ skipped > M
  <2>1. PICK d \in Int : d = mux.media_ticks
    BY <1>1
  <2>2. a - d = 0 \/ a - d > 22500
    BY <1>0, <1>8, <2>1 DEF Bounded, Anchored
  <2>3. b - (d + g) = 0 \/ b - (d + g) > 22500
    BY <1>9, <1>10, <2>1, <2>2
  <2>4. mux'.media_ticks = d + g
    BY <1>1, <1>8, <2>1
  <2> QED
    BY <1>0, <1>8, <2>3, <2>4
<1>13. \E k \in 1 .. n + 1 :
        /\ \A i \in 1 .. n + 1 : units'[i].pts <= units'[k].pts
        /\ clock'.ticks <= Since(units'[k].pts) + M + (n + 1)
  <2>1. CASE n = 0
    <3>1. units'[1].pts = Now(step) /\ clock.ticks = 0 /\ Since(Now(step)) = 0
      BY <1>0, <1>4, <2>1 DEF Anchored, Now, Since, FIRST_PTS, MS_TO_90K
    <3>2. clock'.ticks <= Since(units'[1].pts) + M + (n + 1)
      BY <1>0, <1>8, <1>9, <1>11, <3>1
    <3> QED
      BY <2>1, <3>1, <3>2
  <2>2. CASE n > 0
    <3>1. PICK k \in 1 .. n :
            /\ \A i \in 1 .. n : units[i].pts <= units[k].pts
            /\ clock.ticks <= Since(units[k].pts) + M + n
      BY <1>0, <2>2 DEF Bounded, TsTypeOK
    <3>2. CASE Now(step) <= units[k].pts
      <4>1. Since(Now(step)) <= Since(units[k].pts)
        BY <1>2, <3>2 DEF Since, FIRST_PTS, MS_TO_90K
      <4>2. clock'.ticks <= Since(units[k].pts) + M + (n + 1)
        BY <1>0, <1>7, <1>8, <1>9, <1>11, <3>1, <4>1
      <4>3. \A i \in 1 .. n + 1 : units'[i].pts <= units'[k].pts
        BY <1>0, <1>4, <3>1, <3>2
      <4> QED
        BY <1>0, <1>4, <4>2, <4>3
    <3>3. CASE Now(step) > units[k].pts
      <4>1. Since(Now(step)) >= Since(units[k].pts)
        BY <1>2, <3>3 DEF Since, FIRST_PTS, MS_TO_90K
      <4>2. clock'.ticks <= Since(Now(step)) + M + (n + 1)
        <5>1. Since(units[k].pts) \in Int /\ clock.ticks <= Since(units[k].pts) + M + n
          BY <1>7, <3>1
        <5>2. PICK l \in Nat, r \in Int : l = n /\ r = Since(units[k].pts)
          BY <1>0, <5>1
        <5>3. r <= s /\ a <= r + 22500 + l
          BY <1>0, <1>8, <4>1, <5>1, <5>2
        <5>4. b <= s + 22500 + (l + 1)
          BY <1>9, <1>10, <5>3
        <5> QED
          BY <1>0, <1>8, <5>2, <5>4
      <4>3. \A i \in 1 .. n + 1 : units'[i].pts <= units'[n + 1].pts
        BY <1>0, <1>2, <1>4, <3>1, <3>3
      <4> QED
        BY <1>0, <1>4, <4>2, <4>3
    <3> QED
      BY <1>2, <3>1, <3>2, <3>3
  <2> QED
    BY <1>0, <2>1, <2>2
<1>14. Bounded'
  <2>1. DOMAIN units' = 1 .. n + 1
    BY <1>0, <1>4 DEF Timed
  <2>2. clock'.ticks >= Since(units'[n + 1].pts)
    BY <1>3, <1>4
  <2> QED
    BY <1>4, <1>12, <1>13, <2>1, <2>2 DEF Bounded, Since
<1> QED
  BY <1>5, <1>6, <1>14

\* The continuity counters have four bits.
LEMMA CounterTyped == \A a \in Int : a % 16 \in 0 .. 15
  OBVIOUS

\* A time stamp of the file is a number.
LEMMA TimestampTyped == \A a \in Int : a % TIMESTAMPS \in Int
  BY TsAssumption

\* What the concatenation of two runs of packets holds.
LEMMA JoinHolds ==
  ASSUME NEW S, NEW a \in Seq(S), NEW b \in Seq(S)
  PROVE  /\ a \o b \in Seq(S) /\ Len(a \o b) = Len(a) + Len(b)
         /\ \A x \in 1 .. Len(a) : (a \o b)[x] = a[x]
         /\ \A x \in 1 .. Len(b) : (a \o b)[Len(a) + x] = b[x]
  OBVIOUS

\* The file after a write that succeeds: t packets of tables, then those of the
\* unit, m in all.
Packed(u, len, key, k) ==
  PesPacket(u, len, key, mux.media_ticks % TIMESTAMPS, (mux.cc_video + k - 1) % 16, k)

Filed(F, len, key, t, m) ==
  LET size == Len(file)
  IN  /\ t \in {0, 2} /\ m \in Nat
      /\ F \in Seq(Packet) /\ Len(F) = size + m
      /\ \A x \in 1 .. size : F[x] = file[x]
      /\ t = (IF TablesDue(key) THEN 2 ELSE 0)
      /\ m = t + PesPackets(len)
      /\ t = 2 => F[size + 1].pid = "pat"
      /\ t = 2 => F[size + 2].pid = "pmt"
      /\ \A x \in t + 1 .. m : F[size + x] = Packed(Len(units) + 1, len, key, x - t)

\* What write_nal() gives to stdio.
LEMMA WriteFiles ==
  ASSUME TsTypeOK, NEW len \in Nat \ {0}, NEW key \in BOOLEAN
  PROVE  \E t, m : Filed(Given(len, key), len, key, t, m)
<1> DEFINE u == Len(units) + 1
           c == PesPackets(len)
           pes == emit_pes(u, len, key, mux.media_ticks % TIMESTAMPS, mux.cc_video)
           tables == IF TablesDue(key)
                     THEN <<emit_section("pat", mux.cc_pat), emit_section("pmt", mux.cc_pmt)>>
                     ELSE <<>>
           t == IF TablesDue(key) THEN 2 ELSE 0
           ps == Muxed(u, len, key)
<1>1. /\ u \in Nat /\ mux.media_ticks \in Int /\ mux.cc_video \in 0 .. 15
      /\ mux.cc_pat \in 0 .. 15 /\ mux.cc_pmt \in 0 .. 15 /\ Len(file) \in Nat /\ file \in Seq(Packet)
  BY DEF TsTypeOK, Mux
<1>2. c \in Nat \ {0}
  BY Packets
<1>3. ASSUME NEW k \in 1 .. c PROVE Packed(u, len, key, k) \in Packet
  <2>1. (mux.cc_video + k - 1) % 16 \in 0 .. 15
    <3>1. mux.cc_video + k - 1 \in Int
      BY <1>1, <1>2
    <3> QED
      BY <3>1, CounterTyped
  <2>2. mux.media_ticks % TIMESTAMPS \in Int
    BY <1>1, TimestampTyped
  <2> QED
    BY <1>1, <1>2, <2>1, <2>2, PacketHolds DEF Packed
<1>4. pes = [k \in 1 .. c |-> Packed(u, len, key, k)]
  BY DEF emit_pes, Packed
<1>5. pes \in Seq(Packet) /\ Len(pes) = c /\ \A k \in 1 .. c : pes[k] = Packed(u, len, key, k)
  BY <1>2, <1>3, <1>4
<1>6. \A cc \in 0 .. 15, pid \in {"pat", "pmt"} :
        emit_section(pid, cc) \in Packet /\ emit_section(pid, cc).pid = pid
  BY DEF emit_section, Packet, TS_PACKET_SIZE
<1>7. /\ tables \in Seq(Packet) /\ Len(tables) = t
      /\ t = 2 => tables[1].pid = "pat" /\ tables[2].pid = "pmt"
  <2> DEFINE pat == emit_section("pat", mux.cc_pat)
             pmt == emit_section("pmt", mux.cc_pmt)
  <2>1. pat \in Packet /\ pmt \in Packet /\ pat.pid = "pat" /\ pmt.pid = "pmt"
    BY <1>1, <1>6
  <2> HIDE DEF pat, pmt
  <2>2. <<pat, pmt>> \in Seq(Packet) /\ Len(<<pat, pmt>>) = 2 /\ <<pat, pmt>>[1] = pat
        /\ <<pat, pmt>>[2] = pmt
    BY <2>1
  <2>3. <<>> \in Seq(Packet) /\ Len(<<>>) = 0
    OBVIOUS
  <2>4. CASE TablesDue(key)
    BY <2>1, <2>2, <2>4 DEF pat, pmt
  <2>5. CASE ~TablesDue(key)
    BY <2>3, <2>5
  <2> QED
    BY <2>4, <2>5
<1>8. ps = tables \o pes
  BY DEF Muxed
<1>9. t \in {0, 2} /\ t = (IF TablesDue(key) THEN 2 ELSE 0)
  OBVIOUS
<1> DEFINE F == Given(len, key)
<1>10. F = file \o ps
  BY DEF Given
<1> HIDE DEF u, c, pes, tables, t, ps, F
<1>11. /\ ps \in Seq(Packet) /\ Len(ps) = t + c
       /\ \A x \in 1 .. t : ps[x] = tables[x]
       /\ \A x \in t + 1 .. t + c : ps[x] = pes[x - t]
  <2>1. t \in Nat /\ c \in Nat
    BY <1>2, <1>9
  <2>2. /\ ps \in Seq(Packet) /\ Len(ps) = t + c /\ \A x \in 1 .. t : ps[x] = tables[x]
        /\ \A x \in 1 .. c : ps[t + x] = pes[x]
    <3>1. tables \in Seq(Packet) /\ pes \in Seq(Packet) /\ Len(tables) = t /\ Len(pes) = c
      BY <1>5, <1>7
    <3>2. /\ tables \o pes \in Seq(Packet) /\ Len(tables \o pes) = Len(tables) + Len(pes)
          /\ \A x \in 1 .. Len(tables) : (tables \o pes)[x] = tables[x]
          /\ \A x \in 1 .. Len(pes) : (tables \o pes)[Len(tables) + x] = pes[x]
      <4>1. \A p, q \in Seq(Packet) :
              /\ p \o q \in Seq(Packet) /\ Len(p \o q) = Len(p) + Len(q)
              /\ \A x \in 1 .. Len(p) : (p \o q)[x] = p[x]
              /\ \A x \in 1 .. Len(q) : (p \o q)[Len(p) + x] = q[x]
        BY JoinHolds
      <4> QED
        BY <3>1, <4>1
    <3> QED
      BY <1>8, <3>1, <3>2, Zenon
  <2>3. ASSUME NEW x \in t + 1 .. t + c PROVE ps[x] = pes[x - t]
    <3>1. x - t \in 1 .. c /\ t + (x - t) = x
      BY <2>1
    <3> QED
      BY <2>2, <3>1
  <2> QED
    BY <2>2, <2>3
<1> DEFINE m == t + c
<1>12. m \in Nat /\ t \in Nat
  BY <1>2, <1>9
<1>13. /\ F \in Seq(Packet) /\ Len(F) = Len(file) + m
       /\ \A x \in 1 .. Len(file) : F[x] = file[x]
       /\ \A x \in 1 .. m : F[Len(file) + x] = ps[x]
  <2>1. ps \in Seq(Packet) /\ Len(ps) = m
    BY <1>11
  <2> HIDE DEF m
  <2>2. \A p, q \in Seq(Packet) :
          /\ p \o q \in Seq(Packet) /\ Len(p \o q) = Len(p) + Len(q)
          /\ \A x \in 1 .. Len(p) : (p \o q)[x] = p[x]
          /\ \A x \in 1 .. Len(q) : (p \o q)[Len(p) + x] = q[x]
    BY JoinHolds
  <2>3. /\ file \o ps \in Seq(Packet) /\ Len(file \o ps) = Len(file) + Len(ps)
        /\ \A x \in 1 .. Len(file) : (file \o ps)[x] = file[x]
        /\ \A x \in 1 .. Len(ps) : (file \o ps)[Len(file) + x] = ps[x]
    BY ONLY <1>1, <2>1, <2>2
  <2> QED
    BY ONLY <1>10, <2>1, <2>3, Zenon
<1>14. t = 2 => 1 \in 1 .. m /\ 2 \in 1 .. m
  BY <1>2
<1>16. t = 2 => F[Len(file) + 1].pid = "pat" /\ F[Len(file) + 2].pid = "pmt"
  <2> SUFFICES ASSUME t = 2 PROVE F[Len(file) + 1].pid = "pat" /\ F[Len(file) + 2].pid = "pmt"
    OBVIOUS
  <2>1. ps[1] = tables[1] /\ ps[2] = tables[2]
    BY <1>11
  <2>2. F[Len(file) + 1] = ps[1] /\ F[Len(file) + 2] = ps[2]
    BY <1>13, <1>14
  <2> QED
    BY <1>7, <2>1, <2>2
<1>18. ASSUME NEW x \in t + 1 .. m PROVE F[Len(file) + x] = Packed(u, len, key, x - t)
  <2>1. x \in 1 .. m /\ x \in t + 1 .. t + c /\ x - t \in 1 .. c
    BY <1>2, <1>9, <1>12
  <2> QED
    BY <1>5, <1>11, <1>13, <2>1
<1>21. Filed(F, len, key, t, m)
  BY <1>9, <1>12, <1>13, <1>16, <1>18 DEF Filed, u, c
<1> QED
  BY <1>21 DEF F

-----------------------------------------------------------------------------
(* A write keeps what is read back *)

\* The counter after the next packet.
LEMMA CounterNext == \A a \in Int : (a + 1) % 16 = ((a % 16) + 1) % 16
  OBVIOUS

\* What a packet of a unit says of itself.
LEMMA PacketMarks ==
  ASSUME NEW u, NEW len, NEW key, NEW pcr, NEW cc, NEW k
  PROVE  LET p == PesPacket(u, len, key, pcr, cc, k)
         IN  p.pid = "video" /\ p.unit = u /\ p.cc = cc /\ (p.pusi <=> k = 1)
  BY DEF PesPacket

\* The packets of the file after a write, old and new.
OldPackets(F, size) ==
  /\ size \in Nat /\ VideosOf(file) \subseteq 1 .. size /\ VideosOf(F) \subseteq Nat \ {0}
  /\ \A i \in 1 .. size : (i \in VideosOf(F) <=> i \in VideosOf(file)) /\ F[i] = file[i]

NewPackets(F, size, t, c, m) ==
  /\ t \in {0, 2} /\ m \in Nat /\ c \in Nat \ {0}
  /\ \A k \in 1 .. m - t : size + t + k \in VideosOf(F)
  /\ \A i \in VideosOf(F) : i > size =>
       LET k == i - (size + t)
       IN  /\ k \in 1 .. m - t /\ k <= c
           /\ (F[i].pusi <=> k = 1) /\ F[i].unit = Len(units) + 1
           /\ F[i].cc = (mux.cc_video + k - 1) % 16

\* A write leaves the old packets and adds a run of one unit's packets.
LEMMA WritePackets ==
  ASSUME TsTypeOK, NEW F, NEW len \in Nat \ {0}, NEW key \in BOOLEAN,
         NEW t, NEW m, Filed(F, len, key, t, m)
  PROVE  OldPackets(F, Len(file)) /\ NewPackets(F, Len(file), t, PesPackets(len), m)
<1> DEFINE size == Len(file)
           c == PesPackets(len)
<1>1. size \in Nat /\ file \in Seq(Packet)
  BY DEF TsTypeOK
<1>11. t \in {0, 2} /\ m \in Nat
  BY DEF Filed
<1>2. /\ F \in Seq(Packet) /\ Len(F) = size + m
      /\ \A x \in 1 .. size : F[x] = file[x]
      /\ m = t + c
      /\ t = 2 => F[size + 1].pid = "pat"
      /\ t = 2 => F[size + 2].pid = "pmt"
      /\ \A x \in t + 1 .. m : F[size + x] = Packed(Len(units) + 1, len, key, x - t)
  BY DEF Filed
<1>3. c \in Nat \ {0}
  BY Packets
<1> HIDE DEF size, c
<1>4. DOMAIN F = 1 .. size + m /\ DOMAIN file = 1 .. size
  BY <1>1, <1>2, <1>11 DEF size
<1>5. OldPackets(F, size)
  <2>1. VideosOf(file) \subseteq 1 .. size /\ VideosOf(F) \subseteq Nat \ {0}
    BY <1>1, <1>4, <1>11 DEF VideosOf
  <2>2. \A i \in 1 .. size : (i \in VideosOf(F) <=> i \in VideosOf(file)) /\ F[i] = file[i]
    BY <1>1, <1>2, <1>4, <1>11 DEF VideosOf
  <2> QED
    BY <1>1, <2>1, <2>2 DEF OldPackets
<1>6. ASSUME NEW k \in 1 .. m - t
      PROVE  /\ k \in 1 .. c /\ size + t + k \in DOMAIN F
             /\ F[size + t + k] = Packed(Len(units) + 1, len, key, k)
  <2>1. k \in 1 .. c /\ t + k \in t + 1 .. m /\ (t + k) - t = k
    BY <1>2, <1>3, <1>11
  <2>2. size + t + k \in DOMAIN F /\ size + t + k = size + (t + k)
    BY <1>1, <1>4, <1>11, <2>1
  <2> QED
    BY <1>2, <2>1, <2>2
<1>7. ASSUME NEW k \in 1 .. m - t
      PROVE  LET p == F[size + t + k]
             IN  /\ p.pid = "video" /\ (p.pusi <=> k = 1) /\ p.unit = Len(units) + 1
                 /\ p.cc = (mux.cc_video + k - 1) % 16
  BY <1>6, PacketMarks DEF Packed
<1>8. \A k \in 1 .. m - t : size + t + k \in VideosOf(F)
  BY <1>6, <1>7 DEF VideosOf
<1>9. ASSUME NEW i \in VideosOf(F), i > size
      PROVE  i - (size + t) \in 1 .. m - t /\ i = size + t + (i - (size + t))
  <2>1. i \in 1 .. size + m /\ F[i].pid = "video"
    BY <1>4 DEF VideosOf
  <2>3. ~(t = 2 /\ i = size + 1) /\ ~(t = 2 /\ i = size + 2)
    BY <1>2, <2>1
  <2> QED
    BY <1>1, <1>9, <1>11, <2>1, <2>3
<1>10. NewPackets(F, size, t, c, m)
  <2>1. ASSUME NEW i \in VideosOf(F), i > size
        PROVE  LET k == i - (size + t)
               IN  /\ k \in 1 .. m - t /\ k <= c
                   /\ (F[i].pusi <=> k = 1) /\ F[i].unit = Len(units) + 1
                   /\ F[i].cc = (mux.cc_video + k - 1) % 16
    <3> DEFINE k == i - (size + t)
    <3>1. k \in 1 .. m - t /\ i = size + t + k
      BY <1>9, <2>1
    <3> HIDE DEF k
    <3>2. k <= c
      BY <1>6, <3>1
    <3> QED
      BY <1>7, <3>1, <3>2 DEF k
  <2> QED
    BY <1>3, <1>8, <1>11, <2>1 DEF NewPackets
<1> QED
  BY <1>5, <1>10 DEF size, c

\* The units after a write that succeeds: one more, and the others as they were.
UnitsGrow(U) ==
  /\ DOMAIN units = 1 .. Len(units) /\ DOMAIN U = 1 .. Len(units) + 1
  /\ Len(units) \in Nat /\ Len(U) = Len(units) + 1
  /\ \A i \in 1 .. Len(units) : U[i] = units[i]
  /\ U[Len(units) + 1].ok

\* A write adds a unit.
LEMMA WriteGrows ==
  ASSUME TsTypeOK, NEW U, NEW len, NEW key, NEW step, Grown(U, len, key, step)
  PROVE  UnitsGrow(U)
<1>1. units \in Seq(Unit) /\ Len(units) \in Nat /\ DOMAIN units = 1 .. Len(units)
  BY DEF TsTypeOK
<1>2. U \in Seq(Unit) /\ Len(U) = Len(units) + 1 /\ DOMAIN U = 1 .. Len(U)
  BY DEF Grown
<1> QED
  BY <1>1, <1>2 DEF UnitsGrow, Grown

\* A write keeps the order of the packets and where units start.
LEMMA OrderWrite ==
  ASSUME NEW F, NEW U, InOrder(file, units), Follows(file), UnitsGrow(U),
         NEW size, NEW t, NEW m, NEW c,
         OldPackets(F, size), NewPackets(F, size, t, c, m)
  PROVE  InOrder(F, U) /\ Follows(F)
<1> DEFINE n == Len(units)
<1>1. n \in Nat /\ Len(U) = n + 1
  BY DEF UnitsGrow
<1>2. /\ size \in Nat /\ VideosOf(file) \subseteq 1 .. size /\ VideosOf(F) \subseteq Nat \ {0}
      /\ \A i \in VideosOf(F) : i <= size => i \in VideosOf(file) /\ F[i] = file[i]
      /\ \A i \in VideosOf(file) : i \in VideosOf(F)
  BY DEF OldPackets
<1>3. /\ t \in {0, 2} /\ m \in Nat
      /\ \A i \in VideosOf(F) : i > size =>
           /\ i - (size + t) \in 1 .. m - t /\ (F[i].pusi <=> i - (size + t) = 1)
           /\ F[i].unit = n + 1
      /\ \A k \in 1 .. m - t : size + t + k \in VideosOf(F)
  BY DEF NewPackets
<1> HIDE DEF n
<1>4. InOrder(F, U)
  <2>1. \A i \in VideosOf(file) : file[i].unit \in 1 .. n
    BY DEF InOrder, n
  <2>2. ASSUME NEW i \in VideosOf(F) PROVE F[i].unit \in 1 .. n + 1
    BY <1>1, <1>2, <1>3, <2>1, <2>2
  <2>3. ASSUME NEW i \in VideosOf(F), NEW j \in VideosOf(F), i < j PROVE F[i].unit <= F[j].unit
    <3>1. CASE j <= size
      <4>1. i \in VideosOf(file) /\ j \in VideosOf(file) /\ F[i] = file[i] /\ F[j] = file[j]
        BY <1>2, <2>3, <3>1
      <4> QED
        BY <2>3, <4>1 DEF InOrder
    <3>2. CASE j > size
      <4>1. F[j].unit = n + 1
        BY <1>3, <3>2
      <4> QED
        BY <1>1, <2>2, <4>1
    <3> QED
      BY <1>2, <3>1, <3>2
  <2> QED
    BY <1>1, <2>2, <2>3 DEF InOrder
<1>5. ASSUME NEW j \in VideosOf(F), ~F[j].pusi PROVE j > 1 /\ j - 1 \in VideosOf(F)
  <2>1. CASE j <= size
    BY <1>2, <1>5, <2>1 DEF Follows
  <2>2. CASE j > size
    <3> DEFINE k == j - (size + t)
    <3>1. k \in 1 .. m - t /\ k # 1 /\ j = size + t + k
      BY <1>2, <1>3, <1>5, <2>2
    <3>2. k - 1 \in 1 .. m - t /\ size + t + (k - 1) = j - 1 /\ j > 1
      BY <1>2, <1>3, <3>1
    <3> HIDE DEF k
    <3> QED
      BY <1>3, <3>2
  <2> QED
    BY <1>2, <2>1, <2>2
<1> QED
  BY <1>4, <1>5 DEF Follows

\* A write keeps the counters of the packets.
LEMMA CountWrite ==
  ASSUME NEW F, NEW U, NEW w, InOrder(file, units), Counted(file, units),
         CounterGoesOn(file, units, mux.cc_video), UnitsGrow(U),
         NEW size, NEW t, NEW m, NEW c,
         OldPackets(F, size), NewPackets(F, size, t, c, m), m = t + c,
         mux.cc_video \in 0 .. 15, w = (mux.cc_video + c) % 16, InOrder(F, U)
  PROVE  Counted(F, U) /\ CounterGoesOn(F, U, w)
<1> DEFINE n == Len(units)
           v == mux.cc_video
<1>1. n \in Nat /\ Len(U) = n + 1 /\ n + 1 \in DOMAIN U
  BY DEF UnitsGrow
<1>2. /\ size \in Nat /\ VideosOf(file) \subseteq 1 .. size /\ VideosOf(F) \subseteq Nat \ {0}
      /\ \A i \in VideosOf(F) : i <= size => i \in VideosOf(file) /\ F[i] = file[i]
      /\ \A i \in VideosOf(file) : i \in VideosOf(F)
  BY DEF OldPackets
<1>3. /\ t \in {0, 2} /\ m \in Nat /\ c \in Nat \ {0} /\ v \in 0 .. 15
      /\ \A i \in VideosOf(F) : i > size =>
           /\ i - (size + t) \in 1 .. m - t /\ i - (size + t) <= c
           /\ F[i].unit = n + 1 /\ F[i].cc = (v + (i - (size + t)) - 1) % 16
      /\ \A k \in 1 .. m - t : size + t + k \in VideosOf(F)
  BY DEF NewPackets
<1>4. \A a, b : LostIn(units, a, b) => LostIn(U, a, b)
  BY DEF LostIn, UnitsGrow
<1>5. \A i \in VideosOf(F) : F[i].unit \in 1 .. n + 1
  BY <1>1 DEF InOrder
<1> HIDE DEF n, v
<1>6. Counted(F, U)
  <2> SUFFICES ASSUME NEW i \in VideosOf(F), NEW j \in VideosOf(F), i < j,
                      ~(\E k \in VideosOf(F) : i < k /\ k < j)
               PROVE  \/ F[j].cc = (F[i].cc + 1) % 16
                      \/ LostIn(U, F[i].unit, F[j].unit)
    BY DEF Counted
  <2>0. i \in Nat /\ j \in Nat
    BY <1>2
  <2>1. CASE j <= size
    <3>0. i <= size
      BY <1>2, <2>0, <2>1
    <3>1. i \in VideosOf(file) /\ j \in VideosOf(file) /\ F[i] = file[i] /\ F[j] = file[j]
      BY <1>2, <2>1, <3>0
    <3>2. ~(\E k \in VideosOf(file) : i < k /\ k < j)
      BY <1>2
    <3>3. file[j].cc = (file[i].cc + 1) % 16 \/ LostIn(units, file[i].unit, file[j].unit)
      BY <3>1, <3>2 DEF Counted
    <3> QED
      BY <1>4, <3>1, <3>3
  <2>2. CASE i <= size /\ j > size
    <3>1. i \in VideosOf(file) /\ F[i] = file[i] /\ \A k \in VideosOf(file) : k <= i
      <4>1. ASSUME NEW k \in VideosOf(file) PROVE k <= i
        <5>1. k \in Nat /\ k <= size /\ k \in VideosOf(F)
          BY <1>2, <4>1
        <5>2. k < j
          BY <1>2, <2>0, <2>2, <5>1
        <5>3. ~(i < k)
          BY <5>1, <5>2
        <5> QED
          BY <2>0, <5>1, <5>3
      <4> QED
        BY <1>2, <2>2, <4>1
    <3>2. j - (size + t) = 1
      <4>1. CASE j - (size + t) # 1
        <5> DEFINE k == j - (size + t) - 1
        <5>0. /\ j - (size + t) \in 1 .. m - t /\ size \in Nat /\ t \in {0, 2} /\ m \in Nat
              /\ i <= size /\ j > size
          BY <1>2, <1>3, <2>2
        <5>1. k \in 1 .. m - t /\ size + t + k = j - 1 /\ j - 1 > i /\ j - 1 < j
          BY ONLY <2>0, <4>1, <5>0
        <5> HIDE DEF k
        <5>2. j - 1 \in VideosOf(F)
          BY <1>3, <5>1
        <5> QED
          BY <5>1, <5>2
      <4> QED
        BY <4>1
    <3>3. F[j].cc = v /\ F[j].unit = n + 1
      <4>1. F[j].unit = n + 1 /\ F[j].cc = (v + (j - (size + t)) - 1) % 16
        BY <1>3, <2>2
      <4>2. v + (j - (size + t)) - 1 = v
        BY <1>3, <3>2
      <4>3. v % 16 = v
        BY <1>3
      <4> QED
        BY <4>1, <4>2, <4>3
    <3>4. v = (file[i].cc + 1) % 16 \/ LostIn(units, file[i].unit, n)
      BY <3>1 DEF CounterGoesOn, v, n
    <3>5. LostIn(units, file[i].unit, n) => LostIn(U, F[i].unit, F[j].unit)
      BY <1>1, <3>1, <3>3 DEF LostIn, UnitsGrow, n
    <3> QED
      BY <3>1, <3>3, <3>4, <3>5
  <2>3. CASE i > size
    <3> DEFINE k == i - (size + t)
    <3>1. k \in 1 .. m - t /\ j > size
      BY <1>2, <1>3, <2>3
    <3>2. j = i + 1
      <4>1. CASE j # i + 1
        <5>1. k + 1 \in 1 .. m - t /\ size + t + (k + 1) = i + 1 /\ i < i + 1 /\ i + 1 < j
          BY <1>2, <1>3, <2>3, <3>1, <4>1
        <5>2. i + 1 \in VideosOf(F)
          BY <1>3, <5>1
        <5> QED
          BY <5>1, <5>2
      <4> QED
        BY <4>1
    <3>3. /\ F[i].cc = (v + k - 1) % 16 /\ F[j].cc = (v + (j - (size + t)) - 1) % 16
          /\ v + (j - (size + t)) - 1 = (v + k - 1) + 1 /\ v + k - 1 \in Int
      BY <1>2, <1>3, <2>3, <3>1, <3>2
    <3> QED
      BY <3>3, CounterNext
  <2> QED
    BY <1>2, <2>1, <2>2, <2>3
<1>7. CounterGoesOn(F, U, w)
  <2> SUFFICES ASSUME NEW i \in VideosOf(F), \A k \in VideosOf(F) : k <= i
               PROVE  w = (F[i].cc + 1) % 16
    BY DEF CounterGoesOn
  <2>1. c \in 1 .. m - t /\ m - t = c
    BY <1>3
  <2>2. size + t + c \in VideosOf(F)
    BY <1>3, <2>1
  <2>3. i >= size + t + c /\ i > size
    BY <1>2, <1>3, <2>2
  <2>4. i - (size + t) = c
    BY <1>2, <1>3, <2>1, <2>3
  <2>5. F[i].cc = (v + c - 1) % 16 /\ (v + c - 1) + 1 = v + c /\ v + c - 1 \in Int
    BY <1>3, <2>3, <2>4
  <2> QED
    BY <2>5, CounterNext DEF v
<1> QED
  BY <1>6, <1>7

\* A write keeps the units that are whole, and adds its own.
LEMMA StoredWrite ==
  ASSUME TsTypeOK, NEW F, NEW U, AllStored(file, units), NEW len \in Nat \ {0}, NEW key, NEW step,
         Grown(U, len, key, step), NEW t, NEW m, Filed(F, len, key, t, m),
         UnitsGrow(U), OldPackets(F, Len(file)), NewPackets(F, Len(file), t, PesPackets(len), m)
  PROVE  AllStored(F, U)
<1> DEFINE n == Len(units)
           size == Len(file)
<1>1. /\ n \in Nat /\ DOMAIN units = 1 .. n /\ DOMAIN U = 1 .. n + 1
      /\ \A u \in 1 .. n : U[u] = units[u]
  BY DEF UnitsGrow
<1>2. /\ size \in Nat /\ VideosOf(F) \subseteq Nat \ {0}
      /\ \A i \in 1 .. size : (i \in VideosOf(F) <=> i \in VideosOf(file)) /\ F[i] = file[i]
  BY DEF OldPackets
<1>3. /\ t \in {0, 2} /\ m \in Nat /\ PesPackets(len) \in Nat \ {0}
      /\ \A i \in VideosOf(F) : i > size =>
           i - (size + t) \in 1 .. m - t /\ (F[i].pusi <=> i - (size + t) = 1)
  BY DEF NewPackets
<1>4. /\ F \in Seq(Packet) /\ Len(F) = size + m
      /\ m = t + PesPackets(len)
      /\ \A x \in t + 1 .. m : F[size + x] = Packed(n + 1, len, key, x - t)
  BY DEF Filed
<1>5. DOMAIN file = 1 .. size /\ DOMAIN F = 1 .. size + m /\ \A u \in 1 .. n : units[u] \in Unit
  BY <1>1, <1>2, <1>3, <1>4 DEF TsTypeOK
<1>6. /\ U[n + 1].len = len /\ U[n + 1].key = key /\ U[n + 1].at = mux.media_ticks
      /\ mux.cc_video \in 0 .. 15
  BY DEF Grown, TsTypeOK, Mux
<1> HIDE DEF n, size
<1>7. ASSUME NEW u \in 1 .. n, U[u].ok
      PROVE  \E i \in DOMAIN F, cc \in 0 .. 15 : Stored(F, U, u, i, cc)
  <2>1. U[u] = units[u] /\ units[u].ok /\ units[u].len \in Nat \ {0}
    BY <1>1, <1>5, <1>7 DEF Unit
  <2>2. PICK i \in 1 .. size, cc \in 0 .. 15 : Stored(file, units, u, i, cc)
    BY <1>1, <1>5, <2>1 DEF AllStored
  <2> DEFINE c == PesPackets(units[u].len)
             Whole(k) == PesPacket(u, units[u].len, units[u].key, units[u].at % TIMESTAMPS,
                                   (cc + k - 1) % 16, k)
  <2>3. /\ i + c - 1 <= size /\ \A k \in 1 .. c : file[i + k - 1] = Whole(k)
        /\ i + c \in VideosOf(file) => file[i + c].pusi
    BY <2>2 DEF Stored, size
  <2>4. c \in Nat \ {0}
    BY <2>1, Packets
  <2> HIDE DEF c, Whole
  <2>5. i \in Nat /\ i >= 1 /\ i + c - 1 <= Len(F)
    BY <1>2, <1>3, <1>4, <2>3, <2>4
  <2>6. ASSUME NEW k \in 1 .. c PROVE F[i + k - 1] = Whole(k)
    <3>1. i + k - 1 \in 1 .. size
      BY <1>2, <2>3, <2>4, <2>5
    <3> QED
      BY <1>2, <2>3, <3>1
  <2>7. ASSUME i + c \in VideosOf(F) PROVE F[i + c].pusi
    <3>1. CASE i + c <= size
      <4>1. i + c \in 1 .. size
        BY <1>2, <2>4, <2>5, <3>1
      <4> QED
        BY <1>2, <2>3, <2>7, <4>1
    <3>2. CASE i + c > size
      <4>1. i + c = size + 1
        BY <1>2, <2>3, <2>4, <2>5, <3>2
      <4>2. (i + c) - (size + t) = 1
        <5>1. (i + c) - (size + t) \in 1 .. m - t
          BY <1>3, <2>7, <3>2
        <5> QED
          BY <1>2, <1>3, <4>1, <5>1
      <4> QED
        BY <1>3, <2>7, <3>2, <4>2
    <3> QED
      BY <1>2, <2>4, <2>5, <3>1, <3>2
  <2>8. Stored(F, U, u, i, cc)
    BY <2>1, <2>5, <2>6, <2>7 DEF Stored, c, Whole
  <2>9. i \in DOMAIN F
    BY <1>2, <1>3, <1>4, <1>5, <2>5
  <2> QED
    BY <2>8, <2>9
<1>8. ASSUME NEW u, u = n + 1
      PROVE  \E i \in DOMAIN F, cc \in 0 .. 15 : Stored(F, U, u, i, cc)
  <2>0. PICK i, cc, c : i = size + t + 1 /\ cc = mux.cc_video /\ c = PesPackets(len)
    OBVIOUS
  <2> DEFINE Whole(k) == PesPacket(u, len, key, mux.media_ticks % TIMESTAMPS, (cc + k - 1) % 16, k)
  <2>1. m = t + c /\ c \in Nat \ {0}
    BY <1>3, <1>4, <1>8, <2>0
  <2>2. i \in Nat /\ i \in DOMAIN F /\ i + c - 1 <= Len(F) /\ i + c \notin DOMAIN F
    BY <1>2, <1>3, <1>4, <1>5, <2>0, <2>1
  <2>3. ASSUME NEW k \in 1 .. c PROVE F[i + k - 1] = Whole(k)
    <3>0. t \in Nat /\ size \in Nat /\ i = size + t + 1 /\ m = t + c
      BY <1>2, <1>3, <2>0, <2>1
    <3>1. t + k \in t + 1 .. m /\ size + (t + k) = i + k - 1 /\ (t + k) - t = k
      BY <2>1, <3>0
    <3>2. F[size + (t + k)] = Packed(u, len, key, k)
      BY <1>4, <1>8, <3>1
    <3> QED
      BY <2>0, <3>1, <3>2 DEF Packed
  <2>4. i + c \notin VideosOf(F)
    BY <2>2 DEF VideosOf
  <2>5. /\ U[u].len = len /\ U[u].key = key /\ U[u].at = mux.media_ticks
        /\ PesPackets(U[u].len) = c
    BY <1>6, <1>8, <2>0
  <2>6. Stored(F, U, u, i, cc)
    BY <2>2, <2>3, <2>4, <2>5 DEF Stored
  <2>7. cc \in 0 .. 15
    BY <1>6, <2>0
  <2> QED
    BY <2>2, <2>6, <2>7
<1>9. ASSUME NEW u \in 1 .. n + 1, U[u].ok
      PROVE  \E i \in DOMAIN F, cc \in 0 .. 15 : Stored(F, U, u, i, cc)
  <2>1. u \in 1 .. n \/ u = n + 1
    BY <1>1
  <2>2. CASE u \in 1 .. n
    BY <1>7, <1>9, <2>2
  <2>3. CASE u = n + 1
    BY <1>1, <1>8, <1>9, <2>3
  <2> QED
    BY <2>1, <2>2, <2>3
<1> QED
  BY <1>1, <1>9 DEF AllStored

-----------------------------------------------------------------------------
(* A write keeps the tables close *)

\* The tables go out with a unit that needs them, and their time is remembered.
LEMMA TablesWrite ==
  ASSUME TsTypeOK, NEW F, NEW U, LatestTables(file, units, mux), Leads(file, units),
         NEW len \in Nat \ {0}, NEW key \in BOOLEAN, NEW step,
         Wrote(len, key, step), Grown(U, len, key, step), NEW t, NEW m, Filed(F, len, key, t, m),
         UnitsGrow(U), OldPackets(F, Len(file)), NewPackets(F, Len(file), t, PesPackets(len), m)
  PROVE  LatestTables(F, U, mux') /\ Leads(F, U)
<1> DEFINE n == Len(units)
           size == Len(file)
<1>1. /\ n \in Nat /\ DOMAIN units = 1 .. n /\ DOMAIN U = 1 .. n + 1
      /\ \A u \in 1 .. n : U[u] = units[u]
      /\ (units = <<>> <=> n = 0) /\ U # <<>>
  BY DEF UnitsGrow, TsTypeOK
<1>2. /\ size \in Nat /\ VideosOf(file) \subseteq 1 .. size
      /\ \A i \in 1 .. size : (i \in VideosOf(F) <=> i \in VideosOf(file)) /\ F[i] = file[i]
  BY DEF OldPackets
<1>3. /\ t \in {0, 2} /\ m \in Nat /\ PesPackets(len) \in Nat \ {0}
      /\ \A k \in 1 .. m - t : size + t + k \in VideosOf(F)
      /\ \A i \in VideosOf(F) : i > size =>
           (F[i].pusi <=> i - (size + t) = 1) /\ F[i].unit = n + 1
  BY DEF NewPackets
<1>4. /\ t = (IF TablesDue(key) THEN 2 ELSE 0) /\ m = t + PesPackets(len)
      /\ t = 2 => F[size + 1].pid = "pat"
      /\ t = 2 => F[size + 2].pid = "pmt"
  BY DEF Filed
<1>5. /\ U[n + 1].at = mux.media_ticks /\ U[n + 1].tables = TablesDue(key)
      /\ mux'.last_psi_ticks = (IF TablesDue(key) THEN mux.media_ticks ELSE mux.last_psi_ticks)
      /\ mux.media_ticks \in Int /\ mux.last_psi_ticks \in Int
  BY DEF Wrote, Grown, TsTypeOK, Mux
<1> HIDE DEF n, size
<1>6. ASSUME NEW u \in 1 .. n, TablesIn(file, units, u) PROVE TablesIn(F, U, u)
  <2>1. CASE ~units[u].ok
    BY <1>1, <2>1 DEF TablesIn
  <2>2. CASE units[u].ok
    <3>1. PICK i \in VideosOf(file) : /\ file[i].unit = u /\ file[i].pusi /\ i > 2
                              /\ file[i - 2].pid = "pat" /\ file[i - 1].pid = "pmt"
      BY <1>6, <2>2 DEF TablesIn
    <3>2. i \in 1 .. size /\ i - 1 \in 1 .. size /\ i - 2 \in 1 .. size
      BY <1>2, <3>1
    <3>3. /\ i \in VideosOf(F) /\ F[i] = file[i] /\ F[i - 1] = file[i - 1]
          /\ F[i - 2] = file[i - 2]
      BY <1>2, <3>1, <3>2
    <3> QED
      BY <3>1, <3>3 DEF TablesIn
  <2> QED
    BY <2>1, <2>2
<1>7. ASSUME NEW u, u = n + 1, TablesDue(key) PROVE TablesIn(F, U, u)
  <2>0. PICK s : s = size
    OBVIOUS
  <2>1. t = 2 /\ m = 2 + PesPackets(len) /\ 1 \in 1 .. m - t
    BY <1>3, <1>4, <1>7
  <2>2. s + t + 1 \in VideosOf(F) /\ s + t + 1 = s + 3 /\ s + 3 > s /\ s + 3 > 2
    BY <1>2, <1>3, <2>0, <2>1
  <2>3. (s + 3) - (s + t) = 1 /\ (s + 3) - 2 = s + 1 /\ (s + 3) - 1 = s + 2
    BY <1>2, <2>0, <2>1
  <2>4. F[s + 1].pid = "pat" /\ F[s + 2].pid = "pmt"
    BY <1>3, <1>4, <2>0, <2>1
  <2>5. F[s + 3].unit = u /\ F[s + 3].pusi
    BY <1>2, <1>3, <1>7, <2>0, <2>2, <2>3
  <2> QED
    BY <2>2, <2>3, <2>4, <2>5 DEF TablesIn
<1>8. PICK r \in 1 .. n + 1 :
        /\ U[r].tables /\ U[r].at = mux'.last_psi_ticks /\ TablesIn(F, U, r)
        /\ mux.media_ticks - U[r].at < PSI_INTERVAL_90K
  <2>1. CASE TablesDue(key)
    <3>1. PICK u \in 1 .. n + 1 : u = n + 1
      BY <1>1
    <3>2. U[u].tables /\ U[u].at = mux'.last_psi_ticks /\ U[u].at = mux.media_ticks
      BY <1>5, <2>1, <3>1
    <3>3. mux.media_ticks - U[u].at < PSI_INTERVAL_90K
      BY <1>5, <3>2 DEF PSI_INTERVAL_90K
    <3>4. TablesIn(F, U, u)
      BY <1>7, <2>1, <3>1
    <3> QED
      BY <3>2, <3>3, <3>4
  <2>2. CASE ~TablesDue(key)
    <3>1. ~mux.psi_pending /\ ~(mux.media_ticks - mux.last_psi_ticks >= PSI_INTERVAL_90K)
      BY <2>2 DEF TablesDue
    <3>2. PICK r \in 1 .. n : units[r].tables /\ units[r].at = mux.last_psi_ticks /\ TablesIn(file, units, r)
      BY <1>1, <3>1 DEF LatestTables
    <3>3. mux.media_ticks - mux.last_psi_ticks < PSI_INTERVAL_90K
      BY <1>5, <3>1 DEF PSI_INTERVAL_90K
    <3>4. r \in 1 .. n + 1 /\ U[r] = units[r] /\ TablesIn(F, U, r)
      BY <1>1, <1>6, <3>2
    <3> QED
      BY <1>5, <2>2, <3>2, <3>3, <3>4
  <2> QED
    BY <2>1, <2>2
<1>9. LatestTables(F, U, mux')
  BY <1>1, <1>8 DEF LatestTables
<1>10. ASSUME NEW u \in 1 .. n + 1, U[u].ok
       PROVE  \E q \in 1 .. u : /\ U[q].tables /\ U[u].at - U[q].at < PSI_INTERVAL_90K
                                /\ TablesIn(F, U, q)
  <2>1. CASE u \in 1 .. n
    <3>1. PICK q \in 1 .. u :
            units[q].tables /\ units[u].at - units[q].at < PSI_INTERVAL_90K /\ TablesIn(file, units, q)
      BY <1>1, <1>10, <2>1 DEF Leads
    <3>2. q \in 1 .. n /\ U[q] = units[q] /\ U[u] = units[u] /\ TablesIn(F, U, q)
      BY <1>1, <1>6, <2>1, <3>1
    <3> QED
      BY <3>1, <3>2
  <2>2. CASE u = n + 1
    BY <1>5, <1>8, <2>2
  <2> QED
    BY <1>1, <2>1, <2>2
<1> QED
  BY <1>1, <1>9, <1>10 DEF Leads

-----------------------------------------------------------------------------
(* A call that fails keeps what was synced *)

\* G is the first k packets of F, and perhaps a torn one.
Part(F, G, k) ==
  /\ G \in Seq(Packet) /\ k <= Len(G)
  /\ \A x \in 1 .. k : G[x] = F[x] /\ (x \in VideosOf(G) <=> x \in VideosOf(F))
  /\ VideosOf(G) \subseteq 1 .. k

\* What a failing call leaves is such a part.
LEMMA PartLeft ==
  ASSUME NEW F \in Seq(Packet), NEW k \in 0 .. Len(F), NEW G,
         G = SubSeq(F, 1, k) \/ G = Append(SubSeq(F, 1, k), Torn)
  PROVE  Part(F, G, k)
<1>1. Torn \in Packet /\ Torn.pid = "torn"
  BY DEF Torn, Packet
<1>2. PICK H : H = SubSeq(F, 1, k)
  OBVIOUS
<1>3. H \in Seq(Packet) /\ Len(H) = k /\ \A x \in 1 .. k : H[x] = F[x]
  BY <1>2
<1>4. k \in Nat
  OBVIOUS
<1>5. /\ G \in Seq(Packet) /\ Len(G) \in {k, k + 1} /\ \A x \in 1 .. k : G[x] = F[x]
      /\ Len(G) = k + 1 => G[k + 1] = Torn
  <2>1. CASE G = H
    BY <1>3, <1>4, <2>1
  <2>2. CASE G = Append(H, Torn)
    BY <1>1, <1>3, <1>4, <2>2
  <2> QED
    BY <1>2, <2>1, <2>2
<1>6. DOMAIN G = 1 .. Len(G) /\ DOMAIN F = 1 .. Len(F) /\ Len(F) \in Nat /\ k <= Len(F)
  BY <1>5
<1>7. \A x \in 1 .. k : x \in DOMAIN G /\ x \in DOMAIN F
  <2> DEFINE L == Len(F)
             M == Len(G)
  <2>1. L \in Nat /\ k <= L /\ M \in {k, k + 1}
    BY ONLY <1>5, <1>6
  <2> HIDE DEF L, M
  <2>2. \A x \in 1 .. k : x \in 1 .. M /\ x \in 1 .. L
    BY <1>4, <2>1
  <2> QED
    BY <1>6, <2>2 DEF L, M
<1>8. \A x \in 1 .. k : x \in VideosOf(G) <=> x \in VideosOf(F)
  BY <1>5, <1>7 DEF VideosOf
<1>9. VideosOf(G) \subseteq 1 .. k
  <2> SUFFICES ASSUME NEW x \in VideosOf(G) PROVE x \in 1 .. k
    OBVIOUS
  <2>1. x \in 1 .. Len(G) /\ G[x].pid = "video"
    BY <1>6 DEF VideosOf
  <2>2. ~(Len(G) = k + 1 /\ x = k + 1)
    BY <1>1, <1>5, <2>1
  <2> QED
    BY <1>4, <1>5, <2>1, <2>2
<1>10. k <= Len(G)
  BY <1>4, <1>5
<1> QED
  BY <1>5, <1>8, <1>9, <1>10 DEF Part

\* V is U with the units after the first b lost.
Spoiled(U, V, b) ==
  /\ V \in Seq(Unit) /\ Len(V) = Len(U)
  /\ \A i \in 1 .. Len(U) :
       /\ V[i].at = U[i].at /\ V[i].pts = U[i].pts /\ V[i].tables = U[i].tables
       /\ i <= b => V[i] = U[i]
       /\ ~(i <= b) => ~V[i].ok

\* Lost() loses them.
LEMMA LostSpoils ==
  ASSUME NEW U \in Seq(Unit)
  PROVE  Spoiled(U, Lost(U), synced.units)
<1> DEFINE b == synced.units
           n == Len(U)
           V == Lost(U)
           W(i) == IF i <= b THEN U[i] ELSE [U[i] EXCEPT !.ok = FALSE]
<1>1. n \in Nat /\ DOMAIN U = 1 .. n /\ \A i \in 1 .. n : U[i] \in Unit
  OBVIOUS
<1>2. V = [i \in 1 .. n |-> W(i)]
  BY <1>1 DEF Lost
<1>3. \A r \in Unit :
        LET q == [r EXCEPT !.ok = FALSE]
        IN  q \in Unit /\ q.at = r.at /\ q.pts = r.pts /\ q.tables = r.tables /\ ~q.ok
  BY DEF Unit
<1>4. \A i \in 1 .. n : W(i) \in Unit
  BY <1>1, <1>3
<1> HIDE DEF V
<1>5. \A i \in 1 .. n : V[i] = W(i)
  BY <1>2
<1>6. V \in Seq(Unit) /\ Len(V) = n
  <2> HIDE DEF W, n
  <2> QED
    BY <1>1, <1>2, <1>4
<1>7. ASSUME NEW i \in 1 .. n
      PROVE  /\ V[i].at = U[i].at /\ V[i].pts = U[i].pts /\ V[i].tables = U[i].tables
             /\ i <= b => V[i] = U[i]
             /\ ~(i <= b) => ~V[i].ok
  BY <1>1, <1>3, <1>5
<1> QED
  BY <1>6, <1>7 DEF Spoiled, V

\* What is kept of packets and units is kept of a part that holds all that was
\* synced, with the other units lost.
LEMMA PartKept ==
  ASSUME NEW F, NEW U, NEW m, Kept(F, U, m), NEW p \in Nat, NEW b \in Nat, Sync(F, U, p, b),
         NEW k \in p .. Len(F), NEW G, NEW V, Part(F, G, k), Spoiled(U, V, b)
  PROVE  Kept(G, V, m)
<1> DEFINE n == Len(U)
<1>1. /\ n \in Nat /\ DOMAIN U = 1 .. n /\ DOMAIN V = 1 .. n /\ Len(V) = n
      /\ V \in Seq(Unit) /\ U \in Seq(Unit) /\ (U = <<>> <=> n = 0) /\ (V = <<>> <=> n = 0)
  BY DEF Kept, Spoiled
<1>2. \A i \in 1 .. n :
        /\ V[i].at = U[i].at /\ V[i].pts = U[i].pts /\ V[i].tables = U[i].tables
        /\ V[i].ok => i <= b /\ V[i] = U[i] /\ U[i].ok
        /\ ~U[i].ok => ~V[i].ok
        /\ ~(i <= b) => ~V[i].ok
  BY DEF Spoiled
<1>3. /\ k \in Nat /\ Len(F) \in Nat /\ k <= Len(F) /\ p <= k /\ DOMAIN F = 1 .. Len(F)
      /\ F \in Seq(Packet)
  BY DEF Kept
<1>4. /\ G \in Seq(Packet) /\ Len(G) \in Nat /\ DOMAIN G = 1 .. Len(G) /\ k <= Len(G)
      /\ \A x \in 1 .. k : G[x] = F[x]
      /\ \A x \in VideosOf(G) : x \in 1 .. k /\ x \in VideosOf(F) /\ G[x] = F[x]
      /\ \A x \in VideosOf(F) : x <= k => x \in VideosOf(G)
      /\ VideosOf(F) \subseteq Nat \ {0}
  <2>1. VideosOf(F) \subseteq Nat \ {0}
    BY <1>3 DEF VideosOf
  <2>2. G \in Seq(Packet) /\ Len(G) \in Nat /\ DOMAIN G = 1 .. Len(G) /\ k <= Len(G)
    BY DEF Part
  <2>3. \A x \in VideosOf(F) : x <= k => x \in 1 .. k
    BY <1>3, <2>1
  <2> QED
    BY <2>1, <2>2, <2>3 DEF Part
<1>5. /\ b = n => p = Len(F) /\ b <= n
      /\ \A i \in VideosOf(F) : F[i].unit <= b => i <= p
  BY DEF Sync
<1>6. /\ InOrder(F, U) /\ Follows(F) /\ AllStored(F, U) /\ Counted(F, U)
      /\ CounterGoesOn(F, U, m.cc_video) /\ LatestTables(F, U, m) /\ Leads(F, U)
  BY DEF Kept, FileInv
<1> HIDE DEF n
<1>7. ASSUME NEW u \in 1 .. n, TablesIn(F, U, u) PROVE TablesIn(G, V, u)
  <2> SUFFICES ASSUME V[u].ok PROVE TablesIn(G, V, u)
    BY DEF TablesIn
  <2>1. u <= b /\ U[u].ok
    BY <1>2
  <2>2. PICK i \in VideosOf(F) : /\ F[i].unit = u /\ F[i].pusi /\ i > 2
                                 /\ F[i - 2].pid = "pat" /\ F[i - 1].pid = "pmt"
    BY <1>7, <2>1 DEF TablesIn
  <2>3. i \in Nat /\ i <= p
    BY <1>4, <1>5, <2>1, <2>2
  <2>4. i \in 1 .. k /\ i - 1 \in 1 .. k /\ i - 2 \in 1 .. k
    BY <1>3, <2>2, <2>3
  <2> QED
    BY <1>4, <2>2, <2>4 DEF TablesIn
<1>8. LatestTables(G, V, m)
  <2>1. CASE n = 0
    BY <1>1, <1>6, <2>1 DEF LatestTables
  <2>2. CASE n # 0
    <3>1. PICK t \in 1 .. n :
            U[t].tables /\ U[t].at = m.last_psi_ticks /\ TablesIn(F, U, t)
      BY <1>1, <1>6, <2>2 DEF LatestTables
    <3> QED
      BY <1>1, <1>2, <1>7, <2>2, <3>1 DEF LatestTables
  <2> QED
    BY <2>1, <2>2
<1>9. Leads(G, V)
  <2> SUFFICES ASSUME NEW u \in 1 .. n, V[u].ok
               PROVE  \E t \in 1 .. u : /\ V[t].tables /\ V[u].at - V[t].at < PSI_INTERVAL_90K
                                        /\ TablesIn(G, V, t)
    BY <1>1 DEF Leads
  <2>1. PICK t \in 1 .. u :
          U[t].tables /\ U[u].at - U[t].at < PSI_INTERVAL_90K /\ TablesIn(F, U, t)
    BY <1>1, <1>2, <1>6 DEF Leads
  <2>2. t \in 1 .. n
    BY <1>1
  <2>3. V[t].tables /\ V[t].at = U[t].at /\ V[u].at = U[u].at
    BY <1>2, <2>1, <2>2
  <2> QED
    BY <1>7, <2>1, <2>2, <2>3
<1>10. InOrder(G, V) /\ Follows(G)
  <2>1. InOrder(G, V)
    <3>1. \A i \in VideosOf(F) : F[i].unit \in 1 .. n
      BY <1>6 DEF InOrder, n
    <3>2. \A i, j \in VideosOf(F) : i < j => F[i].unit <= F[j].unit
      BY <1>6 DEF InOrder
    <3> QED
      BY <1>1, <1>4, <3>1, <3>2 DEF InOrder
  <2>2. ASSUME NEW j \in VideosOf(G), ~G[j].pusi PROVE j > 1 /\ j - 1 \in VideosOf(G)
    <3>1. j \in VideosOf(F) /\ j \in 1 .. k /\ ~F[j].pusi
      BY <1>4, <2>2
    <3>2. j > 1 /\ j - 1 \in VideosOf(F)
      BY <1>6, <3>1 DEF Follows
    <3>3. j - 1 <= k
      BY <1>3, <3>1
    <3> QED
      BY <1>4, <3>2, <3>3
  <2> QED
    BY <2>1, <2>2 DEF Follows
<1>11. AllStored(G, V)
  <2> SUFFICES ASSUME NEW u \in 1 .. n, V[u].ok
               PROVE  \E i \in DOMAIN G, cc \in 0 .. 15 : Stored(G, V, u, i, cc)
    BY <1>1 DEF AllStored
  <2>1. u <= b /\ V[u] = U[u] /\ U[u].ok /\ U[u] \in Unit
    BY <1>1, <1>2
  <2>2. PICK i \in DOMAIN F, cc \in 0 .. 15 : Stored(F, U, u, i, cc)
    BY <1>1, <1>6, <2>1 DEF AllStored
  <2> DEFINE c == PesPackets(U[u].len)
             Whole(x) == PesPacket(u, U[u].len, U[u].key, U[u].at % TIMESTAMPS, (cc + x - 1) % 16, x)
  <2>3. /\ i + c - 1 <= Len(F) /\ (i + c \in VideosOf(F) => F[i + c].pusi)
        /\ \A x \in 1 .. c : F[i + x - 1] = Whole(x)
    BY <2>2 DEF Stored
  <2>4. c \in Nat \ {0} /\ i \in Nat \ {0}
    <3>1. U[u].len \in Nat \ {0}
      BY <2>1 DEF Unit
    <3> QED
      BY <1>3, <3>1, Packets
  <2>5. \A x : Whole(x).pid = "video" /\ Whole(x).unit = u
    BY PacketMarks
  <2> HIDE DEF c, Whole
  <2>6. i + c - 1 <= p
    <3>1. c \in 1 .. c /\ i + c - 1 \in 1 .. Len(F)
      BY <1>3, <2>3, <2>4
    <3>2. F[i + c - 1].pid = "video" /\ F[i + c - 1].unit = u
      BY <2>3, <2>5, <3>1
    <3>3. i + c - 1 \in VideosOf(F)
      BY <1>3, <3>1, <3>2 DEF VideosOf
    <3> QED
      BY <1>5, <2>1, <3>2, <3>3
  <2>7. ASSUME NEW x \in 1 .. c PROVE G[i + x - 1] = Whole(x)
    <3>1. i + x - 1 \in 1 .. k
      BY <1>3, <2>4, <2>6
    <3> QED
      BY <1>4, <2>3, <3>1
  <2>8. i + c \in VideosOf(G) => G[i + c].pusi
    BY <1>4, <2>3
  <2>9. i + c - 1 <= Len(G) /\ i \in DOMAIN G
    BY <1>3, <1>4, <2>4, <2>6
  <2>10. Stored(G, V, u, i, cc)
    BY <2>1, <2>7, <2>8, <2>9 DEF Stored, c, Whole
  <2> QED
    BY <2>9, <2>10
<1>12. \A x, y : LostIn(U, x, y) => LostIn(V, x, y)
  BY <1>1, <1>2 DEF LostIn
<1>13. Counted(G, V)
  <2> SUFFICES ASSUME NEW i \in VideosOf(G), NEW j \in VideosOf(G), i < j,
                      ~(\E x \in VideosOf(G) : i < x /\ x < j)
               PROVE  G[j].cc = (G[i].cc + 1) % 16 \/ LostIn(V, G[i].unit, G[j].unit)
    BY DEF Counted
  <2>1. /\ i \in VideosOf(F) /\ j \in VideosOf(F) /\ G[i] = F[i] /\ G[j] = F[j]
        /\ i \in 1 .. k /\ j \in 1 .. k
    BY <1>4
  <2>2. ~(\E x \in VideosOf(F) : i < x /\ x < j)
    <3> SUFFICES ASSUME NEW x \in VideosOf(F), i < x, x < j PROVE FALSE
      OBVIOUS
    <3>1. x \in Nat
      BY <1>4
    <3>2. x <= k
      BY <1>3, <2>1, <3>1
    <3> QED
      BY <1>4, <3>2
  <2>3. F[j].cc = (F[i].cc + 1) % 16 \/ LostIn(U, F[i].unit, F[j].unit)
    BY <1>6, <2>1, <2>2 DEF Counted
  <2> QED
    BY <1>12, <2>1, <2>3
<1>14. CounterGoesOn(G, V, m.cc_video)
  <2> SUFFICES ASSUME NEW i \in VideosOf(G), \A x \in VideosOf(G) : x <= i
               PROVE  m.cc_video = (G[i].cc + 1) % 16 \/ LostIn(V, G[i].unit, n)
    BY <1>1 DEF CounterGoesOn
  <2>1. i \in VideosOf(F) /\ G[i] = F[i] /\ F[i].unit \in 1 .. n
    BY <1>4, <1>6 DEF InOrder, n
  <2>2. CASE b = n
    <3>1. k = Len(F)
      <4>1. p = Len(F)
        BY <1>5, <2>2
      <4> QED
        BY ONLY <1>3, <4>1
    <3>2. \A x \in VideosOf(F) : x <= i
      <4>1. \A x \in VideosOf(F) : x <= k
        BY <1>3, <3>1 DEF VideosOf
      <4> QED
        BY <1>4, <4>1
    <3>3. m.cc_video = (F[i].cc + 1) % 16 \/ LostIn(U, F[i].unit, n)
      BY <1>6, <2>1, <3>2 DEF CounterGoesOn, n
    <3> QED
      BY <1>12, <2>1, <3>3
  <2>3. CASE b # n
    <3>1. n \in 1 .. n /\ ~(n <= b)
      <4>1. b <= n
        BY DEF Sync, n
      <4> QED
        BY <1>1, <2>1, <2>3, <4>1
    <3>2. ~V[n].ok /\ F[i].unit <= n /\ n <= n
      BY <1>1, <1>2, <2>1, <3>1
    <3> QED
      BY <1>1, <2>1, <3>1, <3>2 DEF LostIn
  <2> QED
    BY <2>2, <2>3
<1> QED
  BY <1>1, <1>4, <1>8, <1>9, <1>10, <1>11, <1>13, <1>14 DEF Kept, FileInv

\* All packets of all units are synced.
LEMMA AllSynced ==
  ASSUME NEW F, NEW U, NEW m, Kept(F, U, m)
  PROVE  Sync(F, U, Len(F), Len(U))
<1>1. Len(F) \in Nat /\ Len(U) \in Nat /\ DOMAIN F = 1 .. Len(F)
  BY DEF Kept
<1> QED
  BY <1>1 DEF Sync, VideosOf

\* Whatever the calls of stdio do, what is kept of the packets and units they
\* were given is kept of those there are after them.
LEMMA CallKeeps ==
  ASSUME NEW F, NEW U, NEW m, Kept(F, U, m), synced \in [packets : Nat, units : Nat],
         Sync(F, U, synced.packets, synced.units), Called(F, U)
  PROVE  /\ Kept(file', units', m) /\ Sync(file', units', synced'.packets, synced'.units)
         /\ synced' \in [packets : Nat, units : Nat]
         /\ Spoiled(U, units', synced.units) \/ units' = U
<1>1. F \in Seq(Packet) /\ U \in Seq(Unit) /\ Len(F) \in Nat /\ Len(U) \in Nat
  BY DEF Kept
<1>2. CASE file' = F /\ units' = U /\ synced' = synced
  BY <1>2
<1>3. CASE file' = F /\ units' = U /\ synced' = [packets |-> Len(F), units |-> Len(U)]
  BY <1>1, <1>3, AllSynced
<1>4. ASSUME NEW k \in synced.packets .. Len(F),
             file' = SubSeq(F, 1, k) \/ file' = Append(SubSeq(F, 1, k), Torn),
             units' = Lost(U), synced' = [packets |-> Len(file'), units |-> Len(U)]
      PROVE  /\ Kept(file', units', m) /\ Sync(file', units', synced'.packets, synced'.units)
             /\ synced' \in [packets : Nat, units : Nat]
             /\ Spoiled(U, units', synced.units)
  <2>1. synced.packets \in Nat /\ synced.units \in Nat /\ k \in 0 .. Len(F)
    BY <1>1
  <2>2. Part(F, file', k)
    BY <1>1, <1>4, <2>1, PartLeft
  <2>3. Spoiled(U, units', synced.units)
    BY <1>1, <1>4, LostSpoils
  <2>4. Kept(file', units', m)
    BY <1>4, <2>1, <2>2, <2>3, PartKept
  <2>5. Len(units') = Len(U) /\ Len(file') \in Nat
    BY <2>3, <2>4 DEF Spoiled, Kept
  <2> QED
    BY <1>1, <1>4, <2>3, <2>4, <2>5, AllSynced
<1> QED
  BY <1>2, <1>3, <1>4 DEF Called

-----------------------------------------------------------------------------
(* The invariant *)

\* A file without packets, as begun or as before the first recording.
Empty ==
  /\ TsTypeOK /\ units = <<>> /\ file = <<>> /\ mux.psi_pending /\ mux.media_ticks = 0
  /\ clock.rec_start_pts = -1 /\ clock.ticks = 0 /\ synced = [packets |-> 0, units |-> 0]

\* An empty file satisfies the invariant.
LEMMA EmptyHolds == Empty => TsInv
<1> SUFFICES ASSUME Empty PROVE TsInv
  OBVIOUS
<1>1. VideosOf(file) = {} /\ DOMAIN units = {} /\ Len(units) = 0 /\ Len(file) = 0
  BY DEF Empty, VideosOf
<1>2. ClockInv
  BY <1>1 DEF Empty, ClockInv, Anchored, Bounded, Rising
<1>3. LatestTables(file, units, mux) /\ Leads(file, units)
  BY <1>1 DEF Empty, LatestTables, Leads
<1>4. FileInv(file, units, mux.cc_video)
  BY <1>1 DEF FileInv, InOrder, Follows, AllStored, Counted, CounterGoesOn
<1>5. Sync(file, units, synced.packets, synced.units)
  BY <1>1 DEF Empty, Sync
<1> QED
  BY <1>2, <1>3, <1>4, <1>5 DEF TsInv, Kept, Empty, TsTypeOK

\* What a file keeps does not depend on the rest of the multiplexer.
LEMMA SameMux ==
  ASSUME NEW F, NEW U, NEW m, NEW l, Kept(F, U, m), l.last_psi_ticks = m.last_psi_ticks,
         l.psi_pending = m.psi_pending, l.cc_video = m.cc_video
  PROVE  Kept(F, U, l)
  BY DEF Kept, LatestTables

\* Closing a file keeps the invariant, whether its flush succeeds or not.
LEMMA CloseHolds == ASSUME TsInv, Close PROVE TsInv'
<1>1. /\ TsTypeOK /\ Anchored /\ Bounded /\ Rising /\ Kept(file, units, mux)
      /\ Sync(file, units, synced.packets, synced.units)
      /\ file \in Seq(Packet) /\ units \in Seq(Unit) /\ synced \in [packets : Nat, units : Nat]
  BY DEF TsInv, ClockInv, TsTypeOK
<1>2. /\ mux' \in Mux /\ mux'.media_ticks = mux.media_ticks
      /\ mux'.last_psi_ticks = mux.last_psi_ticks
      /\ mux'.psi_pending = mux.psi_pending /\ mux'.cc_video = mux.cc_video
  BY <1>1 DEF Close, TsTypeOK, Mux
<1>3. Called(file, units)
  <2>1. CASE Syncs(file, units)
    BY <2>1 DEF Syncs, Called
  <2>2. CASE SyncFails(file, units)
    BY <1>1, <2>2, FailureLeaves DEF SyncFails
  <2> QED
    BY <2>1, <2>2 DEF Close
<1>4. Kept(file, units, mux')
  BY <1>1, <1>2, SameMux
<1>5. /\ Kept(file', units', mux') /\ Sync(file', units', synced'.packets, synced'.units)
      /\ synced' \in [packets : Nat, units : Nat]
      /\ Spoiled(units, units', synced.units) \/ units' = units
  BY <1>1, <1>3, <1>4, CallKeeps
<1>6. TsTypeOK'
  BY <1>1, <1>2, <1>5 DEF TsTypeOK, Kept, Close
<1>7. /\ Len(units') = Len(units) /\ Len(units) \in Nat /\ DOMAIN units = 1 .. Len(units)
      /\ DOMAIN units' = 1 .. Len(units) /\ (units' = <<>> <=> units = <<>>)
      /\ \A i \in 1 .. Len(units) : units'[i].pts = units[i].pts /\ units'[i].at = units[i].at
  <2>1. /\ Len(units') = Len(units)
        /\ \A i \in 1 .. Len(units) : units'[i].pts = units[i].pts /\ units'[i].at = units[i].at
    BY <1>5 DEF Spoiled
  <2>2. units' \in Seq(Unit)
    BY <1>5 DEF Kept
  <2> QED
    BY <1>1, <2>1, <2>2
<1>8. clock' = clock /\ pts' = pts
  BY DEF Close
<1>9. Anchored' /\ Bounded' /\ Rising'
  <2> DEFINE n == Len(units)
  <2>0. n \in Nat /\ (units = <<>> <=> n = 0)
    BY <1>1
  <2>1. Anchored'
    BY <1>1, <1>2, <1>7, <1>8, <2>0 DEF Anchored
  <2>2. Bounded'
    <3> SUFFICES ASSUME units' # <<>> PROVE Bounded'
      BY DEF Bounded
    <3>1. /\ clock.ticks >= Since(units[n].pts)
          /\ LET skipped == clock.ticks - mux.media_ticks
             IN  skipped = 0 \/ skipped > MAX_FRAME_DURATION_90K
      BY <1>1, <1>7 DEF Bounded
    <3>2. PICK k \in 1 .. n :
            /\ \A i \in 1 .. n : units[i].pts <= units[k].pts
            /\ clock.ticks <= Since(units[k].pts) + MAX_FRAME_DURATION_90K + n
      BY <1>1, <1>7 DEF Bounded
    <3>3. n \in 1 .. n
      BY <1>7, <2>0
    <3>4. units'[n].pts = units[n].pts /\ units'[k].pts = units[k].pts
      BY <1>7, <3>3
    <3>5. \A i \in 1 .. n : units'[i].pts <= units'[k].pts
      BY <1>7, <3>2
    <3> HIDE DEF n
    <3> QED
      BY <1>2, <1>7, <1>8, <3>1, <3>2, <3>4, <3>5 DEF Bounded, Since, n
  <2>3. Rising'
    <3>1. \A i \in 1 .. n - 1 : units'[i].at < units'[i + 1].at
      BY <1>1, <1>7, <2>0 DEF Rising
    <3>2. n # 0 => units'[n].at < mux'.media_ticks
      BY <1>1, <1>2, <1>7, <2>0 DEF Rising
    <3> QED
      BY <1>7, <2>0, <3>1, <3>2 DEF Rising
  <2> QED
    BY <2>1, <2>2, <2>3
<1> QED
  BY <1>5, <1>6, <1>9 DEF TsInv, ClockInv

\* A write that succeeds leaves what was synced where it was.
LEMMA SyncWrite ==
  ASSUME NEW F, NEW U, Sync(file, units, synced.packets, synced.units),
         synced \in [packets : Nat, units : Nat],
         UnitsGrow(U), NEW t, NEW c, NEW m, OldPackets(F, Len(file)), NewPackets(F, Len(file), t, c, m),
         Len(F) = Len(file) + m
  PROVE  Sync(F, U, synced.packets, synced.units)
<1> DEFINE n == Len(units)
           size == Len(file)
           p == synced.packets
           b == synced.units
<1>1. /\ n \in Nat /\ Len(U) = n + 1 /\ size \in Nat /\ m \in Nat /\ Len(F) = size + m
      /\ p \in Nat /\ b \in Nat /\ p <= size /\ b <= n
  BY DEF UnitsGrow, OldPackets, NewPackets, Sync
<1>2. \A i \in VideosOf(file) : file[i].unit <= b => i <= p
  BY DEF Sync
<1>3. /\ VideosOf(F) \subseteq Nat \ {0}
      /\ \A i \in VideosOf(F) : i <= size => i \in VideosOf(file) /\ F[i] = file[i]
  BY DEF OldPackets
<1>4. \A i \in VideosOf(F) : i > size => F[i].unit = n + 1
  BY DEF NewPackets
<1> HIDE DEF n, size, p, b
<1>5. p <= Len(F) /\ b <= Len(U) /\ b # Len(U)
  BY <1>1
<1>6. ASSUME NEW i \in VideosOf(F), F[i].unit <= b PROVE i <= p
  <2>1. CASE i <= size
    BY <1>2, <1>3, <1>6, <2>1
  <2>2. CASE i > size
    BY <1>1, <1>4, <1>6, <2>2
  <2> QED
    BY <1>1, <1>3, <2>1, <2>2
<1> QED
  BY <1>5, <1>6 DEF Sync, p, b

\* A write keeps the invariant, however it ends.
LEMMA WriteHolds ==
  ASSUME TsInv, NEW len \in Lengths, NEW key \in BOOLEAN, NEW step \in PtsSteps,
         NEW streak \in Nat, write_nal(len, key, step, streak)
  PROVE  TsInv'
<1>1. /\ TsTypeOK /\ Anchored /\ Bounded /\ Rising /\ LatestTables(file, units, mux)
      /\ Leads(file, units) /\ InOrder(file, units) /\ Follows(file) /\ AllStored(file, units)
      /\ Counted(file, units) /\ CounterGoesOn(file, units, mux.cc_video)
      /\ Sync(file, units, synced.packets, synced.units)
      /\ synced \in [packets : Nat, units : Nat]
  BY DEF TsInv, ClockInv, Kept, FileInv, TsTypeOK
<1>2. /\ Wrote(len, key, step) /\ clock' \in Clock /\ Now(step) \in Int /\ len \in Nat \ {0}
  BY <1>1, WriteFacts
<1>3. PICK F, U : /\ F = Given(len, key) /\ Grown(U, len, key, step)
                  /\ \/ Written(F, U) \/ Syncs(F, U) \/ WriteFails(F, U) \/ SyncFails(F, U)
  BY <1>1, WriteFacts
<1>4. PICK t, m : Filed(F, len, key, t, m)
  BY <1>1, <1>2, <1>3, WriteFiles
<1>5. OldPackets(F, Len(file)) /\ NewPackets(F, Len(file), t, PesPackets(len), m)
  BY <1>1, <1>2, <1>4, WritePackets
<1>6. UnitsGrow(U)
  BY <1>1, <1>3, WriteGrows
<1>7. F \in Seq(Packet) /\ U \in Seq(Unit) /\ Len(F) = Len(file) + m
  BY <1>3, <1>4 DEF Filed, Grown
<1>8. LatestTables(F, U, mux') /\ Leads(F, U)
  BY <1>1, <1>2, <1>3, <1>4, <1>5, <1>6, TablesWrite
<1>9. InOrder(F, U) /\ Follows(F)
  BY <1>1, <1>5, <1>6, OrderWrite
<1>10. AllStored(F, U)
  BY <1>1, <1>2, <1>3, <1>4, <1>5, <1>6, StoredWrite
<1>11. Counted(F, U) /\ CounterGoesOn(F, U, mux'.cc_video)
  <2>1. /\ m = t + PesPackets(len)
        /\ mux.cc_video \in 0 .. 15 /\ mux'.cc_video = (mux.cc_video + PesPackets(len)) % 16
    BY <1>1, <1>2, <1>4 DEF Filed, Wrote, TsTypeOK, Mux
  <2>2. PICK w : w = mux'.cc_video
    OBVIOUS
  <2>3. Counted(F, U) /\ CounterGoesOn(F, U, w)
    BY <1>1, <1>5, <1>6, <1>9, <2>1, <2>2, CountWrite
  <2> QED
    BY <2>2, <2>3
<1>12. Kept(F, U, mux')
  BY <1>7, <1>8, <1>9, <1>10, <1>11 DEF Kept, FileInv
<1>13. Sync(F, U, synced.packets, synced.units)
  BY <1>1, <1>5, <1>6, <1>7, SyncWrite
<1>14. Called(F, U)
  <2>1. CASE Written(F, U)
    BY <2>1 DEF Written, Called
  <2>2. CASE Syncs(F, U)
    BY <2>2 DEF Syncs, Called
  <2>3. CASE WriteFails(F, U)
    BY <1>1, <1>7, <2>3, FailureLeaves DEF WriteFails
  <2>4. CASE SyncFails(F, U)
    BY <1>1, <1>7, <2>4, FailureLeaves DEF SyncFails
  <2> QED
    BY <1>3, <2>1, <2>2, <2>3, <2>4
<1>15. /\ Kept(file', units', mux') /\ Sync(file', units', synced'.packets, synced'.units)
       /\ synced' \in [packets : Nat, units : Nat]
       /\ Spoiled(U, units', synced.units) \/ units' = U
  BY <1>1, <1>12, <1>13, <1>14, CallKeeps
<1>16. Timed(step)
  <2> DEFINE n == Len(units)
  <2>1. /\ n \in Nat /\ Len(U) = n + 1 /\ \A i \in 1 .. n : U[i] = units[i]
        /\ U[n + 1].pts = Now(step) /\ U[n + 1].at = mux.media_ticks
    BY <1>3, <1>6 DEF Grown, UnitsGrow
  <2>2. /\ Len(units') = Len(U)
        /\ \A i \in 1 .. Len(U) : units'[i].pts = U[i].pts /\ units'[i].at = U[i].at
    BY <1>15 DEF Spoiled
  <2>3. units' \in Seq(Unit)
    BY <1>15 DEF Kept
  <2> HIDE DEF n
  <2>4. \A i \in 1 .. n : i \in 1 .. n + 1
    BY <2>1
  <2>5. n + 1 \in 1 .. n + 1
    BY <2>1
  <2> QED
    BY <2>1, <2>2, <2>3, <2>4, <2>5 DEF Timed, n
<1>17. TsTypeOK'
  BY <1>2, <1>15 DEF TsTypeOK, Wrote, Kept
<1>18. Anchored' /\ Bounded' /\ Rising'
  BY <1>1, <1>2, <1>16, ClockWrite
<1> QED
  BY <1>15, <1>17, <1>18 DEF TsInv, ClockInv

\* Every state of the recorded file satisfies the invariant.
THEOREM TsInvariance == TsSpec => []TsInv
<1>1. TsInit => Empty
  <2>1. MAX_FRAME_DURATION_90K = 22500
    BY DEF MAX_FRAME_DURATION_90K
  <2> SUFFICES ASSUME TsInit PROVE Empty
    OBVIOUS
  <2>2. mux \in Mux /\ mux.psi_pending /\ mux.media_ticks = 0
    <3>1. mux = [open |-> FALSE, media_ticks |-> 0, last_psi_ticks |-> 0, psi_pending |-> TRUE,
                 cc_video |-> 0, cc_pat |-> 0, cc_pmt |-> 0, write_fail_streak |-> 0]
      BY DEF TsInit, FreshMux
    <3> QED
      BY <3>1 DEF Mux
  <2>3. clock \in Clock /\ clock.rec_start_pts = -1 /\ clock.ticks = 0
    <3>1. 0 \in 0 .. MAX_FRAME_DURATION_90K
      BY <2>1
    <3> QED
      BY <3>1 DEF TsInit, Clock
  <2> QED
    BY <2>2, <2>3 DEF TsInit, Empty, TsTypeOK, FIRST_PTS
<1>2. TsInv /\ OpenNext => Empty'
  <2> SUFFICES ASSUME TsInv, OpenNext PROVE Empty'
    OBVIOUS
  <2>1. mux' \in Mux /\ mux'.psi_pending /\ mux'.media_ticks = 0
    BY DEF OpenNext, FreshMux, Mux
  <2>2. clock' \in Clock /\ clock'.rec_start_pts = -1 /\ clock'.ticks = 0
    <3>1. clock \in Clock /\ clock.last_good \in 0 .. MAX_FRAME_DURATION_90K
      BY DEF TsInv, ClockInv, TsTypeOK, Clock
    <3>2. clock' = [rec_start_pts |-> -1, ticks |-> 0, last_good |-> clock.last_good]
      BY <3>1 DEF OpenNext, Clock
    <3> QED
      BY <3>1, <3>2 DEF Clock
  <2> QED
    BY <2>1, <2>2 DEF OpenNext, Empty, TsTypeOK, FIRST_PTS
<1>3. TsInv /\ WriteNal => TsInv'
  <2> SUFFICES ASSUME TsInv, WriteNal PROVE TsInv'
    OBVIOUS
  <2>1. PICK len \in Lengths, key \in BOOLEAN, step \in PtsSteps,
             streak \in 0 .. mux.write_fail_streak + 1 : write_nal(len, key, step, streak)
    BY DEF WriteNal
  <2>2. streak \in Nat
    OBVIOUS
  <2> QED
    BY <2>1, <2>2, WriteHolds
<1>4. TsInv /\ Close => TsInv'
  BY CloseHolds
<1>5. TsInv /\ UNCHANGED tsVars => TsInv'
  BY DEF tsVars, TsInv, ClockInv, TsTypeOK, Anchored, Bounded, Rising
<1>6. TsInv /\ [TsNext]_tsVars => TsInv' \/ Empty'
  BY <1>2, <1>3, <1>4, <1>5 DEF TsNext
<1> QED
  BY <1>1, <1>6, EmptyHolds, PTL DEF TsSpec

-----------------------------------------------------------------------------
(* What the invariant says to a reader of the file *)

\* A set of numbers has a least one.
LEMMA LeastNumber ==
  ASSUME NEW S, S \subseteq Nat, S # {}
  PROVE  \E x \in S : \A y \in S : x <= y
<1>1. PICK x \in S : \A y \in S : ~(<<y, x>> \in OpToRel(<, Nat))
  BY WFMin, NatLessThanWellFounded
<1>2. \A y \in S : ~(y < x)
  BY <1>1 DEF OpToRel
<1>3. x \in Nat /\ \A y \in S : y \in Nat
  OBVIOUS
<1>4. \A y \in S : x <= y
  BY <1>2, <1>3
<1> QED
  BY <1>4

\* A reader joins to a stored unit its own packets and no others.
LEMMA JoinsItsOwn ==
  ASSUME TsTypeOK, Follows(file), NEW i \in Nat \ {0}, NEW c \in Nat \ {0}, i + c - 1 <= Len(file),
         \A k \in 1 .. c : i + k - 1 \in VideosOf(file) /\ (file[i + k - 1].pusi <=> k = 1),
         i + c \in VideosOf(file) => file[i + c].pusi
  PROVE  \A j : j \in JoinedFrom(i) <=> j \in i .. i + c - 1
<1> DEFINE ends == {j \in VideosOf(file) : j > i /\ file[j].pusi} \cup {Len(file) + 1}
           z == Min(ends)
<1>1. Len(file) \in Nat /\ VideosOf(file) \subseteq Nat
  <2>1. Len(file) \in Nat /\ DOMAIN file = 1 .. Len(file)
    BY DEF TsTypeOK
  <2> QED
    BY <2>1 DEF VideosOf
<1>2. z \in ends /\ \A y \in ends : z <= y
  <2>1. ends \subseteq Nat /\ ends # {}
    <3>1. {j \in VideosOf(file) : j > i /\ file[j].pusi} \subseteq Nat
      BY <1>1, Zenon
    <3>2. Len(file) + 1 \in Nat
      BY <1>1
    <3> QED
      BY <3>1, <3>2, Zenon
  <2>2. \E x \in ends : \A y \in ends : x <= y
    BY <2>1, LeastNumber
  <2> HIDE DEF ends
  <2> QED
    BY <2>2 DEF Min
<1>3. JoinedFrom(i) = {j \in VideosOf(file) : j >= i /\ j < z}
  BY DEF JoinedFrom, Videos, VideosOf
<1>4. z \in Nat
  <2>1. z \in VideosOf(file) \/ z = Len(file) + 1
    BY <1>2, Zenon
  <2>2. Len(file) + 1 \in Nat
    BY <1>1
  <2> QED
    BY <1>1, <2>1, <2>2, Zenon
<1> HIDE DEF z
<1>5. z >= i + c
  <2>1. CASE z = Len(file) + 1
    BY <1>1, <2>1
  <2>2. CASE z \in VideosOf(file) /\ z > i /\ file[z].pusi
    <3>1. CASE z < i + c
      <4>1. z - i + 1 \in 1 .. c /\ i + (z - i + 1) - 1 = z /\ z - i + 1 # 1
        BY <1>4, <2>2, <3>1
      <4> QED
        BY <2>2, <4>1
    <3> QED
      BY <1>4, <3>1
  <2> QED
    BY <1>2, <2>1, <2>2
<1>6. ASSUME NEW j \in i .. i + c - 1 PROVE j \in VideosOf(file) /\ j >= i /\ j < z
  <2>1. j - i + 1 \in 1 .. c /\ i + (j - i + 1) - 1 = j
    OBVIOUS
  <2>2. j \in VideosOf(file)
    BY <2>1
  <2> QED
    BY <1>4, <1>5, <2>2
<1>7. {j \in VideosOf(file) : j >= i + c /\ j < z} = {}
  <2> DEFINE B == {j \in VideosOf(file) : j >= i + c /\ j < z}
  <2> SUFFICES ASSUME B # {} PROVE FALSE
    OBVIOUS
  <2>1. B \subseteq Nat
    BY <1>1
  <2>2. PICK b \in B : \A y \in B : b <= y
    BY <2>1, LeastNumber
  <2>3. b \in Nat /\ b \in VideosOf(file) /\ b >= i + c /\ b < z
    BY <2>1, <2>2
  <2>4. b - 1 \notin B
    BY <2>2, <2>3
  <2>5. ~file[b].pusi
    <3>1. CASE file[b].pusi
      <4>1. b \in ends
        BY <2>3, <3>1
      <4>2. z <= b
        BY <1>2, <4>1
      <4> QED
        BY <1>4, <2>3, <4>2
    <3> QED
      BY <3>1
  <2>6. b - 1 \in VideosOf(file)
    BY <2>3, <2>5 DEF Follows
  <2>7. b = i + c
    BY <1>4, <2>3, <2>4, <2>6
  <2> QED
    BY <2>3, <2>5, <2>7
<1>8. ASSUME NEW j \in VideosOf(file), j >= i, j < z PROVE j \in i .. i + c - 1
  <2>1. j \in Nat /\ ~(j >= i + c)
    BY <1>1, <1>7, <1>8
  <2> QED
    BY <1>8, <2>1
<1> QED
  BY <1>3, <1>6, <1>8

\* Every access unit whose write succeeded, and which no later call that failed
\* found unsynced, is read back whole; it is on storage once it is synced, and a
\* continuity counter skips only where a unit was lost (emit_pes(),
\* write_block(), sync_now()), for units of any length and any calls that fail.
THEOREM FilesReadBack == TsSpec => []FileReadsBack
<1>1. TsInv => FileReadsBack
  <2> SUFFICES ASSUME TsInv PROVE FileReadsBack
    OBVIOUS
  <2>1. /\ TsTypeOK /\ Follows(file) /\ AllStored(file, units) /\ Counted(file, units)
        /\ DOMAIN units = 1 .. Len(units) /\ DOMAIN file = 1 .. Len(file)
        /\ \A i \in VideosOf(file) : file[i].unit <= synced.units => i <= synced.packets
    BY DEF TsInv, ClockInv, Kept, FileInv, TsTypeOK, Sync
  <2>2. ASSUME NEW u \in DOMAIN units, units[u].ok
        PROVE  \E i \in VideosOf(file) :
                 LET js == JoinedFrom(i)
                     total == PES_HEADER + units[u].len
                 IN  /\ file[i].pusi /\ file[i].rai = units[u].key
                     /\ file[i].pcr = units[u].at % TIMESTAMPS /\ file[i].from = 0 /\ \E j \in js : file[j].to = total
                     /\ \A j \in js :
                          /\ file[j].unit = u /\ Aligned(file[j])
                          /\ u <= synced.units => j <= synced.packets
                          /\ file[j].to < total =>
                               \E k \in js : k = j + 1 /\ file[k].from = file[j].to
                                             /\ file[k].cc = (file[j].cc + 1) % 16
    <3> DEFINE len == units[u].len
               key == units[u].key
               at == units[u].at % TIMESTAMPS
               c == PesPackets(len)
               total == PES_HEADER + len
    <3>1. u \in Nat /\ len \in Nat \ {0} /\ key \in BOOLEAN /\ at \in Int
      <4>1. units[u] \in Unit /\ u \in 1 .. Len(units)
        BY <2>1 DEF TsTypeOK
      <4>2. units[u].at \in Int
        BY <4>1 DEF Unit
      <4> QED
        BY <4>1, <4>2, TimestampTyped DEF Unit
    <3>2. PICK i \in DOMAIN file, cc \in 0 .. 15 : Stored(file, units, u, i, cc)
      BY <2>1, <2>2 DEF AllStored
    <3> DEFINE P(k) == PesPacket(u, len, key, at, (cc + k - 1) % 16, k)
    <3>3. /\ i + c - 1 <= Len(file) /\ (i + c \in VideosOf(file) => file[i + c].pusi)
          /\ \A k \in 1 .. c : file[i + k - 1] = P(k)
      BY <3>2 DEF Stored
    <3>4. c \in Nat \ {0} /\ i \in Nat \ {0} /\ Len(file) \in Nat
      BY <2>1, <3>1, <3>2, Packets DEF TsTypeOK
    <3> HIDE DEF c, len, key, at, P
    <3>5. ASSUME NEW k \in 1 .. c
          PROVE  LET p == file[i + k - 1]
                 IN  /\ p.pid = "video" /\ p.unit = u /\ p.cc = (cc + k - 1) % 16
                     /\ (p.pusi <=> k = 1) /\ (k = 1 => p.rai = key /\ p.pcr = at)
                     /\ p.from = Start(k) /\ Aligned(p)
                     /\ k = c => p.to = total
                     /\ p.to < total => k < c /\ p.to = Start(k + 1)
      <4>1. PICK v \in 0 .. 15 : v = (cc + k - 1) % 16
        <5>1. cc + k - 1 \in Int
          BY <3>4
        <5> QED
          BY <5>1, CounterTyped
      <4>2. file[i + k - 1] = PesPacket(u, len, key, at, v, k)
        BY <3>3, <4>1 DEF P
      <4>3. k \in 1 .. PesPackets(len)
        BY DEF c
      <4>4. Reads(file[i + k - 1], u, len, key, at, v, k)
        BY <3>1, <4>2, <4>3, PacketHolds
      <4> QED
        BY <4>1, <4>4 DEF c, Reads
    <3>6. \A k \in 1 .. c : i + k - 1 \in VideosOf(file)
      <4>1. ASSUME NEW k \in 1 .. c PROVE i + k - 1 \in DOMAIN file
        BY <2>1, <3>3, <3>4
      <4> QED
        BY <3>5, <4>1 DEF VideosOf
    <3>7. \A j : j \in JoinedFrom(i) <=> j \in i .. i + c - 1
      BY <2>1, <3>3, <3>4, <3>5, <3>6, JoinsItsOwn
    <3>8. /\ i \in VideosOf(file) /\ file[i].pusi /\ file[i].rai = key /\ file[i].pcr = at
          /\ file[i].from = 0
      <4>1. 1 \in 1 .. c /\ i + 1 - 1 = i /\ Start(1) = 0
        BY <3>4 DEF Start
      <4> QED
        BY <3>5, <3>6, <4>1
    <3>9. \E j \in JoinedFrom(i) : file[j].to = total
      <4>1. c \in 1 .. c /\ i + c - 1 \in i .. i + c - 1
        BY <3>4
      <4> QED
        BY <3>5, <3>7, <4>1
    <3>10. ASSUME NEW j \in JoinedFrom(i)
           PROVE  /\ file[j].unit = u /\ Aligned(file[j])
                  /\ u <= synced.units => j <= synced.packets
                  /\ file[j].to < total =>
                       \E k \in JoinedFrom(i) : k = j + 1 /\ file[k].from = file[j].to
                                                /\ file[k].cc = (file[j].cc + 1) % 16
      <4>1. PICK k \in 1 .. c : j = i + k - 1
        <5>1. j \in i .. i + c - 1
          BY <3>7
        <5>2. j - i + 1 \in 1 .. c /\ j = i + (j - i + 1) - 1
          BY <3>4, <5>1
        <5> QED
          BY <5>2
      <4>2. /\ file[j].unit = u /\ Aligned(file[j])
            /\ u <= synced.units => j <= synced.packets
        BY <2>1, <3>5, <3>6, <4>1
      <4>3. ASSUME file[j].to < total
            PROVE  /\ j + 1 \in JoinedFrom(i) /\ file[j + 1].from = file[j].to
                   /\ file[j + 1].cc = (file[j].cc + 1) % 16
        <5>1. k < c /\ file[j].to = Start(k + 1) /\ file[j].cc = (cc + k - 1) % 16
          BY <3>5, <4>1, <4>3
        <5>2. k + 1 \in 1 .. c /\ i + (k + 1) - 1 = j + 1 /\ j + 1 \in i .. i + c - 1
          BY <3>4, <4>1, <5>1
        <5>3. file[j + 1].from = Start(k + 1) /\ file[j + 1].cc = (cc + (k + 1) - 1) % 16
          BY <3>5, <5>2
        <5>4. cc + k - 1 \in Int /\ cc + (k + 1) - 1 = (cc + k - 1) + 1
          BY <3>4
        <5> QED
          BY <3>7, <5>1, <5>2, <5>3, <5>4, CounterNext
      <4> QED
        BY <4>2, <4>3
    <3> QED
      BY <3>8, <3>9, <3>10 DEF len, key, at
  <2> QED
    BY <2>1, <2>2 DEF FileReadsBack, Counted, LostIn, Videos, VideosOf
<1> QED
  BY <1>1, TsInvariance, PTL

\* A unit that is in the file has the tables before it, by less than a table
\* interval, unless a call that failed took them (mux_access_unit()).
THEOREM TablesAlwaysLead == TsSpec => []TablesLead
<1>1. TsInv => TablesLead
  BY DEF TsInv, Kept, Leads, TablesIn, TablesLead, Videos, VideosOf
<1> QED
  BY <1>1, TsInvariance, PTL

\* The time stamps of a file rise, and its clocks stay within their bounds of
\* the time that the units' pts tell (next_frame_duration()), through pts that
\* stand still, run backwards or jump.
THEOREM TimelineIsTracked == TsSpec => []TimelineTracks
<1>1. TsInv => TimelineTracks
  <2> SUFFICES ASSUME TsInv, units # <<>> PROVE TimelineTracks
    BY DEF TimelineTracks, TsInv, ClockInv, TsTypeOK
  <2> DEFINE n == Len(units)
             M == MAX_FRAME_DURATION_90K
             Elapsed(i) == (units[i].pts - units[1].pts) * MS_TO_90K
             S == {Elapsed(i) : i \in DOMAIN units}
  <2>1. TsTypeOK /\ Anchored /\ Bounded /\ Rising
    BY DEF TsInv, ClockInv
  <2>2. n \in Nat /\ n > 0 /\ DOMAIN units = 1 .. n /\ \A i \in 1 .. n : units[i].pts \in Int
    <3>1. n \in Nat /\ n > 0 /\ DOMAIN units = 1 .. n /\ \A i \in 1 .. n : units[i] \in Unit
      BY <2>1 DEF TsTypeOK
    <3> QED
      BY <3>1 DEF Unit
  <2>3. \A i \in DOMAIN units : Elapsed(i) = Since(units[i].pts) /\ Elapsed(i) \in Int
    BY <2>1, <2>2 DEF Anchored, Since, FIRST_PTS, MS_TO_90K
  <2>4. PICK k \in DOMAIN units :
          /\ \A i \in DOMAIN units : units[i].pts <= units[k].pts
          /\ clock.ticks <= Since(units[k].pts) + M + n
    BY <2>1 DEF Bounded
  <2>5. Max(S) = Elapsed(k)
    <3>1. \A i \in DOMAIN units : Elapsed(i) <= Elapsed(k)
      BY <2>1, <2>2, <2>4 DEF Anchored, FIRST_PTS, MS_TO_90K
    <3>2. Elapsed(k) \in S /\ S \subseteq Int /\ \A y \in S : Elapsed(k) >= y
      BY <2>3, <3>1
    <3>3. Max(S) \in S /\ \A y \in S : Max(S) >= y
      <4> HIDE DEF S, Elapsed
      <4> QED
        BY <3>2 DEF Max
    <3>4. Max(S) \in Int /\ Max(S) <= Elapsed(k) /\ Elapsed(k) <= Max(S) /\ Elapsed(k) \in Int
      <4> HIDE DEF S, Elapsed
      <4> QED
        BY <2>3, <3>2, <3>3
    <3> HIDE DEF S, Elapsed
    <3> QED
      BY <3>4
  <2>6. n \in DOMAIN units /\ clock.ticks >= Elapsed(n)
    <3>1. n \in DOMAIN units
      BY <2>2
    <3> QED
      BY <2>1, <2>3, <3>1 DEF Bounded
  <2>7. clock.ticks <= Max(S) + M + n
    BY <2>3, <2>4, <2>5
  <2>8. LET skipped == clock.ticks - mux.media_ticks IN skipped = 0 \/ skipped > M
    BY <2>1 DEF Bounded
  <2>9. \A i \in 1 .. n - 1 : units[i].at < units[i + 1].at
    BY <2>1 DEF Rising
  <2> QED
    BY <2>6, <2>7, <2>8, <2>9 DEF TimelineTracks
<1> QED
  BY <1>1, TsInvariance, PTL
=============================================================================
