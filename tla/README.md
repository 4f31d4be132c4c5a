# TLA+ development of PixelPilot_rk

PixelPilot_rk receives a video stream over RTP, decodes it with Rockchip's MPP,
shows it through DRM/KMS with an OSD on top, and can re-encode what is shown to
record it (DVR) and to restream it.  This directory models it from the datagrams to
the file: the RTP demuxer and its session, the stream session, the hand-off of frames
to the screen, the display's set-up and restoration, the encoder, the recorder and
the files it writes, the statistics client and the facts of the OSD, and how they all
end.  Paths below are relative to the repository's `src/` directory, unless they
begin with `lib/`.

## 1. Inventory

| Component | State | Operations | Interacts with | Hard behaviour | Correct when |
|---|---|---|---|---|---|
| DVR worker `dvr/dvr.cpp` | `dvr_state`, `recording_armed`, rpc queue, open file, failure counters, `busy_since_ms_`, `stalled_` | rpc loop, `start`, `stop`, `fail`, roll to next file, `handle_access_unit`, `finish_storage_work` | called by main, display and encoder threads; calls the encoder's gate and keyframe request | storage that fails or hangs, watchdog racing a late return, overflow | file, flags and published fact agree; Disabled is final; files are decodable and without holes; it ends |
| TS writer `dvr/ts_writer.cpp` | file, stdio buffer, failure streak | `open`, `begin_video`, `write_nal`, `close`, syncs | owned by the worker | partial writes, failed syncs, units lost with the buffer | well-formed packets, streak counts failures |
| Storage guard `dvr/storage_guard.cpp` | directory, limits | `is_ready`, `free_bytes`, `mount_ok` | worker | card pulled or replaced | never reports a lost card as ready |
| Encoder thread `encoder/video_encoder.cpp` | task queue, gate, `idr_requested`, session, pts FIFO, `wb_pending_index` | task loop, `ensure_encoder`, `encode`, `teardown`, ingress calls | display and FRAME threads feed it, consumers are called back | races of ingress, control and teardown; failed set-ups | slots single-owner, timestamps right, requests not lost, it ends |
| MPP session `encoder/mpp_encoder.cpp` | the MPP context | `init`, `submit`, `drain`, `flush`, `cleanup` | encoder thread | output at the hardware's pace, flush that wedges | one packet per frame, in order |
| Display thread `main.cpp` | framebuffer hand-off, writeback slots | wait, flip, claim, commit, hand off | FRAME thread, OSD, encoder | commit failures, wake-ups | never blocked by the recorder |
| FRAME thread, decoder `main.cpp` | decoder buffers, geometry | `init_buffer`, decode tap | display, encoder, main | geometry change, codec restart | frames shown once, geometry announced first |
| Main thread `main.cpp` | codec, stream presence | set-up, `read_video_stream`, `restart_mpi`, joins | all | stream loss, join order | every thread ends, nothing is used after it |
| RTP receiver, codec detector | socket, demuxer, probe state | `start`, `stop`, thread, classify | main | loss, reordering | right codec, stops promptly |
| OSD service `osd/` | facts queue, two buffers | publish, drain, paint, `stop` | every thread publishes | painting while flipping | a painted buffer is not on screen |
| wfb client `wfbcli.cpp` | connection, receive buffer | connect, read, parse, clear | OSD, main | reconnect, framing | every message once, stops promptly |
| Restreamer `video_restreamer.cpp` | packer, socket, counters | `on_access_unit`, `send_packet` | encoder thread | unreachable peer | never blocks the encoder |
| DRM layer `drm.c` | outputs, planes, buffers, atomic requests, writeback | find, set up, modeset, attach and check writeback, restore, clean up | main at start and exit, display and FRAME threads | any driver call may fail; requests accumulate | everything made is released once; no commit names what is gone |
| RTP queue and unpackers `lib/librtp` | ring of packets, saved packets, fragment buffer | `rtp_queue_write/read`, `unpack` | receiver thread | loss, reordering, wraps, restarted sender | whole units only; a restart is followed |
| RTP session `lib/librtp` | members, senders, their counters | RTP and RTCP input, reports, BYE | demuxer | any order of join and leave, wraps | members counted right, reports in range |
| RTCP feedback `lib/librtp` | - | pack and unpack of some twenty formats | a peer's librtp | boundary values, short buffers | what is read is what was written |
| Configuration, sockets, inih | - | parsing, socket calls | start-up | - | - |

`PROJECT.json` lists the same parts with what is and is not modelled, and the
hazards, each at its line, with the properties that would catch it.

## 2. Plan

Done, in this order: `SeqFilter`, `Dvr`, `VideoEncoder`, `DisplayHandoff`,
`StreamSession` and their proofs; `RtpQueue`, `RtpPayload`, `RtpSession` and their
composition `RtpLink` with its abstract specification `NalChannel`; `OsdFacts` and
`Telemetry`; `ModeSelection` and `DrmSetup`; `TsWriter`; `BitFields`, `RtcpFormats`,
`TccFeedback` and `Feedback`; the proofs about the recorder's files, `Telemetry`,
`TsWriter` and `DrmSetup`; and those about the receiver of librtp (`ReceiverProofs`).

The modules of the threads share threads, not variables: each describes, of
another's thread, only what it sees of it (`DisplayHandoff` the encoder thread and
the worker as things to be joined, `VideoEncoder` the display thread's captures,
`StreamSession` the decoder as the codec it was made for, `Telemetry` the worker as
a publisher of facts).

What is left, and why it comes next:

1. `Recorder`: `VideoEncoder` and `Dvr` composed through the consumer interface, a
   lossy FIFO from captured frames to files as their abstract specification.
2. `generate_filename()` and the storage guard's arithmetic as algorithms.
3. The refinement of `NalChannel` proved, under a hypothesis that keeps the sequence
   numbers of the two runs and of their duplicates apart; without one it is false,
   because numbers come back (section 3).

## 3. Modules

### SeqFilter, SeqFilterProofs

`Keep(q, I)` is the part of a queue at the positions `I`, in order.  Both
`Dvr::on_tick()` and `VideoEncoder::drop_pending_frames()` rebuild a queue this
way.  The theorem `KeepCorrect` says that every entry kept comes from a position
in `I`, in increasing order, and that each position is used.  `Total(s)` is the sum
of a sequence of numbers, which the recorder keeps of its queue; the lemmas say what
it does when an entry joins, leaves or has no size.

### Dvr, DvrProofs

Three groups of processes over the state of `Dvr` and `dvr_state`:

* the worker (`WorkerNext`), step by step from one access of shared state to the
  next: `wpc` names the step, `rpc` is the rpc in hand, `ret`, `fatal` and `fin`
  are the return addresses of `stop()`, `fail()` and `finish_storage_work()`;
* the encoder thread (`EncoderNext`) as the recorder sees it: posted commands,
  access units, `on_encoder_reset`, `on_encoder_failed`, the recomputation of the
  gate and the watchdog `on_tick`, each atomic or exchange a step of its own;
* the callers on main and display (`CallerNext`): `start_recording`,
  `stop_recording`, `toggle_recording`, `disable`, `shutdown`.  Main itself calls
  only `start_recording`, at startup, and the display thread toggles; `dvr.h:51`
  declares all of them safe from any thread, so the model lets them happen at any
  time.  The test of `dvr_state` and the post that follows it are two steps.

An access unit is its number, encoder session, length and whether it is a
keyframe.  `file` holds what was muxed into the open file.  Storage calls have
every outcome the code tells apart; `Faults` selects which faults may happen.
`busy` is whether `busy_since_ms_` is nonzero: the watchdog may fire whenever it
is, which covers every duration.

### VideoEncoder, MCVideoEncoder, VideoEncoderProofs

The display thread's writeback capture, the decode tap, the calls of main and
the consumers, and the encoder thread with its MPP session.  `wb_busy` is the
set of busy slots; `queue` holds frames and control tasks; `epc`, `task` and
`next` are the encoder thread's position, task in hand and return address;
`mpp` is what MPP holds.  The gate `wants_frames` is an input here (its
computation is in `Dvr`), so that every order of opening and closing it is
covered.  MPP is external: it may return a finished frame at each poll or not,
it may refuse a set-up, a buffer or a frame, and its flush may end early.  An
IDR asked of MPP is assumed to stay asked until MPP accepts a frame.  Whether
an IDR is due by `KEYFRAME_INTERVAL_MS` is a free choice.

### DisplayHandoff, DisplayHandoffProofs

Four threads of `main.cpp` and the OSD thread.  `fpc`, `dpc`, `opc` and `mpc` are the
steps of the FRAME, display, OSD and main threads; `epc` and `vpc` say whether the
encoder thread and the DVR worker run.  `video_mutex` and `osd_mutex` are never held
across two steps, so a critical section is one step; `pthread_cond_wait()` is a step
into `"wait"` and another out of `"woken"`, and may wake spuriously.  A framebuffer
is its frame's number and the generation of buffers it belongs to: `init_buffer()`
and `cleanup_mpi()` remove a whole generation.  A commit of a removed framebuffer
fails, unless the kernel gave its number to a new one; with `Faults` any commit and
the modeset may fail.  `request` follows `video_request` while `init_buffer()` uses
it.  A call that the FRAME thread asserts on may fail, and ends the process with all
its threads (`Abort`): `decode_get_frame()` that times out (`main.cpp:309`, `368`), the
buffers of `init_buffer()` and its modeset, the second time too (`main.cpp:255`).  The
repository's build files do not define `NDEBUG` and set no build type.  The join of the
wfb-cli thread is in `Telemetry`, and the deferred DVR toggle is a control call of `Dvr`.

### StreamSession, and the first part of ReceiverProofs

The receiver thread (`rpc`) and `read_video_stream()` on the main thread (`mpc`).  A
step ends at every access to what they share.  A datagram is the class
`rtp_classify_codec()` gives it; whether it completes an access unit is the demuxer's
choice.  `clock` is the time in milliseconds, `now` the main loop's copy, and their
difference wraps as `uint64_t` does (`Wrap`).  The decoder is the codec it was made
for, and accepts an end of stream in the end.  `Early` bounds when datagrams may
arrive, so that the silence after the last is long enough to be noticed before the
clock stops.

### RtpQueue, RtpPayload, RtpSession, NalChannel, RtpLink, MCRtpLink, ReceiverProofs

`RtpQueue` has the operators of `rtp-queue.c` on a queue record, with the window,
the probation and the saved packets of a restarted sender.  `RtpPayload` cuts NAL
units into payloads as the packers do (single, fragments, and aggregates, which the
code unpacks and does not pack) and joins them as the two unpackers do; the octets of
a unit are its positions, so that a cut or spliced unit can be told from a whole one.
The unpackers refuse what is too short for the codec or has a wrong length in an
aggregate, where the code returns an error.
`RtpSession` keeps members and senders with their reference counts and sequence
counters, and handles SR, RR, SDES with any number of chunks, and BYE.

`RtpLink` puts a sender, a network and the demuxer together in the program's two
uses of it: the receiver, with the codec's unpacker and no jitter, and the codec
detector, which is handed raw payloads until one tells the codec.  The sender
restarts once with another SSRC and other numbers; the network loses, delays,
duplicates, damages and invents packets.  `NalChannel` is the abstract specification: whole
units that were sent, in order in the detector's case, perhaps late or twice in the
other.  `HandsOverUnits` is the refinement, with `sent <- units`, `got <- got`.

The loops of the code are recursive functions on the number of turns: the search of
`rtp_queue_find()` on windows that halve, the resync on the saved packets, the
demuxer's loop on what it has handed out, `rtp_destroy()` on the members released.
The names of its specification (`LinkInit`, `LinkNext`, `LinkSpec`) are its own, so
that `ReceiverProofs` can extend it together with `StreamSession`.

The demuxer ignores the SSRC of a packet.  A packet of the old run that is delayed
beyond the restart and falls into the new run's window is therefore taken for one of
its fragments; the scenarios with a faulty network keep the numbers of the two runs
apart, as a sender with random initial numbers mostly does, so that this does not happen
in the model.  With a faultless network the second run starts with every number there
is.

### OsdFacts, Telemetry, MCTelemetry, TelemetryProofs

`OsdFacts` is the publishing of facts from any thread under `instance_mutex_`, the
OSD thread's wait and drain, the matching of facts to widgets, and `start()` and
`stop()` of the service.  `Telemetry` adds the client of `wfbcli.cpp`: connect and
reconnect, a prefix and a body read with `recv()` calls that return any part of it,
the test of the signal before each message and the `recv()` that does not see it (two
steps, `Receives` and `ReadsPrefix`), links with an empty id, which are published and
remembered and for which the clears return at once (`wfbcli.cpp:56`, `134`), the sets of antennas and ids seen, `clear_osd_wfbcli()` by the client and, without a
lock, by the main loop; and main's exit from the signal to `OsdService::stop()`, with
a DVR worker that may outlive it.

### ModeSelection, DrmSetup, MCDrmSetup, DrmSetupProofs

`ModeSelection` has the choice of a mode, of a plane and of the video's place on the
screen.  `DrmSetup` is the life of an output: opening the card, trying connectors in
turn, buffers, planes, the writeback connector with its pool, the modeset with its
fallback, frames, and the way back through `restore_planes_zpos()` and the clean-up.
`drmModeGetCrtc()` that fails is not noticed, and `saved_crtc` is then null: the process
ends in `cleanup_drm()`.  While the display runs `init_buffer()` may be called again, for
another resolution, and replaces the decoder's buffer group with its handles,
framebuffers and descriptors; `restart_mpi()` drops the group through `cleanup_mpi()`,
which leaves its descriptors open.  A frame may be handed over and not yet shown when
its group goes.  One name of `frames` stands for the `MAX_FRAMES` frames of a group.
Every kernel call may fail, `MaxFailures` times in a behaviour; `live` is what the
program holds.  A request keeps what was put in it until it is freed; it is a function
of the properties of interest, with `Unset` for those it says nothing of.

### TsWriter, TsWriterProofs

The recording's file: `emit_psi()`, `emit_pes()`, `mux_access_unit()`, `write_nal()`
and the syncs, with `next_frame_duration()` as its clock.  A packet knows which
octets of which unit it carries, where they were copied to and what its adaptation
field says of that: the packets of a unit are given in closed form (`PesPackets`
many, the k-th from `Start(k)`, each with the `Room` its adaptation field leaves),
which is what the loop of `emit_pes()` computes.

`write_block()` is a buffered `fwrite()`, so that a unit whose `write_nal()` returned true
may not have left the process.  `file` is what is on storage and, after it, what is in
the buffer; where between the two a packet is, is known only of those in `synced`, on
storage since a flush.  A failing `fwrite()` or `fflush()` throws the buffer away, as the
C libraries do: what is left is what was synced and any part of the rest, cut anywhere,
and every unit that was not synced may have lost octets (`Remains`, `Lost`).  When only
the `fdatasync()` fails all packets are left; what the device then does with them is
beyond the model.  A run cuts after at most `MaxCut` packets more than were synced, or
before or after the last; the proofs hold for every `MaxCut`, hence for every cut.  Whether a unit is a keyframe is an input here; the first of a file
is one, as `Dvr` shows (`OpensOnKeyframe`).

### BitFields, RtcpFormats, TccFeedback, Feedback, MCFormats

`BitFields` has numbers and buffers as sets of bits, so that a field's shift and mask
are what they are in the code.  `RtcpFormats` has the feedback messages and extended
report blocks that librtp can both write and read, `TccFeedback` transport-wide
congestion control, whose chunks are chosen by looking ahead, and `Feedback` a
message on its way from one librtp to another.  Nothing in the program sends
feedback yet; this is what the library offers it.  A `tcc01` message has at most
`RUN_MAX` reports: the length of a run is ORed into 13 bits without a limit
(`rtcp-rtpfb.c:726`), and a longer one would spill into the symbol.  `MCFormats` checks both formats
in one run: a file is written while there is no message.

## 4. Runs

| Run | Checks | Bounds |
|---|---|---|
| `dvr_control` | `QueueBytesExact`, `DoneMeansClosed`, `StateAgrees`, `DisabledLatch` | all faults |
| `dvr_files` | `SegmentContiguous`, `SegmentSingleSession` | no faults, three access units, queue of one, two commands, two sessions |
| `dvr_live` | `ShutdownCompletes`, `DisabledStops`, `StallDetected` | all faults, caps of one; fair but for the worker |
| `encoder_writeback` | `SlotsOwned`, `PoolSuffices`, `PtsPaired`, `KeyframeOwed`, `GivesUpForGood` | four slots, queue of one, four frames, one control task |
| `encoder_tap` | `SessionFitsFrame`, `JoinReturns` | three frames, queue of two, three control tasks, two geometries; fair encoder thread |
| `display_handoff` | `NoSleepOnWork`, `ResourcesAlive`, `FramesInOrder`, `ExitRestoresDisplay` | all faults, cap of one, two frames, two changes, storage that may hang; fair but for the worker |
| `stream_session` | `ChangeNotLost`, `DataFitsDecoder`, `PacketExclusive`, `LossReported`, `SessionEnds` | five datagrams of which two confirm a change, timeout of two; fair |
| `rtp_link` | `MemoryExact`, `ReportSound`, `RestartRecovers`, `HandsOverUnits` | 6-bit sequence numbers, two codecs; four pairs of starting numbers with two faults or RTCP packets, and two first numbers with all 64 second ones without faults |
| `telemetry` | `PublishersSafe`, `WholeMessages`, `LossClears`, `ExitCompletes` | six scripts of up to two connections of up to two messages, some of a link without an id; one lost stream, one fact of the worker; fair |
| `drm_setup` | `ReleasedOnce`, `CommitsLive`, `WritebackWhole` | seven displays, four failing calls, three writeback buffers, three buffer groups |
| `drm_fallback` | `DisplayPreserved`, an expected violation, section 6 | one display |
| `formats` | `FileReadsBack`, `TablesLead`, `TimelineTracks`, `FeedbackReadsBack` | three units of four lengths and four steps of pts, one failing write or flush at any of them (two when they lose nothing), a clock of 13 bits; every feedback format, every field bit by bit, one and two items, three sizes of the buffer; up to three runs of 1 to 15 reports |

Bounds.  The caps of the code (`MAX_QUEUE_BYTES`, `MAX_OPEN_ATTEMPTS`,
`MAX_INIT_ATTEMPTS`, ...) are constants set to 1 or 2, so that each is reached
within a few steps and the step after it is explored.  `MaxAUs`, `MaxFrames`,
`MaxCommands`, `MaxEvents` cap what the environment does.  Two commands are
enough for a start and whatever ends or restarts it, two sessions for a rotation,
three access units for a hole between two others; four frames are one submitted,
one in hand, one queued and the one that needs a slot.  The pool of four with a
queue of one is the code's six with a queue of three: both are
`MAX_PENDING_FRAMES + 3`.  `SlotSymmetry` is sound because slots are only
compared for equality.

In `rtp_link` the window constants are scaled down with the numbers
(`RTP_SEQMOD` 64 for 2^16, `RTP_DROPOUT` 7, `RTP_MISORDER` 6, `RTP_SEQUENTIAL` 2,
`MAX_PACKET` 20), which keeps their order, that of the packets saved in a restart too:
`RTP_SEQUENTIAL` < 2 * `RTP_SEQUENTIAL` + 1 < `RTP_MISORDER` < `RTP_DROPOUT` <
`MAX_PACKET`.  The constants of the members, 3 and 2, keep their own order.  A stream
of a dozen packets can cross the wrap, leave the window and restart: the runs that start
at 61 wrap when their member has left its probation, and a second run at 58 jumps and
wraps later.  Two faults are a loss and a late packet, or a duplicate of a late one.

`RestartRecovers` has to say how many packets of a restarted sender are lost.  Mostly
it is the saved ones (`RTP_SEQUENTIAL`, twice at a wrap); but numbers that begin, or
after the saved ones run, into the `RTP_MISORDER` below the expected one are dropped as
too late (`rtp-queue.c:238-242`), and then every packet is until the expected number
comes, in the code up to 299 and the saved ones (`Recovery`).  `Numbers` has every
second number, so that every such distance is met.

The buffer groups of `drm_setup` bound the calls of `init_buffer()`: three are a first
one, a change and a change after a restart.  In `formats` a call fails only while no unit
of the file is lost, which is once for most behaviours; its lengths
are one octet, exactly one packet with none and with one octet to spare, and
enough packets to take the 4-bit continuity counter past its end; the steps of pts
are a frame, more than a table interval, more than the longest frame, and backwards.
`TIMESTAMPS` is 2^13 for the code's 2^33, so that the clock in the packets wraps.
Packing is made of shifts and unions, so that a format that is right for one bit at a
time and for all ones is right; runs of 6, 7, 8, 14 and 15 reports are the sizes at
which `tcc01` changes its chunks.

Fairness.  The encoder thread is fair: none of its waits is unbounded
(`WB_FENCE_TIMEOUT_MS`, `FLUSH_DEADLINE_MS`), and its queue is a FIFO, hence strong
fairness for each queued task in `Dvr`, where the queue shows only the recorder's
tasks.  A caller inside a call returns from it.  The worker is not
assumed fair: `StallDetected` is about a storage call that never returns, and the two
other properties of `dvr_live` have `StorageReturns` as their premise.  In
`display_handoff` the FRAME, display, OSD, main and encoder threads keep
running: their waits are timed, are on a mutex held briefly, or are the joins and
the wait on `video_cond`, whose end is what the property is about.  Neither spurious
wake-ups nor signals, frames or datagrams are owed; the worker is owed nothing when
storage hangs.  In `stream_session` both threads run and time passes.  In `telemetry` the threads run.  Nothing is assumed of the
server: the client's `recv()` has no timeout, and a server that stays silent with the
connection open holds the client, and main's join of it (`main.cpp:1094`), for ever; this
is the alternative `[]Silence` in `ExitCompletes`.  Nothing else is assumed of the environment.

`ExitRestoresDisplay` holds because the OSD thread signals `video_cond`
periodically, with the OSD disabled too, and is stopped after the display thread
was joined: main's own wake-up may come before the display thread waits.  It allows for
a FRAME thread that fails an assertion and ends the process with the display as it is.

`LossClears` is about a lost connection that is not re-established at the first
attempt, because only then `clear_osd_wfbcli()` is called, about the keys it
lists, and about widgets that no link without an id can reach (`Owned`); when main's own
clear met the client at work (`raced`) nothing is claimed.  `WholeMessages` has `~short` as its premise: a prefix of which `recv()`
returns only a part (`wfbcli.cpp:482`) shifts the framing, see section 6.
`TablesLead` allows for the tables that a failing write or flush took with it.
`ReleasedOnce` names what attempts on other connectors leave behind, and the frames'
descriptors that `cleanup_mpi()` does not close.  `CommitsLive` names the one commit of a
removed framebuffer there is, of a frame that a change overtook: the kernel refuses it,
and it must not come again.

Each property of a passing run has a mutant of a mapped definition (marked
`MUTANT` or `Altered` in the modules) that breaks it.

## 5. Proofs

`DvrProofs` proves, for all values of the constants allowed by `DvrAssumption`,
`Spec => []IInv` and from it `TypeOK`, `DisabledLatch`, `DoneMeansClosed`,
`StateAgrees` (its parts are `OpenFileOwned`, `RecordingIsArmed` and
`FactMatchesArmed`) and `OpensOnKeyframe`.

None of these is inductive alone.  The three facts about a waiting worker talk
about one step of its loop, so `IInv` says for every other step which obligation
is still in progress: `OpenCovered`/`OpeningCovered` (a file is open outside an
armed recording only on the way to `Finalize` or with `stalled` set),
`RecordingCovered` (the exchange that takes `Recording` back is still to come),
`FactCovered`/`FactFollows` (the publication still to come; a `start()` that the watchdog
overtook between arming and publishing is on its way out with `stalled` set), `WatchdogCovered` and
`WatchdogLatched` (what the watchdog has done at each of its steps), `ReturnsOut`,
`Failing` and `LimitsHold` (return addresses and counters), `FirstIsKey` (the rpc in
hand is a keyframe from the roll to the write) and `EmptyAtEnd` (no access unit
joins the queue once the worker is past `Clear`).  `IInv` was model-checked on the
bounds of `dvr_control` before it was proved.

`VideoEncoderProofs` proves, for every pool of slots and all values of the limits
and bounds allowed by `EncoderAssumption`, `Spec => []IInv` and from it every safety
property the encoder's runs check and two more: `TypeOK`, `SlotsOwned`, `PoolSuffices`,
`PtsPaired`, `SessionFitsFrame`, `KeyframeOwed`, `DoneMeansFree` and the action
property `GivesUpForGood`.  Why each part of `IInv` is there:

* `TaskInHand` and `NextFits` tie the encoder thread's step to the task it has in
  hand and to its return address; everything else uses them.
* `SlotsOwned` is nearly inductive.  It needs to know that the display thread holds
  nothing when it claims (`DisplayHolds`) and that the previous frame's slot was
  released when the next one is submitted (`PendingClear`).  The hard steps have
  lemmas of their own: `TaskTaken` follows every holder through the shift of the
  queue, `FramesDropped` shows that a wipe frees exactly the slots of the frames it
  drops.
* `FramesBelowLimit` (a queued frame is at a position within the limit, although
  control tasks are queued beyond it) bounds the holders for `PoolSuffices`: the
  owner of each slot is an injection of the pool into `MAX_PENDING_FRAMES + 2`
  holders.
* `StreamPaired` (`submitted_pts` is what MPP holds, and the counters differ by its
  length) gives `PtsPaired`, and that `FlushExtraPacket` never emits.
* `Joining` and `EndsLast` (no frame is queued once the main thread joins, and only
  then the encoder thread ends) give `DoneMeansFree`.
* `TapGeometry` gives `SessionFitsFrame`: no geometry change is queued behind a
  frame of an older geometry, because `set_video_params()` drops the frames.

This `IInv` was model-checked too, on the bounds of `encoder_writeback` and
`encoder_tap`, before it was proved.

`DisplayHandoffProofs` proves, for all values allowed by `HandoffAssumption`, every
safety property of `display_handoff`.  `CaptureBelowCap` (capture is on only below
the cap) makes the type invariant inductive.  An assertion that fails ends all threads
where they are, which disturbs none of the invariants.  `Numbered` orders the frames shown, in
hand, and posted, which gives `FramesInOrder`.  `JoinOrder` says for every step of the
exit which threads are gone, from which `DecoderOwned`, `PrimitivesAlive` and
`DeletedLast`, the parts of `ResourcesAlive`, follow.

The first part of `ReceiverProofs` proves the safety properties of `stream_session` for every set of
codecs: `NoThread` (when no receiver thread runs), `ThreadFitsDecoder` (what a
thread works with was made for it) and `ResumeReady` (the new decoder waits for the
thread's start) are the strengthening.

About the files of the recorder `DvrProofs` has a second invariant on top of `IInv`,
`FileInv`, and from it `QueueBytesExact`, `SegmentSingleSession` and
`SegmentContiguous`.  `QueueBytesExact` is inductive with the lemmas on `Total`.  The
two others speak of the open file, and what they need is in the queue:

* `FileHeld` says at which of the worker's steps a file may be open, and that none
  is open outside an armed recording but on the way to closing it;
* `Parting` follows the boundaries between encoder sessions through the queue: an
  `RPC_ROTATE` stands before any access unit of another session than the one before
  it, and before what the encoder will emit if its session has changed, as long as
  the file may still be written;
* `Chain` says that the numbers queued increase and, while `NoneMissing` (the recording
  is armed and nothing was dropped that the worker would not notice before its next
  write), that the successor of every access unit queued, in hand or last muxed is
  behind it in the queue, unless it was not yet emitted.

Each has a lemma for a task that joins the queue, one that is taken from it and a wipe
(`PartedAppend`, `PartedTail`, `PartedWipe`, `ChainAppend`, `ChainTail`).

`TelemetryProofs` proves `PublishersSafe` for any set of publishers and
`WholeMessages` for any messages on any number of connections.  `PubInv` adds to the
first who may hold `instance_mutex_` while `stop()` moves the service out (`Taken`)
and that the client begins nothing new while it handles a message (`OneBatch`).  `StreamInv` gives every byte its
place in the stream: the wire continues where the client has read to
(`WireContinues`), and what it has read of the message in hand is its beginning
(`BodySoFar`); a client between connections is excepted, and `Connects` starts afresh.

On top of these `LossInv` gives `LossClears`, for any messages, antennas and widgets.
The property speaks of a moment when nothing is under way; the invariant has to follow
each fact from the batch of its publisher through the queue to the widget, and does so
with `Due`, what the widgets show once the queue is drained:

* `BatchesKnown` says what each publisher may have in its batch, and `DvrShown` what
  the recorder's widget may show at all;
* unless main's clear met the client at work (`Apart`), `HeldCovered` says that whatever
  a widget shows, or the client is about to publish for it, is something a later clear
  reaches through the sets of ids and antennas seen; `Remembered` that a link and its
  antennas join those sets before they are published; `Walked` that during the walk
  what is still shown is being cleared or still to be walked; `QuietRx`, `QuietTx` and
  `QuietOff` that after the client's clear nothing is remembered and the title is gone or
  going; `LinksDown` that outside a connection no link is shown as up, unless the
  client is just publishing the contrary.

`AppliedJoin`, `AppliedValue` and `SetToSeqHolds` are the lemmas on the queue and on the
order in which sets are walked, which may be any.  `PlaceInv` is where the client and
main are in their loops.  Facts of a link with an empty id are never cleared, and so the
invariant is about the widgets that are `Owned`.  `LossesClear` has one hypothesis: no
widget selects `drone.connected` by its tag (section 6).

`TsWriterProofs` proves the three properties of the recording's format under `TsSpec`,
the writer alone, for units of any length, any steps of pts, any wrap of the clock
and any number of failing writes and flushes.  `ClockInv` ties `segment_video_ticks`, the file's own clock
and the latest capture time; it shows that the default duration of
`next_frame_duration()` (`90000 / nominal_fps`) is never used, because the first frame
always has a duration of one tick.  `InOrder`, `Follows`, `AllStored`, `Counted` and
`CounterGoesOn` are about the packets of a file and its units: of which unit each is, that
it takes up where the one before ended, that all packets of a unit that is not lost are
there, and what the counters are.  They are stated of any packets and units, because a
step goes in two: the unit is added to what stdio was given, which keeps them
(`OrderWrite`, `CountWrite`, `StoredWrite`, `TablesWrite`), and a call that fails leaves
a part of that and marks the units that were not synced (`PartKept`, from `PartLeft` and
`LostSpoils`).  `Sync` says that the packets of the units up to `synced.units` are among
the first `synced.packets`, which is why the part that is left has them all.  That these packets are the ones a reader joins
(`JoinsItsOwn`) takes an induction along the file.  `LatestTables` strengthens
`TablesLead` with the tables the next unit would rely on.

`DrmSetupProofs` proves the properties of `drm_setup` for every display, any number of
writeback buffers and buffer groups and any number of failing calls.  `LiveInv` says
exactly what is held of the output worked on at every step (`Expected`), but for the
saved CRTC, which may be missing, and the decoder's frames, and what attempts on others
may have left; each action then releases only what is expected and makes what is
expected after it (`StepHolds`, `GoesOn`, `GivesUp`).  `FlagInv` ties the flags of
writeback to the steps and to one another, and `RequestInv` says that a request that
will be used again names nothing that is gone.  `GroupInv` says what is held of the
frames: all of the current group, and of those before it at most descriptors; no name
of a group comes again.  `StaleInv` says that the removed framebuffers that commits
have named are frames of such groups, and that the frame handed over is none of them.
`CommitsLive` needs them all: that the buffer of a writeback job exists follows from `dvr_wb_mode` through `wb_enabled`
and `wb_bufs_ready`.

The second part of `ReceiverProofs` is about `RtpLink`, for every set of scenarios, any
modulus of the sequence numbers, any set of SSRCs and any limits of the queue and of the
members:

* A member: `Counted` ties the counters of `rtp_seq_update()` to the numbers received.
  The highest number moves on only with a packet that is counted, so that of what was
  expected since the last report some packet has come; this is why the fraction lost,
  in 256ths, cannot reach 256 (`FractionFits`).  `ReportsSound` follows.
* A session: `SessionOK` says that the lists have no one twice, that who sends is a
  member, and that a member's references are its lists and, for the session itself, one
  more.  Every input (RTP, SR, RR, SDES, BYE) keeps it, and `rtp_destroy()`, which
  releases the members, the senders and itself in turn, ends with no reference left:
  `Left` counts what it has still to give back after each release.
  `ReferencesCounted` follows, with the bounds of the arrays of the queue.
* The queue: `Kept` says of each call of `rtp_queue_write()` that a packet is in the
  queue, saved, freed, or left to its caller, if there is room (`InsertOK`, `ResyncOK`,
  `ProbationOK`, `BadOK`, put together in `WriteOK`); `FindPosition` that the binary
  search ends at a place of the queue.  `Drained` says the same of the demuxer's loop.
* `LinkInv` puts these together; `HeapInv` is the accounting of packet buffers.
  `MemoryAccounted` proves it of every behaviour in which the queue has `Room`, and
  `MemoryOfStreams` removes the condition when `MAX_PACKET` is larger than what is
  sent and doubled (`StreamsFit`, true in `rtp_link`): `FlowInv` bounds the packets queued
  and under way by those sent and doubled.

That a recursive function is what its equation says has to be shown before anything
else: `LoopExists` and `StagesExist` construct the function turn by turn, and
`FragmentsSeq` does the same for the packers' loop, which ends because every turn takes
something off the unit.  TLC finds `StreamsFit`, `Room` and the
bound of `FlowInv` true on the bounds of `rtp_link`, where they were tried first.

The assumptions on the constants are what the code has: lengths are positive
(`DvrAssumption`, `TsAssumption`), the name for an unlocked mutex is not a thread
(`OsdAssumption`), the client, main and the recorder publish and messages have the
fields `process_packet()` reads, with antennas that are finitely many
(`TelemetryAssumption`), the window of the queue and the probations are not empty
(`QueueAssumption`, `MemberAssumption`), a packet is larger than its headers and the
sender's two runs have an SSRC each (`LinkAssumption`), there is at least one
writeback buffer, its name is none of the other buffers', and the names of the buffer
groups are all different and no others' (`DrmAssumption`).

The library's induction theorems take a predicate and cannot be used.  Where a proof
needs induction it goes by sets: the least number outside a set of numbers
(`NatSetInduction`, `LeastNumber`), from the well-foundedness of `<`.

Only model-checked: liveness (`ShutdownCompletes`, `DisabledStops`, `StallDetected`,
`JoinReturns`, `ExitRestoresDisplay`, `LossReported`, `SessionEnds`, `ExitCompletes`),
which the prover does not do; the refinement of `NalChannel` (`HandsOverUnits`), which
is false for streams long enough for numbers to come back; `RestartRecovers`, which
speaks of one concrete stream; and `FeedbackReadsBack`, about formats that are folds over
bits.

## 6. Where comments and code disagree

* `drm_fallback` (`main.cpp:245-255`): after a modeset that fails with writeback
  attached, `init_buffer()` detaches it and tries again with the same request, which
  still routes the writeback connector.  A kernel that refuses one refuses the other,
  and the assertion fails, though the message says "(display preserved)".

Stated in the modules, and violated when a configuration names them, but not the
subject of a run:

* `GateTracksConsumers` (`video_encoder.h:43`): the gate may keep an outdated value,
  recomputed by two threads at once (`video_encoder.cpp:98`).  It stays so until the
  next recomputation.
* `StartsDecodable` (`dvr.h:129`): a recording restarted at once consumes access
  units queued for the previous one (`dvr.cpp:631`).
* `InFlightSlotHeld` (`video_encoder.cpp:388-390`): the drain before a slot's release
  does not wait for MPP.
* `OutputListProtected` (the repository's `README.md:205-209`): the display thread
  replaces `video_request` outside `video_mutex` (`main.cpp:413`), while
  `init_buffer()` may be using it (`main.cpp:245`).
* `RotationLosesNothing` (`dvr.cpp:324-326`): non-keyframes between a request to roll
  and the keyframe are dropped, though the comment says the old file is still
  written.
* `SegmentDecodable` (`dvr.cpp:324-325`): a file whose opening keyframe could not be
  written continues.
* `ProducersStopped` (`main.cpp:1135`): after a timed-out join the worker, which
  publishes facts, is still running when the OSD service is stopped.  `publishFact()`
  finds the service gone under its mutex, so nothing is touched.
* `LossIsReal` (`main.cpp:886`): the main loop reads clock, time stamp and presence
  one after the other, and declares a loss when an access unit arrives in between.

* `main.cpp:635` ("10 ms timeout for input/output operations for catch signals") sets a
  timeout on the decoder's output so that the FRAME thread gets back to its loop, and the
  thread asserts that `decode_get_frame()` returned no error (`main.cpp:309`) and a frame
  (`main.cpp:368`): a decoder that has nothing for 10 ms ends the process
  (`FrameTimeout`).  `ExitRestoresDisplay` without its second alternative does not hold.

Feedback formats whose reader and writer do not agree (`Disagreeing` in `Feedback`;
`FeedbackReadsBack` is violated when one of them is taken out of the set):

* LRR: the three words are written over each other (`lib/librtp/source/rtcp-psfb.c:464-466`).
* RPSI: the reader's bit length includes the two octets of the head (`rtcp-psfb.c:112`).
* XR ECN summary: read four octets too early (`rtcp-xr.c:531`); the test at
  `rtcp-xr.c:749` that would show it is commented out (`rtcp-xr.c:766`).
* CCFB: the reader starts at the media SSRC and the writer after it; every report is
  written with the first one's offset, and an odd number of them is not padded.

Also in librtp: the writer of SLI repeats the first item (`rtcp-psfb.c:94`), so that
the model sends one at a time; the loop of `rtcp_xr_unpack()` never moves on and
hands over the first block for ever; a format that fails still yields a packet of the
head alone.

Without a property:

* `video_encoder.h:22` says `pp_wb_release()` is called from the encoder and nowhere
  else, and the display thread clears `wb_busy` directly (`main.cpp:454`,
  `main.cpp:489`), which `SlotsOwned` shows to be harmless; `dvr_common.h:8` says
  `dvr_state` is written on the encoder thread, and it is the worker that does.
* `drm.h:3` speaks of two different planes, and `modeset_find_plane()` may choose the
  same one for video and OSD when one plane has both formats.
* `assert(drm_fd >= 0)` cannot fail, because a failed `modeset_open()` leaves 0; the
  next call finds it out.
* A connector that cannot be used leaves the saved CRTC, and the video plane's
  properties or the first OSD buffer if the next step failed (`ReleasedOnce`).
* `process_rx()` publishes `drone.connected` with the tag of its link, and the loss of
  the connection clears it without one: a widget that selects `drone.connected` by that
  tag would keep its last value.  None of the shipped widgets does; it is the
  hypothesis of `LossesClear`.
* `clear_wfbcli_rx_link_facts()` and `clear_wfbcli_tx_link_facts()` return at once for an
  empty id (`wfbcli.cpp:56-63`, `134-141`), while `process_rx()` and `process_tx()` publish
  what such a link says: it stays on the OSD (`Owned` in `Telemetry`).
* `saved_crtc` is null when `drmModeGetCrtc()` failed (`drm.c:173`, `202`), and is
  dereferenced at the exit (`main.cpp:763`).
* `cleanup_mpi()` does not close the frames' descriptors (`main.cpp:658-668`), as
  `init_buffer()` does (`main.cpp:166-169`): every codec restart leaves them open.
* A resolution change or a restart removes framebuffers of which one may be handed over
  and not yet committed; the kernel refuses that commit (`CommitsLive`).
* A body that follows a prefix of which only a part was read is misframed
  (`wfbcli.cpp:482`), and a message that is not a map ends the process.
* `psi_pending_` is cleared before the write's outcome is known, so that for less
  than 100 ms after a failing write or flush a file may be without tables (`TablesLead`).
* The comment at `ts_writer.cpp:105` says a short write can only truncate the tail; the
  tail is all that the stdio buffer held, units among it whose `write_nal()` had returned
  true (`FileReadsBack`).
* An H264 fragment too short for its header, or beyond `RTP_PAYLOAD_MAX_SIZE`, is refused
  (`lib/librtp/payload/rtp-h264-unpack.c:243`, `244`) after its sequence number was noted,
  so that the unit is handed over without that part; an H265 aggregate with a wrong
  length in it fails an assertion in front of its error return
  (`lib/librtp/payload/rtp-h265-unpack.c:114`), which ends the program.  The model's
  network damages no fragments, and its H265 unpacker returns the error.
* A resync of the RTP queue ignores the result of putting back the saved packets; one
  that finds no room is then in no list and never freed.  `MAX_PACKET` (3000) is far from
  reached; it is the only way to lose a buffer (`MemoryAccounted`, with `Room`).  `(seq + 1) % (RTP_SEQMOD - 1)` at
  `rtp-queue.c:269` loses a few packets more at a wrap (`Recovery`).
* The detector's callback returns 1 to stop the demuxer
  (`rtp_codec_detector.cpp`), which goes on with the packets it has.

## 7. Not modelled

Picture data, rate control, strides, drawing, configuration and option parsing
(`config/`, `lib/inih`), the socket wrapper, the restreamer's sends, file names
(`generate_filename()`, a directory scan) and the storage guard's arithmetic: pure
I/O or parsing, done once or without shared state.

Of the TS writer: the bits of time stamps, the contents and CRC of the tables, and the
search for a keyframe in a unit.

Of librtp: payload formats other than H264 and H265, which the program does not use;
RTCP timing, jitter and clock computations; DBI, which is only read, SRREQ, RAMS and
ROI, which deliver nothing; the run length and receipt time blocks of extended
reports, which are only read.  `tcc01` is modelled with a buffer that is large enough
and numbers that do not wrap within a message.

Of the DRM layer: failing allocations of libdrm's requests.

Memory is treated as
sequentially consistent.  Most shared flags are atomics; `signal_flag`, `frm_eos` and
`dvr_wb_mode` are plain variables, read again on each turn of loops that call into
other translation units, so that a build reads their current value.

Three hazards are noted in `PROJECT.json` without a property or a statement: an end of
stream fed for a codec restart can end the FRAME and display threads for good
(`main.cpp:365`; the behaviour is in `DisplayHandoff`, and no comment says otherwise);
the feed of the end of stream has no bound (`main.cpp:867`), and a frame queued in
decode-tap mode is a buffer the decoder may recycle (`video_encoder.cpp:14`), which
both depend on the MPP library.
