---------------------------- MODULE VideoEncoder ----------------------------
(***************************************************************************)
(* The encoder thread of src/src/encoder/video_encoder.cpp with the MPP    *)
(* session it drives (mpp_encoder.cpp), and the threads that feed it: the  *)
(* display thread that claims writeback slots, the FRAME thread that taps  *)
(* decoded frames, and the main thread's restart() and shutdown().  Every  *)
(* step ends at an access to state another thread shares: wb_busy, queue_, *)
(* wants_frames_ and idr_requested; what lies between two such accesses is *)
(* one step.                                                               *)
(*                                                                         *)
(* Data is abstracted: a frame is its number, which is also its pts, the   *)
(* writeback slot it occupies and its geometry (a number, 0 if unknown).   *)
(* Which consumers are active, hence the value of the gate wants_frames_,  *)
(* is decided in Dvr and is an input here.  MPP is external: it encodes    *)
(* the frames it was given in order, one packet each, at its own pace.     *)
(***************************************************************************)
EXTENDS Integers, Sequences, FiniteSets, SeqFilter

CONSTANTS
  Writeback,              \* captures_writeback(): the capture mode
  Slots,                  \* the writeback buffers, WB_BUF_COUNT of them
  NoSlot,                 \* index -1
  MAX_PENDING_FRAMES,     \* queue length at which frames are dropped
  MAX_INIT_ATTEMPTS,      \* failed setups before the encoder gives up
  MAX_FRAME_ERROR_STREAK, \* lost frames in a row before consumers are told
  WB_COMMIT_FAILS,        \* failed commits before writeback is given up
  Geometries,             \* geometries the video may have
  MaxFrames,              \* bound: frames captured
  MaxEvents               \* bound: geometry changes, restarts and posts

ASSUME EncoderAssumption ==
  /\ Writeback \in BOOLEAN
  /\ IsFiniteSet(Slots) /\ NoSlot \notin Slots
  /\ MAX_PENDING_FRAMES \in Nat /\ MAX_INIT_ATTEMPTS \in Nat \ {0}
  /\ MAX_FRAME_ERROR_STREAK \in Nat \ {0} /\ WB_COMMIT_FAILS \in Nat \ {0}
  /\ Geometries \subseteq Nat \ {0}
  /\ MaxFrames \in Nat /\ MaxEvents \in Nat

VARIABLES
  wb_busy,            \* the slots whose wb_busy is set
  queue,              \* queue_ of tasks
  wants_frames,       \* wants_frames_: the capture gate
  idr_requested,      \* idr_requested
  dpc,                \* display thread: run, claimed or gone
  wb_idx,             \* display thread: the slot it claimed
  dvr_wb_mode,        \* writeback capture is still on
  wb_commit_fails,    \* display thread: failed commits in a row
  frm_geo,            \* FRAME thread: geometry of the decoded video
  main,               \* main thread: run or joining
  epc,                \* encoder thread: the step it is at
  task,               \* encoder thread: the task in hand
  next,               \* encoder thread: what follows the drain or teardown()
  ready,              \* encoder.ready(): an MPP session exists
  cur_geo,            \* geometry of the session
  video_geo,          \* video_frm_width x video_frm_height
  geometry_dirty,     \* rebuild before the next submit
  init_attempts,      \* failed setups in a row
  frame_error_streak, \* frames lost in a row
  wb_pending_index,   \* the submitted slot that was not released yet
  submitted_pts,      \* pts of the frames submitted and not emitted
  frames_submitted, frames_emitted,
  last_pts,           \* last_emitted_pts_ms
  mpp,                \* MPP: the frames it has not returned, oldest first
  mpp_idr,            \* MPP: its next frame is to be an IDR
  last_au,            \* history: number and pts of the last access unit emitted
  owed,               \* history: a keyframe asked for was not submitted yet
  captured, events    \* what the bounds count

display == <<dpc, wb_idx, dvr_wb_mode, wb_commit_fails>>
outside == <<display, frm_geo, main, captured, events>>
stream == <<submitted_pts, frames_submitted, frames_emitted, last_pts, mpp, last_au>>
setup == <<ready, cur_geo, video_geo, geometry_dirty, init_attempts>>
hand == <<task, next, frame_error_streak, wb_pending_index>>
keys == <<idr_requested, mpp_idr, owed>>
encoder == <<epc, hand, setup, stream>>
vars == <<wb_busy, queue, wants_frames, keys, encoder, outside>>

-----------------------------------------------------------------------------
(* Types *)

AnySlot == Slots \cup {NoSlot}
Frame == [kind : {"FRAME"}, n : Nat, slot : AnySlot, geo : Nat]
Task == Frame \cup [kind : {"POST", "RESTART", "SHUTDOWN"}]
              \cup [kind : {"PARAMS"}, geo : Nat]
NoTask == [kind |-> "NONE"]

EncoderStep ==
  {"loop", "frame", "fence", "drain", "import", "idr", "idr_store", "submit", "after",
   "teardown", "flush", "release", "cleanup", "init", "done"}

IsFrame(t) == t.kind = "FRAME"
FramePositions(q) == {i \in 1..Len(q) : IsFrame(q[i])}
Slot(t) == IF IsFrame(t) THEN t.slot ELSE NoSlot

\* The state before the threads start; the gate depends on the restreamer.
Init ==
  /\ wb_busy = {} /\ queue = <<>> /\ wants_frames \in BOOLEAN
  /\ idr_requested = TRUE /\ mpp_idr = FALSE /\ owed = FALSE
  /\ dpc = "run" /\ wb_idx = NoSlot /\ dvr_wb_mode = Writeback /\ wb_commit_fails = 0
  /\ frm_geo = 0 /\ main = "run" /\ epc = "loop" /\ task = NoTask /\ next = "loop"
  /\ ready = FALSE /\ cur_geo = 0 /\ video_geo = 0 /\ geometry_dirty = TRUE
  /\ init_attempts = 0 /\ frame_error_streak = 0 /\ wb_pending_index = NoSlot
  /\ submitted_pts = <<>> /\ frames_submitted = 0 /\ frames_emitted = 0
  /\ last_pts = 0 /\ mpp = <<>> /\ last_au = [n |-> 0, pts |-> 0]
  /\ captured = 0 /\ events = 0

-----------------------------------------------------------------------------
(* Display thread: writeback capture *)

\* pp_wb_release(): the slot may be claimed again; no effect on index -1.
pp_wb_release(slot) == wb_busy' = wb_busy \ {slot}

\* MUTANT: one frame too many is queued.
QueueOverfull == Len(queue) > MAX_PENDING_FRAMES

QueueFull == Len(queue) >= MAX_PENDING_FRAMES

wants_capture == dpc = "run" /\ dvr_wb_mode /\ wants_frames

\* A new frame to show: claim a free slot.  A slot freed behind the scan's back
\* is passed over, so it need not be the first free one.
DisplayClaim ==
  /\ wants_capture /\ captured < MaxFrames /\ captured' = captured + 1
  /\ \E slot \in Slots \ wb_busy : wb_idx' = slot /\ wb_busy' = wb_busy \cup {slot}
  /\ dpc' = "claimed"
  /\ UNCHANGED <<queue, wants_frames, keys, encoder, dvr_wb_mode, wb_commit_fails,
                 frm_geo, main, events>>

\* MUTANT: a frame dropped on a full queue keeps its slot.
DropKeepsSlot(slot) == UNCHANGED wb_busy

DropReleasesSlot(slot) == pp_wb_release(slot)

\* The commit succeeded: writeback_frame() queues the frame or drops it.
writeback_frame ==
  /\ dpc = "claimed" /\ dpc' = "run"
  /\ IF QueueFull
     THEN DropReleasesSlot(wb_idx) /\ UNCHANGED queue
     ELSE /\ queue' = Append(queue, [kind |-> "FRAME", n |-> captured, slot |-> wb_idx,
                                     geo |-> 0])
          /\ UNCHANGED wb_busy
  /\ wb_idx' = NoSlot /\ wb_commit_fails' = 0
  /\ UNCHANGED <<wants_frames, keys, encoder, dvr_wb_mode, frm_geo, main, captured, events>>

\* Arming the writeback failed: the slot is given back.
DisplayArmFails ==
  /\ dpc = "claimed" /\ dpc' = "run"
  /\ pp_wb_release(wb_idx) /\ wb_idx' = NoSlot
  /\ UNCHANGED <<queue, wants_frames, keys, encoder, dvr_wb_mode, wb_commit_fails, frm_geo,
                 main, captured, events>>

\* The commit failed: the same, and after too many of them writeback is given up.
DisplayCommitFails ==
  /\ dpc = "claimed" /\ dpc' = "run"
  /\ pp_wb_release(wb_idx) /\ wb_idx' = NoSlot
  /\ wb_commit_fails' = wb_commit_fails + 1
  /\ dvr_wb_mode' = (dvr_wb_mode /\ wb_commit_fails' < WB_COMMIT_FAILS)
  /\ UNCHANGED <<queue, wants_frames, keys, encoder, frm_geo, main, captured, events>>

\* The loop ends on frm_eos or a signal.
DisplayExit ==
  /\ dpc = "run" /\ dpc' = "gone"
  /\ UNCHANGED <<wb_busy, queue, wants_frames, keys, encoder, wb_idx, dvr_wb_mode,
                 wb_commit_fails, frm_geo, main, captured, events>>

-----------------------------------------------------------------------------
(* FRAME thread, main thread and the consumers *)

\* drop_pending_frames(): the queued frames go, their slots are free again.
drop_pending_frames == Keep(queue, 1..Len(queue) \ FramePositions(queue))
SlotsOfPending == {queue[i].slot : i \in FramePositions(queue)}

\* enqueue(t, drop_frames = true)
EnqueueDropping(t) ==
  /\ queue' = Append(drop_pending_frames, t)
  /\ wb_busy' = wb_busy \ SlotsOfPending

Running == main = "run" /\ events < MaxEvents /\ events' = events + 1

\* init_buffer(): the decoder reports a new geometry.
set_video_params ==
  /\ Running
  /\ \E geo \in Geometries \ {frm_geo} :
       frm_geo' = geo /\ EnqueueDropping([kind |-> "PARAMS", geo |-> geo])
  /\ UNCHANGED <<wants_frames, keys, encoder, display, main, captured>>

\* init_buffer(): the modeset failed with writeback attached, which is given up.
DetachWriteback ==
  /\ main = "run" /\ dvr_wb_mode /\ dvr_wb_mode' = FALSE
  /\ UNCHANGED <<wb_busy, queue, wants_frames, keys, encoder, dpc, wb_idx,
                 wb_commit_fails, frm_geo, main, captured, events>>

\* frame(), the decode tap: queue the frame or drop it.
frame ==
  /\ ~Writeback /\ main = "run" /\ wants_frames /\ frm_geo # 0
  /\ captured < MaxFrames /\ captured' = captured + 1
  /\ queue' = IF QueueFull THEN queue
              ELSE Append(queue, [kind |-> "FRAME", n |-> captured', slot |-> NoSlot,
                                  geo |-> frm_geo])
  /\ UNCHANGED <<wb_busy, wants_frames, keys, encoder, display, frm_geo, main, events>>

\* restart_mpi() on a codec change.
restart ==
  /\ Running /\ EnqueueDropping([kind |-> "RESTART"])
  /\ UNCHANGED <<wants_frames, keys, encoder, display, frm_geo, main, captured>>

\* A consumer's control operation goes behind the queued frames.
post ==
  /\ Running /\ queue' = Append(queue, [kind |-> "POST"])
  /\ UNCHANGED <<wb_busy, wants_frames, keys, encoder, display, frm_geo, main, captured>>

\* A consumer opening a file.
request_keyframe ==
  /\ idr_requested' = TRUE /\ owed' = TRUE
  /\ UNCHANGED <<wb_busy, queue, wants_frames, mpp_idr, encoder, outside>>

\* recompute_wants_frames(), on whichever thread, for consumers in any state.
consumers_changed ==
  /\ wants_frames' \in BOOLEAN
  /\ UNCHANGED <<wb_busy, queue, keys, encoder, outside>>

\* The main thread joined the FRAME and the display thread.
shutdown ==
  /\ main = "run" /\ dpc = "gone" /\ main' = "joining"
  /\ EnqueueDropping([kind |-> "SHUTDOWN"])
  /\ UNCHANGED <<wants_frames, keys, encoder, display, frm_geo, captured, events>>

-----------------------------------------------------------------------------
(* Encoder thread: the loop *)

encoderOnly == <<queue, wants_frames, outside>>

\* teardown() begins; it returns to where.
Teardown(where) ==
  /\ next' = where /\ epc' = IF ready THEN "teardown" ELSE "release"

\* The next task off the queue.
Take ==
  /\ epc = "loop" /\ queue # <<>>
  /\ task' = Head(queue) /\ queue' = Tail(queue)
  /\ UNCHANGED <<wb_busy, wants_frames, keys, stream, outside, frame_error_streak,
                 wb_pending_index, ready, cur_geo, init_attempts>>

TakeFrame ==
  /\ Take /\ IsFrame(Head(queue)) /\ epc' = "frame"
  /\ UNCHANGED <<next, video_geo, geometry_dirty>>

\* A posted function that collects the tail of the stream: drain_pending().
TakePost ==
  /\ Take /\ Head(queue).kind = "POST"
  /\ epc' = (IF ready THEN "drain" ELSE "after") /\ next' = "after"
  /\ UNCHANGED <<video_geo, geometry_dirty>>

TakeRestart ==
  /\ Take /\ Head(queue).kind = "RESTART" /\ epc' = "after"
  /\ geometry_dirty' = TRUE /\ UNCHANGED <<next, video_geo>>

\* MUTANT: the new geometry does not rebuild the session.
NewGeometryKeepsSession == UNCHANGED geometry_dirty

NewGeometryRebuilds == geometry_dirty' = TRUE

TakeParams ==
  /\ Take /\ Head(queue).kind = "PARAMS" /\ epc' = "after"
  /\ IF Head(queue).geo = video_geo
     THEN UNCHANGED <<video_geo, geometry_dirty>>
     ELSE video_geo' = Head(queue).geo /\ NewGeometryRebuilds
  /\ UNCHANGED next

\* MUTANT: SHUTDOWN leaves the switch and not the loop.
ShutdownBreaks == epc' = "after" /\ UNCHANGED next

ShutdownEnds == Teardown("done")

TakeShutdown ==
  /\ Take /\ Head(queue).kind = "SHUTDOWN"
  /\ ShutdownEnds /\ UNCHANGED <<video_geo, geometry_dirty>>

\* Nobody wants frames any more: give the hardware encoder back.
After ==
  /\ epc = "after" /\ task' = NoTask
  /\ IF ~wants_frames /\ ready THEN Teardown("loop") ELSE epc' = "loop" /\ UNCHANGED next
  /\ UNCHANGED <<wb_busy, keys, encoderOnly, frame_error_streak, wb_pending_index, setup,
                 stream>>

-----------------------------------------------------------------------------
(* Encoder thread: ensure_encoder() *)

\* release_wb_frame() of the frame in hand, which goes no further.
release_wb_frame == pp_wb_release(Slot(task)) /\ task' = NoTask /\ epc' = "after"

\* MUTANT: one setup more than the cap.
AttemptsLeftOver == init_attempts <= MAX_INIT_ATTEMPTS

AttemptsLeft == init_attempts < MAX_INIT_ATTEMPTS

\* The gate is closed, or the encoder was given up.
FrameRefused ==
  /\ epc = "frame" /\ release_wb_frame
  /\ \/ ~wants_frames
     \/ wants_frames /\ (~ready \/ geometry_dirty) /\ ~AttemptsLeft
  /\ UNCHANGED <<keys, encoderOnly, next, frame_error_streak, wb_pending_index, setup, stream>>

FrameAccepted ==
  /\ epc = "frame" /\ wants_frames /\ ready /\ ~geometry_dirty
  /\ epc' = "fence"
  /\ UNCHANGED <<wb_busy, keys, encoderOnly, hand, setup, stream>>

\* No session, or one that must be rebuilt.
FrameRebuilds ==
  /\ epc = "frame" /\ wants_frames /\ (~ready \/ geometry_dirty) /\ AttemptsLeft
  /\ init_attempts' = init_attempts + 1 /\ Teardown("init")
  /\ UNCHANGED <<wb_busy, keys, encoderOnly, task, frame_error_streak, wb_pending_index,
                 ready, cur_geo, video_geo, geometry_dirty, stream>>

\* Whether the decode tap's geometry is known; a writeback frame's always is.
GeometryKnown == Writeback \/ video_geo # 0

\* init() succeeded: consumers are told of the new session.
InitOk ==
  /\ epc = "init" /\ GeometryKnown /\ epc' = "fence"
  /\ geometry_dirty' = FALSE /\ ready' = TRUE /\ init_attempts' = 0
  /\ cur_geo' = IF Writeback THEN 0 ELSE video_geo
  /\ idr_requested' = TRUE /\ owed' = TRUE
  /\ UNCHANGED <<wb_busy, mpp_idr, encoderOnly, hand, video_geo, stream>>

\* init() failed: consumers are told if this was the last attempt.
InitFails ==
  /\ epc = "init" /\ geometry_dirty' = FALSE /\ release_wb_frame
  /\ UNCHANGED <<keys, encoderOnly, next, frame_error_streak, wb_pending_index, ready,
                 cur_geo, video_geo, init_attempts, stream>>

-----------------------------------------------------------------------------
(* Encoder thread: encode() and encode_wb() *)

\* emit() of the access unit of frame n: its pts is the oldest submitted one.
emit(n) ==
  LET pts == IF submitted_pts # <<>> THEN Head(submitted_pts) ELSE last_pts
  IN  /\ submitted_pts' = IF submitted_pts # <<>> THEN Tail(submitted_pts) ELSE <<>>
      /\ last_pts' = pts /\ last_au' = [n |-> n, pts |-> pts]
      /\ frames_emitted' = frames_emitted + 1
      /\ UNCHANGED frames_submitted

\* The streak after one more lost frame; at the cap consumers are told and it restarts.
FrameLost ==
  frame_error_streak' = IF frame_error_streak + 1 >= MAX_FRAME_ERROR_STREAK THEN 0
                        ELSE frame_error_streak + 1

\* The capture fence signalled; a decode-tap frame has none.
FenceOk ==
  /\ epc = "fence" /\ epc' = "drain" /\ next' = "import"
  /\ UNCHANGED <<wb_busy, keys, encoderOnly, task, frame_error_streak, wb_pending_index,
                 setup, stream>>

FenceTimeout ==
  /\ epc = "fence" /\ Writeback /\ release_wb_frame /\ FrameLost
  /\ UNCHANGED <<keys, encoderOnly, next, wb_pending_index, setup, stream>>

\* drain_to_consumers(): a packet is ready.
DrainPacket ==
  /\ epc \in {"drain", "teardown"} /\ mpp # <<>>
  /\ emit(Head(mpp).n) /\ mpp' = Tail(mpp)
  /\ UNCHANGED <<wb_busy, keys, encoderOnly, epc, hand, setup>>

DrainReleases == pp_wb_release(wb_pending_index)

\* No packet is ready, with nothing left in MPP or not: for encode_wb() the slot
\* of the previous frame is released, and the new frame's turn comes.
DrainDone ==
  /\ epc = "drain" /\ epc' = next
  /\ IF next = "import" /\ Writeback
     THEN DrainReleases /\ wb_pending_index' = NoSlot
     ELSE UNCHANGED <<wb_busy, wb_pending_index>>
  /\ UNCHANGED <<keys, encoderOnly, task, next, frame_error_streak, setup, stream>>

ImportOk ==
  /\ epc = "import" /\ epc' = "idr"
  /\ UNCHANGED <<wb_busy, keys, encoderOnly, hand, setup, stream>>

ImportFails ==
  /\ epc = "import" /\ release_wb_frame /\ FrameLost
  /\ UNCHANGED <<keys, encoderOnly, next, wb_pending_index, setup, stream>>

\* maybe_request_idr(): ask MPP for an IDR if one was requested or is due.
IdrNeeded ==
  /\ epc = "idr" /\ epc' = "idr_store" /\ mpp_idr' = TRUE
  /\ UNCHANGED <<wb_busy, idr_requested, owed, encoderOnly, hand, setup, stream>>

\* MUTANT: the request is cleared even if no IDR was asked of MPP.
IdrClearedAnyway == "idr_store"

AfterNoIdr == "submit"

IdrNotDue ==
  /\ epc = "idr" /\ ~idr_requested /\ epc' = AfterNoIdr
  /\ UNCHANGED <<wb_busy, keys, encoderOnly, hand, setup, stream>>

IdrStore ==
  /\ epc = "idr_store" /\ epc' = "submit" /\ idr_requested' = FALSE
  /\ UNCHANGED <<wb_busy, mpp_idr, owed, encoderOnly, hand, setup, stream>>

\* MPP takes the frame; its slot stays busy until the next drain.
SubmitOk ==
  /\ epc = "submit" /\ epc' = "after" /\ task' = NoTask
  /\ submitted_pts' = Append(submitted_pts, task.n)
  /\ mpp' = Append(mpp, [n |-> task.n, slot |-> task.slot])
  /\ frames_submitted' = frames_submitted + 1 /\ frame_error_streak' = 0
  /\ wb_pending_index' = task.slot
  /\ mpp_idr' = FALSE /\ owed' = (owed /\ ~mpp_idr)
  /\ UNCHANGED <<wb_busy, idr_requested, encoderOnly, next, setup, frames_emitted, last_pts,
                 last_au>>

SubmitFails ==
  /\ epc = "submit" /\ release_wb_frame /\ FrameLost
  /\ UNCHANGED <<keys, encoderOnly, next, wb_pending_index, setup, stream>>

-----------------------------------------------------------------------------
(* Encoder thread: teardown() *)

\* The drain is over: flush() sends EOS and waits for what MPP still holds.
TeardownDrained ==
  /\ epc = "teardown" /\ epc' = "flush"
  /\ UNCHANGED <<wb_busy, keys, encoderOnly, hand, setup, stream>>

FlushPacket ==
  /\ epc = "flush" /\ mpp # <<>> /\ frames_emitted < frames_submitted
  /\ emit(Head(mpp).n) /\ mpp' = Tail(mpp)
  /\ UNCHANGED <<wb_busy, keys, encoderOnly, epc, hand, setup>>

AllEmitted == frames_emitted >= frames_submitted

\* MPP's last packet is no frame's (0): refused once every frame was emitted.
FlushExtraPacket ==
  /\ epc = "flush" /\ mpp = <<>> /\ epc' = "release"
  /\ IF AllEmitted THEN UNCHANGED stream ELSE emit(0) /\ UNCHANGED mpp
  /\ UNCHANGED <<wb_busy, keys, encoderOnly, hand, setup>>

\* EOS, an error or the deadline ends the flush, with all frames out or not.
FlushEnds ==
  /\ epc = "flush" /\ epc' = "release"
  /\ UNCHANGED <<wb_busy, keys, encoderOnly, hand, setup, stream>>

\* The last submitted slot is released.
ReleasePending ==
  /\ epc = "release" /\ epc' = "cleanup"
  /\ pp_wb_release(wb_pending_index) /\ wb_pending_index' = NoSlot
  /\ UNCHANGED <<keys, encoderOnly, task, next, frame_error_streak, setup, stream>>

\* MUTANT: the pts of frames that were never emitted survive the session.
PtsSurvive == UNCHANGED submitted_pts

PtsCleared == submitted_pts' = <<>>

\* encoder.cleanup() destroys the session and what it holds.
Cleanup ==
  /\ epc = "cleanup" /\ epc' = next
  /\ ready' = FALSE /\ mpp' = <<>> /\ mpp_idr' = FALSE
  /\ PtsCleared /\ frames_submitted' = 0 /\ frames_emitted' = 0
  /\ idr_requested' = TRUE
  /\ UNCHANGED <<wb_busy, owed, encoderOnly, hand, cur_geo, video_geo, geometry_dirty,
                 init_attempts, last_pts, last_au>>

-----------------------------------------------------------------------------
(* Specification *)

DisplayNext ==
  \/ DisplayClaim \/ writeback_frame \/ DisplayArmFails \/ DisplayCommitFails \/ DisplayExit

CallerNext ==
  \/ set_video_params \/ DetachWriteback \/ frame \/ restart \/ post
  \/ request_keyframe \/ consumers_changed \/ shutdown

EncoderNext ==
  \/ TakeFrame \/ TakePost \/ TakeRestart \/ TakeParams \/ TakeShutdown \/ After
  \/ FrameRefused \/ FrameAccepted \/ FrameRebuilds \/ InitOk \/ InitFails
  \/ FenceOk \/ FenceTimeout \/ DrainPacket \/ DrainDone \/ ImportOk \/ ImportFails
  \/ IdrNeeded \/ IdrNotDue \/ IdrStore \/ SubmitOk \/ SubmitFails
  \/ TeardownDrained \/ FlushPacket \/ FlushExtraPacket \/ FlushEnds
  \/ ReleasePending \/ Cleanup

Next == DisplayNext \/ CallerNext \/ EncoderNext
Spec == Init /\ [][Next]_vars

\* The encoder thread keeps running: every wait of its own is bounded (the
\* fence by WB_FENCE_TIMEOUT_MS, the flush by FLUSH_DEADLINE_MS).
FairSpec == Spec /\ WF_vars(EncoderNext)

-----------------------------------------------------------------------------
(* Properties *)

FlagsOK ==
  /\ wants_frames \in BOOLEAN /\ idr_requested \in BOOLEAN /\ mpp_idr \in BOOLEAN
  /\ owed \in BOOLEAN /\ dvr_wb_mode \in BOOLEAN /\ ready \in BOOLEAN
  /\ geometry_dirty \in BOOLEAN

DataOK ==
  /\ wb_busy \subseteq Slots /\ queue \in Seq(Task)
  /\ dpc \in {"run", "claimed", "gone"} /\ wb_idx \in AnySlot
  /\ wb_commit_fails \in Nat /\ frm_geo \in Nat /\ main \in {"run", "joining"}
  /\ epc \in EncoderStep /\ task \in Task \cup {NoTask}
  /\ next \in {"loop", "init", "done", "after", "import"}
  /\ cur_geo \in Nat /\ video_geo \in Nat /\ init_attempts \in 0..MAX_INIT_ATTEMPTS
  /\ frame_error_streak \in 0..MAX_FRAME_ERROR_STREAK - 1
  /\ wb_pending_index \in AnySlot /\ submitted_pts \in Seq(Nat)
  /\ frames_submitted \in Nat /\ frames_emitted \in Nat /\ last_pts \in Nat
  /\ mpp \in Seq([n : Nat, slot : AnySlot]) /\ last_au \in [n : Nat, pts : Nat]
  /\ captured \in Nat /\ events \in Nat

\* Type correctness, the caps on the counters included: at most MAX_INIT_ATTEMPTS
\* setups in a row fail, and the frame-error streak restarts before its cap.
TypeOK == FlagsOK /\ DataOK

\* What may hold a slot: the display thread between claim and hand-off (0), the
\* encoder thread's task in hand (-1), its submitted frame (-2), a queued frame.
Holders == {0, -1, -2} \cup (1..Len(queue))
HeldBy(h) ==
  CASE h = 0  -> wb_idx
    [] h = -1 -> Slot(task)
    [] h = -2 -> wb_pending_index
    [] OTHER  -> Slot(queue[h])

\* Writeback slots have a single owner (video_encoder.h:20-22): a slot someone
\* holds is busy, no two hold the same slot, and a busy slot is never leaked.
SlotsOwned ==
  /\ \A h \in Holders : HeldBy(h) # NoSlot => HeldBy(h) \in wb_busy
  /\ \A g, h \in Holders : HeldBy(g) = HeldBy(h) /\ HeldBy(g) # NoSlot => g = h
  /\ \A slot \in wb_busy : \E h \in Holders : HeldBy(h) = slot

\* The pool is large enough: with three slots more than MAX_PENDING_FRAMES (6 = 3 + 3
\* in main.cpp) the display thread finds a free one for every frame it captures,
\* whatever the encoder thread is at.
PoolSuffices ==
  Cardinality(Slots) >= MAX_PENDING_FRAMES + 3 /\ wants_capture => Slots \ wb_busy # {}

\* emit() re-attaches the right timestamp: every access unit leaves with the pts of
\* the frame it encodes, across sessions that end with frames still inside MPP.
PtsPaired == last_au.n = last_au.pts

\* A frame is submitted only to a session of its own geometry, and the decode tap's
\* encoder is never set up before the geometry is known, whatever frames and
\* parameter changes were queued meanwhile.
SessionFitsFrame ==
  ~Writeback => /\ epc = "submit" => task.geo = cur_geo
                /\ epc = "init" => GeometryKnown

\* No keyframe request is lost, whenever it comes: until an IDR is submitted the
\* request stays set or MPP was told.  Every session owes one for its first frame.
KeyframeOwed == owed => idr_requested \/ mpp_idr

\* The encoder gives up for good: once the attempts are used up and the last
\* setup failed, no step starts another one.
SettingUp ==
  epc = "init" \/ (next = "init" /\ epc \in {"teardown", "flush", "release", "cleanup"})
GivenUp == init_attempts = MAX_INIT_ATTEMPTS /\ ~ready /\ ~SettingUp
GivesUpForGood == [][GivenUp => GivenUp']_vars

\* After the encoder thread ends, no slot is busy and MPP holds nothing.
DoneMeansFree == epc = "done" => wb_busy = {} /\ ~ready /\ mpp = <<>>

\* The join of the encoder thread returns: after shutdown() it ends.
JoinReturns == main = "joining" ~> epc = "done"

\* What encode_wb() says (video_encoder.cpp:388-390): after the drain MPP is done
\* with the previous writeback buffer, so that its slot can be released.  It does
\* not hold (README, section 6).
InFlightSlotHeld ==
  epc = "import" => \A i \in 1..Len(mpp) : mpp[i].slot # NoSlot => mpp[i].slot \in wb_busy

=============================================================================
