--------------------------- MODULE DisplayHandoff ---------------------------
(***************************************************************************)
(* The hand-off of decoded frames and of the OSD to the screen, and the    *)
(* order in which src/src/main.cpp ends its threads: the FRAME thread with *)
(* init_buffer(), the display thread, the OSD thread of osd_service.cpp,   *)
(* the main thread's restart_mpi() and exit, and the encoder thread and    *)
(* DVR worker as far as the exit waits for them.                           *)
(*                                                                         *)
(* video_mutex and osd_mutex are held only between two steps of this       *)
(* model, so a critical section is one step and pthread_cond_wait() is a   *)
(* step to "wait" and one from "woken".  A framebuffer is the number of    *)
(* the frame in it and the generation of buffers it belongs to: init_buffer*)
(* and cleanup_mpi() remove all framebuffers of a generation at once.      *)
(* Which frames are captured, and what becomes of them, is in VideoEncoder.*)
(***************************************************************************)
EXTENDS Naturals

CONSTANTS
  WB_COMMIT_FAILS, \* failed commits before writeback is given up
  Faults,          \* commits and the modeset with writeback may fail
  StorageHangs,    \* the DVR worker may be stuck in storage I/O
  MaxFrames,       \* bound: frames decoded
  MaxChanges       \* bound: changes of resolution or codec while showing video

ASSUME HandoffAssumption ==
  /\ WB_COMMIT_FAILS \in Nat \ {0} /\ Faults \in BOOLEAN /\ StorageHangs \in BOOLEAN
  /\ MaxFrames \in Nat /\ MaxChanges \in Nat

VARIABLES
  signal_flag,      \* a termination signal came
  frm_eos,          \* the FRAME thread took an end-of-stream frame
  codec_detected,   \* the stream is up and the decoder set up
  codec_changed,    \* the receiver saw another codec
  eos,              \* the decoder holds an end of stream
  video_fb_id,      \* the framebuffer for the display thread, None if taken
  osd_update_ready, \* the OSD was redrawn
  osd_buf_switch,   \* the OSD buffer to show
  gen,              \* generations of decoder buffers allocated so far
  live,             \* the framebuffers of generation gen exist
  posted,           \* frames posted by the FRAME thread
  changes,          \* resolution and codec changes so far
  fpc,              \* FRAME thread: the step it is at
  request,          \* FRAME thread: video_request as init_buffer() uses it
  dpc,              \* display thread: the step it is at
  fb_id,            \* display thread: the framebuffer it took
  shown,            \* number of the last frame the display thread committed
  dvr_wb_mode,      \* writeback capture is on
  wb_commit_fails,  \* display thread: failed captures in a row
  opc,              \* OSD thread: the step it is at
  buf_idx,          \* OSD thread: the buffer it paints
  stop_,            \* OsdService::stop() was called
  mpc,              \* main thread: the step it is at
  epc,              \* encoder thread: none, run, stopping or done
  vpc               \* DVR worker: none, run, stopping or done

flags == <<signal_flag, frm_eos, codec_detected, codec_changed, eos>>
buffers == <<gen, live, posted, changes>>
frameVars == <<fpc, request>>
displayVars == <<fb_id, shown, wb_commit_fails>>
osdVars == <<osd_buf_switch, opc, buf_idx>>
exitVars == <<stop_, mpc, epc, vpc>>
vars == <<flags, buffers, frameVars, displayVars, osdVars, exitVars,
          video_fb_id, osd_update_ready, dpc, dvr_wb_mode>>

None == [n |-> 0, gen |-> 0]
Framebuffer == [n : Nat, gen : Nat]

Exiting == frm_eos \/ signal_flag

\* pthread_cond_signal(&video_cond): the display thread is its only waiter.
Signalled == IF dpc = "wait" THEN "woken" ELSE dpc

Init ==
  /\ signal_flag = FALSE /\ frm_eos = FALSE /\ codec_detected = FALSE
  /\ codec_changed = FALSE /\ eos = FALSE
  /\ video_fb_id = None /\ osd_update_ready = FALSE /\ osd_buf_switch = 0
  /\ gen = 0 /\ live = FALSE /\ posted = 0 /\ changes = 0
  /\ fpc = "check" /\ request = "none"
  /\ dpc = "check" /\ fb_id = None /\ shown = 0
  /\ dvr_wb_mode \in BOOLEAN /\ wb_commit_fails = 0
  /\ opc = "wait" /\ buf_idx = 1 /\ stop_ = FALSE /\ mpc = "stream"
  /\ \E started \in {<<"none", "none">>, <<"run", "none">>, <<"run", "run">>} :
       epc = started[1] /\ vpc = started[2]
  /\ dvr_wb_mode => epc = "run"

-----------------------------------------------------------------------------
(* The FRAME thread *)

FrameOnly == UNCHANGED <<displayVars, osdVars, exitVars>>

FrameEnds ==
  /\ fpc = "check" /\ (Exiting \/ (codec_detected /\ codec_changed))
  /\ fpc' = "done"
  /\ FrameOnly
  /\ UNCHANGED <<flags, buffers, request, video_fb_id, osd_update_ready, dpc, dvr_wb_mode>>

FrameContinues ==
  /\ fpc = "check" /\ ~Exiting /\ codec_detected /\ ~codec_changed
  /\ fpc' = "get"
  /\ FrameOnly
  /\ UNCHANGED <<flags, buffers, request, video_fb_id, osd_update_ready, dpc, dvr_wb_mode>>

\* An assert() fails on the FRAME thread, and the process with all its threads is gone.
Abort ==
  /\ fpc' = "aborted"
  /\ FrameOnly
  /\ UNCHANGED <<flags, buffers, request, video_fb_id, osd_update_ready, dpc>>

\* decode_get_frame() has nothing within its 10 ms: assert(!ret), or assert(0) if it
\* returns no frame and no error.
FrameTimeout == fpc = "get" /\ Abort /\ UNCHANGED dvr_wb_mode

\* A new resolution: init_buffer() removes the framebuffers there are.
FrameInfoChange ==
  /\ fpc = "get" /\ (live => changes < MaxChanges)
  /\ live' = FALSE /\ changes' = IF live THEN changes + 1 ELSE changes
  /\ fpc' = "alloc"
  /\ FrameOnly
  /\ UNCHANGED <<flags, gen, posted, request, video_fb_id, osd_update_ready, dpc, dvr_wb_mode>>

\* Allocates the new ones, and passes video_request to the modeset.
FrameAlloc ==
  /\ fpc = "alloc" /\ fpc' = "modeset" /\ request' = "held"
  /\ gen' = gen + 1 /\ live' = TRUE
  /\ FrameOnly
  /\ UNCHANGED <<flags, posted, changes, video_fb_id, osd_update_ready, dpc, dvr_wb_mode>>

\* A dumb buffer, its export or a framebuffer is refused, and asserted.
FrameAllocRefused == fpc = "alloc" /\ Faults /\ Abort /\ UNCHANGED dvr_wb_mode

\* The modeset is accepted, perhaps only the second time, with writeback given up.
FrameModeset ==
  /\ fpc = "modeset" /\ fpc' = "check" /\ request' = "none"
  /\ \/ UNCHANGED dvr_wb_mode
     \/ Faults /\ dvr_wb_mode /\ dvr_wb_mode' = FALSE
  /\ FrameOnly
  /\ UNCHANGED <<flags, buffers, video_fb_id, osd_update_ready, dpc>>

\* It is refused, the second time too if there is one: the same request is used, in
\* which the writeback connector is still routed (DrmSetup).  assert(ret >= 0).
FrameModesetRefused == fpc = "modeset" /\ Faults /\ Abort /\ dvr_wb_mode' = FALSE

\* A frame: hand its framebuffer to the display thread, over one not yet taken.
FramePost ==
  /\ fpc = "get" /\ live /\ posted < MaxFrames
  /\ posted' = posted + 1
  /\ video_fb_id' = [n |-> posted + 1, gen |-> gen] /\ dpc' = Signalled
  /\ fpc' = "check"
  /\ FrameOnly
  /\ UNCHANGED <<flags, gen, live, changes, request, osd_update_ready, dvr_wb_mode>>

\* The end of stream the main thread fed to the decoder; on a frame with a buffer it
\* is set after that was handed over, which is this step after FramePost.
FrameEos ==
  /\ fpc = "get" /\ eos
  /\ frm_eos' = TRUE /\ eos' = FALSE /\ fpc' = "check"
  /\ FrameOnly
  /\ UNCHANGED <<signal_flag, codec_detected, codec_changed, buffers, request,
                 video_fb_id, osd_update_ready, dpc, dvr_wb_mode>>

FrameNext ==
  \/ FrameEnds \/ FrameContinues \/ FrameTimeout \/ FrameInfoChange
  \/ FrameAlloc \/ FrameAllocRefused \/ FrameModeset \/ FrameModesetRefused
  \/ FramePost \/ FrameEos

-----------------------------------------------------------------------------
(* The display thread *)

DisplayOnly == UNCHANGED <<flags, buffers, fpc, osdVars, exitVars>>

DisplayEnds ==
  /\ dpc = "check" /\ Exiting /\ dpc' = "done"
  /\ DisplayOnly
  /\ UNCHANGED <<displayVars, request, video_fb_id, osd_update_ready, dvr_wb_mode>>

DisplayContinues ==
  /\ dpc = "check" /\ ~Exiting /\ dpc' = "enter"
  /\ DisplayOnly
  /\ UNCHANGED <<displayVars, request, video_fb_id, osd_update_ready, dvr_wb_mode>>

NothingToShow == video_fb_id = None /\ ~osd_update_ready

\* After a wait, and only then, an exit is noticed unless there is a frame.
LeavesLoop == dpc = "woken" /\ video_fb_id = None /\ Exiting

DisplaySleeps ==
  /\ dpc \in {"enter", "woken"} /\ NothingToShow /\ ~LeavesLoop
  /\ dpc' = "wait"
  /\ DisplayOnly
  /\ UNCHANGED <<displayVars, request, video_fb_id, osd_update_ready, dvr_wb_mode>>

DisplayWakes ==     \* spuriously
  /\ dpc = "wait" /\ dpc' = "woken"
  /\ DisplayOnly
  /\ UNCHANGED <<displayVars, request, video_fb_id, osd_update_ready, dvr_wb_mode>>

DisplayLeaves ==
  /\ LeavesLoop /\ dpc' = "done"
  /\ DisplayOnly
  /\ UNCHANGED <<displayVars, request, video_fb_id, osd_update_ready, dvr_wb_mode>>

\* MUTANT: the framebuffer stays posted.
KeepPosted == UNCHANGED video_fb_id /\ osd_update_ready' = FALSE

ClearPosted == video_fb_id' = None /\ osd_update_ready' = FALSE

DisplayTakes ==
  /\ dpc \in {"enter", "woken"} /\ ~NothingToShow /\ ~LeavesLoop
  /\ fb_id' = video_fb_id /\ ClearPosted
  /\ dpc' = "request"
  /\ DisplayOnly
  /\ UNCHANGED <<shown, wb_commit_fails, request, dvr_wb_mode>>

\* Frees video_request and allocates another.
DisplayRequest ==
  /\ dpc = "request" /\ dpc' = "commit"
  /\ request' = IF request = "held" THEN "freed" ELSE request
  /\ DisplayOnly
  /\ UNCHANGED <<displayVars, video_fb_id, osd_update_ready, dvr_wb_mode>>

\* The kernel refuses a framebuffer that was removed, unless its number was given to
\* one of the framebuffers that exist now.
Removed(fb) == fb # None /\ ~(live /\ fb.gen = gen)

CommitOk(capture) ==
  /\ fb_id = None \/ live
  /\ wb_commit_fails' = IF capture THEN 0 ELSE wb_commit_fails
  /\ UNCHANGED dvr_wb_mode

GiveUp(fails) == dvr_wb_mode' = (dvr_wb_mode /\ fails < WB_COMMIT_FAILS)

\* The whole commit is lost, the OSD in it too; a failed capture is counted.
CommitFails(capture) ==
  /\ Removed(fb_id) \/ Faults
  /\ IF capture
     THEN wb_commit_fails' = wb_commit_fails + 1 /\ GiveUp(wb_commit_fails + 1)
     ELSE UNCHANGED <<wb_commit_fails, dvr_wb_mode>>

\* Commit under osd_mutex; the frame may be captured through writeback.
DisplayCommits ==
  /\ dpc = "commit" /\ dpc' = "check"
  /\ \E capture \in {FALSE, dvr_wb_mode /\ fb_id # None} :
       CommitOk(capture) \/ CommitFails(capture)
  /\ shown' = IF fb_id = None THEN shown ELSE fb_id.n
  /\ fb_id' = None
  /\ DisplayOnly
  /\ UNCHANGED <<request, video_fb_id, osd_update_ready>>

DisplayNext ==
  \/ DisplayEnds \/ DisplayContinues \/ DisplaySleeps \/ DisplayLeaves
  \/ DisplayTakes \/ DisplayRequest \/ DisplayCommits

-----------------------------------------------------------------------------
(* The OSD thread.  It runs with the OSD disabled too, and refreshes at every *)
(* deadline of its timed wait; what it draws and the facts are left out.      *)

OsdOnly == UNCHANGED <<flags, buffers, frameVars, displayVars, exitVars, dvr_wb_mode>>

\* The deadline passed: refresh() paints the buffer that is not to be shown.
OsdPaints ==
  /\ opc = "wait" /\ ~stop_ /\ opc' = "paint"
  /\ buf_idx' = 1 - osd_buf_switch
  /\ OsdOnly /\ UNCHANGED <<osd_buf_switch, video_fb_id, osd_update_ready, dpc>>

OsdSwitches ==     \* under osd_mutex
  /\ opc = "paint" /\ opc' = "notify"
  /\ osd_buf_switch' = buf_idx
  /\ OsdOnly /\ UNCHANGED <<buf_idx, video_fb_id, osd_update_ready, dpc>>

\* MUTANT: the display thread is not signalled.
OsdNotifiesNobody ==
  /\ opc = "notify" /\ opc' = "wait"
  /\ osd_update_ready' = TRUE
  /\ OsdOnly /\ UNCHANGED <<osd_buf_switch, buf_idx, video_fb_id, dpc>>

OsdNotifies ==     \* under video_mutex
  /\ opc = "notify" /\ opc' = "wait"
  /\ osd_update_ready' = TRUE /\ dpc' = Signalled
  /\ OsdOnly /\ UNCHANGED <<osd_buf_switch, buf_idx, video_fb_id>>

\* stop_ is seen at the loop's head or when the wait ends, by the deadline if the
\* notification came too early.
OsdEnds ==
  /\ opc = "wait" /\ stop_ /\ opc' = "done"
  /\ OsdOnly /\ UNCHANGED <<osd_buf_switch, buf_idx, video_fb_id, osd_update_ready, dpc>>

OsdNext == OsdPaints \/ OsdSwitches \/ OsdNotifies \/ OsdEnds

-----------------------------------------------------------------------------
(* The main thread: the stream, restart_mpi() and the exit *)

MainOnly == UNCHANGED <<posted, gen, request, displayVars, osdVars, video_fb_id,
                        osd_update_ready, dvr_wb_mode>>
Threads == <<fpc, dpc, epc, vpc>>
Stream == <<frm_eos, codec_detected, codec_changed, eos, live, changes>>

\* A termination signal, at any time.
sig_handler ==
  /\ signal_flag' = TRUE
  /\ MainOnly /\ UNCHANGED <<Stream, Threads, stop_, mpc>>

\* The codec is known: setup_mpi() creates the decoder.
StreamUp ==
  /\ mpc = "stream" /\ ~codec_detected /\ ~signal_flag
  /\ codec_detected' = TRUE
  /\ MainOnly
  /\ UNCHANGED <<signal_flag, frm_eos, codec_changed, eos, live, changes, Threads, stop_, mpc>>

\* The receiver's callback, when the stream changed to another codec.
CodecChanges ==
  /\ mpc = "stream" /\ codec_detected /\ ~codec_changed /\ changes < MaxChanges
  /\ codec_changed' = TRUE /\ changes' = changes + 1
  /\ MainOnly
  /\ UNCHANGED <<signal_flag, frm_eos, codec_detected, eos, live, Threads, stop_, mpc>>

\* The receiver is stopped and an end of stream fed to the decoder.
RestartFeedsEos ==
  /\ mpc = "stream" /\ codec_detected /\ codec_changed /\ ~signal_flag
  /\ eos' = TRUE /\ mpc' = "restart"
  /\ MainOnly
  /\ UNCHANGED <<signal_flag, frm_eos, codec_detected, codec_changed, live, changes,
                 Threads, stop_>>

\* MUTANT: restart_mpi() does not wait for the FRAME thread.
RestartJoinsNobody ==
  /\ mpc = "restart" /\ mpc' = "recreate" /\ dpc' = Signalled
  /\ MainOnly /\ UNCHANGED <<signal_flag, Stream, fpc, epc, vpc, stop_>>

\* restart_mpi() joins the FRAME thread and wakes the display thread.
RestartJoins ==
  /\ mpc = "restart" /\ fpc = "done" /\ mpc' = "recreate" /\ dpc' = Signalled
  /\ MainOnly /\ UNCHANGED <<signal_flag, Stream, fpc, epc, vpc, stop_>>

\* The framebuffers are removed, and the decoder with what it holds.
cleanup_mpi == live' = FALSE /\ eos' = FALSE

\* setup_mpi() makes another decoder, and the FRAME thread is started again.
RestartRecreates ==
  /\ mpc = "recreate" /\ mpc' = "stream"
  /\ cleanup_mpi /\ codec_changed' = FALSE /\ fpc' = "check"
  /\ MainOnly
  /\ UNCHANGED <<signal_flag, frm_eos, codec_detected, changes, dpc, epc, vpc, stop_>>

\* read_video_stream() returns, feeding an end of stream if the stream ever came up.
StreamEnds ==
  /\ mpc = "stream" /\ signal_flag /\ mpc' = "join_frame"
  /\ eos' = codec_detected
  /\ MainOnly
  /\ UNCHANGED <<signal_flag, frm_eos, codec_detected, codec_changed, live, changes,
                 Threads, stop_>>

Goto(from, to) ==
  /\ mpc = from /\ mpc' = to
  /\ MainOnly /\ UNCHANGED <<signal_flag, Stream>>

\* MUTANT: OsdService::stop() comes before the display thread has ended.
WakesAndStopsOsd ==
  /\ fpc = "done" /\ Goto("join_frame", "join_display")
  /\ dpc' = Signalled /\ stop_' = TRUE /\ UNCHANGED <<fpc, epc, vpc>>

JoinFrameWakesDisplay ==
  /\ fpc = "done" /\ Goto("join_frame", "join_display")
  /\ dpc' = Signalled /\ UNCHANGED <<fpc, epc, vpc, stop_>>

JoinDisplay ==
  /\ dpc = "done" /\ Goto("join_display", "shutdown")
  /\ UNCHANGED <<Threads, stop_>>

\* dvr->shutdown() and encoder->shutdown(), if the encoder thread was started.
Stopping(pc) == IF pc = "run" THEN "stopping" ELSE pc
ShutsDown ==
  /\ Goto("shutdown", "join_encoder")
  /\ epc' = Stopping(epc) /\ vpc' = Stopping(vpc) /\ UNCHANGED <<fpc, dpc, stop_>>

JoinEncoder ==
  /\ epc \in {"none", "done"} /\ Goto("join_encoder", "join_dvr")
  /\ UNCHANGED <<Threads, stop_>>

\* The worker ended, or is not there; main stops the OSD service.
JoinDvr ==
  /\ vpc \in {"none", "done"} /\ Goto("join_dvr", "stop_osd")
  /\ UNCHANGED <<Threads, stop_>>

\* DVR_EXIT_TIMEOUT_S passed: the worker is joined last.
JoinDvrTimeout ==
  /\ vpc \notin {"none", "done"} /\ Goto("join_dvr", "stop_osd")
  /\ UNCHANGED <<Threads, stop_>>

StopOsd == Goto("stop_osd", "join_osd") /\ stop_' = TRUE /\ UNCHANGED Threads

\* The OSD thread ended; video_cond and video_mutex are destroyed.
JoinOsdDestroys ==
  /\ opc = "done" /\ Goto("join_osd", "destroyed") /\ UNCHANGED <<Threads, stop_>>

\* cleanup_mpi() and cleanup_drm(): the display is restored.
Restores ==
  /\ mpc = "destroyed" /\ mpc' = "restored" /\ cleanup_mpi
  /\ MainOnly
  /\ UNCHANGED <<signal_flag, frm_eos, codec_detected, codec_changed, changes,
                 Threads, stop_>>

\* The pending join, then dvr, restreamer and encoder are deleted.
JoinPendingDeletes ==
  /\ vpc \in {"none", "done"} /\ Goto("restored", "deleted")
  /\ UNCHANGED <<Threads, stop_>>

MainNext ==
  \/ RestartFeedsEos \/ RestartJoins \/ RestartRecreates
  \/ StreamEnds \/ JoinFrameWakesDisplay \/ JoinDisplay \/ ShutsDown \/ JoinEncoder
  \/ JoinDvr \/ JoinDvrTimeout \/ StopOsd \/ JoinOsdDestroys \/ Restores
  \/ JoinPendingDeletes

-----------------------------------------------------------------------------
(* The encoder thread and the DVR worker end once they are told to *)

EncoderEnds ==
  /\ epc = "stopping" /\ epc' = "done"
  /\ MainOnly /\ UNCHANGED <<signal_flag, Stream, fpc, dpc, vpc, stop_, mpc>>

WorkerEnds ==
  /\ vpc = "stopping" /\ vpc' = "done"
  /\ MainOnly /\ UNCHANGED <<signal_flag, Stream, fpc, dpc, epc, stop_, mpc>>

Running == fpc # "aborted"

Ended == (mpc = "deleted" \/ ~Running) /\ UNCHANGED vars

Next ==
  \/ Running /\ \/ FrameNext \/ DisplayNext \/ DisplayWakes \/ OsdNext \/ MainNext
                \/ sig_handler \/ StreamUp \/ CodecChanges \/ EncoderEnds \/ WorkerEnds
  \/ Ended

Spec == Init /\ [][Next]_vars

\* Every thread of the process keeps running, the DVR worker only if its storage
\* does; the signal, the stream and spurious wake-ups are not owed.
FairSpec ==
  /\ Spec
  /\ WF_vars(FrameNext) /\ WF_vars(Running /\ DisplayNext) /\ WF_vars(Running /\ OsdNext)
  /\ WF_vars(Running /\ MainNext) /\ WF_vars(Running /\ EncoderEnds)
  /\ ~StorageHangs => WF_vars(Running /\ WorkerEnds)

-----------------------------------------------------------------------------
(* Properties *)

MainStep ==
  {"stream", "restart", "recreate", "join_frame", "join_display", "shutdown",
   "join_encoder", "join_dvr", "stop_osd", "join_osd", "destroyed", "restored", "deleted"}

\* Type correctness; the failed captures in a row never pass the cap that turns
\* writeback off.
TypeOK ==
  /\ signal_flag \in BOOLEAN /\ frm_eos \in BOOLEAN /\ codec_detected \in BOOLEAN
  /\ codec_changed \in BOOLEAN /\ eos \in BOOLEAN /\ osd_update_ready \in BOOLEAN
  /\ live \in BOOLEAN /\ dvr_wb_mode \in BOOLEAN /\ stop_ \in BOOLEAN
  /\ video_fb_id \in Framebuffer /\ fb_id \in Framebuffer
  /\ osd_buf_switch \in {0, 1} /\ buf_idx \in {0, 1}
  /\ gen \in Nat /\ posted \in 0..MaxFrames /\ changes \in 0..MaxChanges /\ shown \in Nat
  /\ fpc \in {"check", "get", "alloc", "modeset", "done", "aborted"}
  /\ request \in {"none", "held", "freed"}
  /\ dpc \in {"check", "enter", "wait", "woken", "request", "commit", "done"}
  /\ wb_commit_fails \in 0..WB_COMMIT_FAILS
  /\ opc \in {"wait", "paint", "notify", "done"}
  /\ mpc \in MainStep
  /\ epc \in {"none", "run", "stopping", "done"} /\ vpc \in {"none", "run", "stopping", "done"}

\* No wake-up of the display thread is lost: it does not sleep on video_cond while
\* a frame or a redrawn OSD waits for it.
NoSleepOnWork == dpc = "wait" => NothingToShow

\* Frames reach the screen in the order they were decoded, each at most once, across
\* resolution changes and restarts of the decoder.
FramesInOrder == [][fb_id' # fb_id /\ fb_id' # None => fb_id'.n > shown]_vars

\* The OSD thread never paints the buffer that the display thread, between any two
\* of its steps, may commit.
PaintsHiddenOsd == opc = "paint" => buf_idx # osd_buf_switch

\* The decoder and its framebuffers are recreated only while no FRAME thread runs,
\* so that none works on a decoder that is gone (restart_mpi()).
DecoderOwned == mpc \in {"recreate", "destroyed", "restored", "deleted"} => fpc = "done"

\* video_mutex and video_cond are destroyed after the last thread that uses them
\* (main.cpp:1136).
PrimitivesAlive ==
  mpc \in {"destroyed", "restored", "deleted"} => fpc = "done" /\ dpc = "done" /\ opc = "done"

\* Every thread that reads dvr or encoder has ended when they are deleted
\* (main.cpp:1159), the worker too that was given up on before.
DeletedLast ==
  mpc = "deleted" => /\ fpc = "done" /\ dpc = "done"
                     /\ epc \in {"none", "done"} /\ vpc \in {"none", "done"}

\* No thread uses what main has recreated, destroyed or deleted: neither the decoder
\* of a restart nor, on the way out, the primitives and the DVR and encoder objects.
ResourcesAlive == DecoderOwned /\ PrimitivesAlive /\ DeletedLast

\* A termination signal leads to a restored display, even with the DVR worker stuck
\* in storage I/O, and although a wake-up of the display thread may come too early:
\* the only way out without one is an assert() of the FRAME thread (main.cpp:309, 368,
\* and those of init_buffer()), which ends the process.
ExitRestoresDisplay == signal_flag ~> (mpc \in {"restored", "deleted"} \/ ~Running)

\* Neither of the next two statements holds (README, section 6).

\* README.md:206: frames reach DISPLAY_THREAD through output_list, protected by
\* video_mutex.  The request in it that init_buffer() works on still exists.
OutputListProtected == request # "freed"

\* main.cpp:1135: all producers of OSD facts are stopped when the service is.
ProducersStopped == mpc = "stop_osd" =>
  fpc = "done" /\ dpc = "done" /\ epc \in {"none", "done"} /\ vpc \in {"none", "done"}

=============================================================================
