------------------------ MODULE DisplayHandoffProofs ------------------------
(***************************************************************************)
(* Proofs of the safety properties of DisplayHandoff that hold whatever    *)
(* fails, for all values of the limits and bounds.                         *)
(***************************************************************************)
EXTENDS DisplayHandoff, TLAPS

\* The two halves of TypeOK, by the provers they need.
Booleans ==
  /\ signal_flag \in BOOLEAN /\ frm_eos \in BOOLEAN /\ codec_detected \in BOOLEAN
  /\ codec_changed \in BOOLEAN /\ eos \in BOOLEAN /\ osd_update_ready \in BOOLEAN
  /\ live \in BOOLEAN /\ dvr_wb_mode \in BOOLEAN /\ stop_ \in BOOLEAN
DisplayStep == {"check", "enter", "wait", "woken", "request", "commit", "done"}
Rest ==
  /\ video_fb_id \in Framebuffer /\ fb_id \in Framebuffer
  /\ osd_buf_switch \in {0, 1} /\ buf_idx \in {0, 1}
  /\ gen \in Nat /\ posted \in 0..MaxFrames /\ changes \in 0..MaxChanges /\ shown \in Nat
  /\ fpc \in {"check", "get", "alloc", "modeset", "done", "aborted"}
  /\ request \in {"none", "held", "freed"}
  /\ dpc \in DisplayStep
  /\ wb_commit_fails \in 0..WB_COMMIT_FAILS
  /\ opc \in {"wait", "paint", "notify", "done"}
  /\ mpc \in MainStep
  /\ epc \in {"none", "run", "stopping", "done"} /\ vpc \in {"none", "run", "stopping", "done"}

\* Capture is on only while the failed captures are below the cap.
CaptureBelowCap == dvr_wb_mode => wb_commit_fails < WB_COMMIT_FAILS

\* Frames are numbered in the order shown, in hand, posted.
InHand == fb_id # None => dpc \in {"request", "commit"} /\ shown < fb_id.n /\ fb_id.n <= posted
Posted == video_fb_id # None =>
  /\ shown < video_fb_id.n /\ video_fb_id.n <= posted
  /\ fb_id # None => fb_id.n < video_fb_id.n
Numbered == shown <= posted /\ InHand /\ Posted

\* What main has joined, at each of its steps.
AfterFrame ==
  {"recreate", "join_display", "shutdown", "join_encoder", "join_dvr", "stop_osd", "join_osd",
   "destroyed", "restored", "deleted"}
AfterDisplay == AfterFrame \ {"recreate", "join_display"}
AfterEncoder == AfterDisplay \ {"shutdown", "join_encoder"}
AfterOsd == {"destroyed", "restored", "deleted"}
JoinOrder ==
  /\ mpc \in AfterFrame => fpc = "done"
  /\ mpc \in AfterDisplay => dpc = "done"
  /\ mpc \in AfterEncoder => epc \in {"none", "done"}
  /\ mpc \in AfterOsd => opc = "done"
  /\ mpc = "deleted" => vpc \in {"none", "done"}

Safe == NoSleepOnWork /\ PaintsHiddenOsd /\ JoinOrder
IInv == Booleans /\ Rest /\ CaptureBelowCap /\ Numbered /\ Safe

-----------------------------------------------------------------------------
\* IInv holds initially.
LEMMA InitIInv == Init => IInv
<1> SUFFICES ASSUME Init PROVE IInv
  OBVIOUS
<1>1. 0 \in Nat /\ 0 \in 0..MaxFrames /\ 0 \in 0..MaxChanges /\ 0 \in 0..WB_COMMIT_FAILS
      /\ 0 < WB_COMMIT_FAILS /\ 0 <= 0
  BY HandoffAssumption DEF HandoffAssumption
<1>2. None \in Framebuffer
  BY <1>1 DEF None, Framebuffer
<1>3. PICK started \in {<<"none", "none">>, <<"run", "none">>, <<"run", "run">>} :
        epc = started[1] /\ vpc = started[2]
  BY DEF Init
<1>4. epc \in {"none", "run"} /\ vpc \in {"none", "run"}
  BY <1>3
<1>5. TypeOK
  BY <1>1, <1>2, <1>4, Zenon DEF Init, TypeOK, MainStep
<1>6. CaptureBelowCap /\ Numbered
  BY <1>1 DEF Init, CaptureBelowCap, Numbered, InHand, Posted
<1>7. Safe
  BY DEF Init, Safe, NoSleepOnWork, PaintsHiddenOsd, JoinOrder, AfterFrame, AfterDisplay,
         AfterEncoder, AfterOsd
<1>8. Booleans /\ Rest
  BY <1>5, Zenon DEF TypeOK, Booleans, Rest, DisplayStep
<1> QED
  BY <1>6, <1>7, <1>8 DEF IInv

USE DEF flags, buffers, frameVars, displayVars, osdVars, exitVars

\* Every step keeps the flags Boolean.
LEMMA NextBooleans == IInv /\ [Next]_vars => Booleans'
<1> SUFFICES ASSUME IInv, [Next]_vars PROVE Booleans'
  OBVIOUS
<1> USE DEF IInv, Booleans
<1>1. CASE FrameNext
  <2>1. CASE FrameEnds
    BY <2>1, Zenon DEF FrameEnds, FrameOnly
  <2>2. CASE FrameContinues
    BY <2>2, Zenon DEF FrameContinues, FrameOnly
  <2>3. CASE FrameTimeout
    BY <2>3, Zenon DEF FrameTimeout, Abort, FrameOnly
  <2>4. CASE FrameInfoChange
    BY <2>4, Zenon DEF FrameInfoChange, FrameOnly
  <2>5. CASE FrameAlloc
    BY <2>5, Zenon DEF FrameAlloc, FrameOnly
  <2>6. CASE FrameModeset
    BY <2>6, Zenon DEF FrameModeset, FrameOnly
  <2>7. CASE FramePost
    BY <2>7, Zenon DEF FramePost, FrameOnly
  <2>8. CASE FrameEos
    BY <2>8, Zenon DEF FrameEos, FrameOnly
  <2>9. CASE FrameAllocRefused
    BY <2>9, Zenon DEF FrameAllocRefused, Abort, FrameOnly
  <2>10. CASE FrameModesetRefused
    BY <2>10, Zenon DEF FrameModesetRefused, Abort, FrameOnly
  <2> QED
    BY <1>1, <2>1, <2>2, <2>3, <2>4, <2>5, <2>6, <2>7, <2>8, <2>9, <2>10 DEF FrameNext
<1>2. CASE DisplayNext
  <2>1. CASE DisplayEnds
    BY <2>1, Zenon DEF DisplayEnds, DisplayOnly
  <2>2. CASE DisplayContinues
    BY <2>2, Zenon DEF DisplayContinues, DisplayOnly
  <2>3. CASE DisplaySleeps
    BY <2>3, Zenon DEF DisplaySleeps, DisplayOnly
  <2>4. CASE DisplayLeaves
    BY <2>4, Zenon DEF DisplayLeaves, DisplayOnly
  <2>5. CASE DisplayTakes
    BY <2>5, Zenon DEF DisplayTakes, DisplayOnly, ClearPosted
  <2>6. CASE DisplayRequest
    BY <2>6, Zenon DEF DisplayRequest, DisplayOnly
  <2>7. CASE DisplayCommits
    <3>1. PICK capture \in {FALSE, dvr_wb_mode /\ fb_id # None} :
            CommitOk(capture) \/ CommitFails(capture)
      BY <2>7, Zenon DEF DisplayCommits
    <3>2. dvr_wb_mode' \in BOOLEAN
      BY <3>1, Zenon DEF CommitOk, CommitFails, GiveUp
    <3> QED
      BY <2>7, <3>2, Zenon DEF DisplayCommits, DisplayOnly
  <2> QED
    BY <1>2, <2>1, <2>2, <2>3, <2>4, <2>5, <2>6, <2>7 DEF DisplayNext
<1>3. CASE OsdNext
  <2>1. CASE OsdPaints
    BY <2>1, Zenon DEF OsdPaints, OsdOnly
  <2>2. CASE OsdSwitches
    BY <2>2, Zenon DEF OsdSwitches, OsdOnly
  <2>3. CASE OsdNotifies
    BY <2>3, Zenon DEF OsdNotifies, OsdOnly
  <2>4. CASE OsdEnds
    BY <2>4, Zenon DEF OsdEnds, OsdOnly
  <2> QED
    BY <1>3, <2>1, <2>2, <2>3, <2>4 DEF OsdNext
<1>4. CASE MainNext
  <2>1. CASE RestartFeedsEos
    BY <2>1, Zenon DEF RestartFeedsEos, MainOnly, Stream, Threads
  <2>2. CASE RestartJoins
    BY <2>2, Zenon DEF RestartJoins, MainOnly, Stream, Threads
  <2>3. CASE RestartRecreates
    BY <2>3, Zenon DEF RestartRecreates, cleanup_mpi, MainOnly, Stream, Threads
  <2>4. CASE StreamEnds
    BY <2>4, Zenon DEF StreamEnds, MainOnly, Stream, Threads
  <2>5. CASE JoinFrameWakesDisplay
    BY <2>5, Zenon DEF JoinFrameWakesDisplay, MainOnly, Stream, Threads, Goto
  <2>6. CASE JoinDisplay
    BY <2>6, Zenon DEF JoinDisplay, MainOnly, Stream, Threads, Goto
  <2>7. CASE ShutsDown
    BY <2>7, Zenon DEF ShutsDown, MainOnly, Stream, Threads, Goto
  <2>8. CASE JoinEncoder
    BY <2>8, Zenon DEF JoinEncoder, MainOnly, Stream, Threads, Goto
  <2>9. CASE JoinDvr
    BY <2>9, Zenon DEF JoinDvr, MainOnly, Stream, Threads, Goto
  <2>10. CASE JoinDvrTimeout
    BY <2>10, Zenon DEF JoinDvrTimeout, MainOnly, Stream, Threads, Goto
  <2>11. CASE StopOsd
    BY <2>11, Zenon DEF StopOsd, MainOnly, Stream, Threads, Goto
  <2>12. CASE JoinOsdDestroys
    BY <2>12, Zenon DEF JoinOsdDestroys, MainOnly, Stream, Threads, Goto
  <2>13. CASE Restores
    BY <2>13, Zenon DEF Restores, cleanup_mpi, MainOnly, Stream, Threads
  <2>14. CASE JoinPendingDeletes
    BY <2>14, Zenon DEF JoinPendingDeletes, MainOnly, Stream, Threads, Goto
  <2> QED
    BY <1>4, <2>1, <2>2, <2>3, <2>4, <2>5, <2>6, <2>7, <2>8, <2>9, <2>10, <2>11, <2>12,
       <2>13, <2>14 DEF MainNext
<1>5. CASE DisplayWakes
  BY <1>5, Zenon DEF DisplayWakes, DisplayOnly
<1>6. CASE sig_handler
  BY <1>6, Zenon DEF sig_handler, MainOnly, Stream, Threads
<1>7. CASE StreamUp
  BY <1>7, Zenon DEF StreamUp, MainOnly, Stream, Threads
<1>8. CASE CodecChanges
  BY <1>8, Zenon DEF CodecChanges, MainOnly, Stream, Threads
<1>9. CASE EncoderEnds
  BY <1>9, Zenon DEF EncoderEnds, MainOnly, Stream, Threads
<1>10. CASE WorkerEnds
  BY <1>10, Zenon DEF WorkerEnds, MainOnly, Stream, Threads
<1>11. CASE UNCHANGED vars
  BY <1>11, Zenon DEF vars
<1> QED
  BY <1>1, <1>2, <1>3, <1>4, <1>5, <1>6, <1>7, <1>8, <1>9, <1>10, <1>11 DEF Next, Ended

\* Every step keeps the other types, and the failed captures below the cap.
LEMMA NextRest == IInv /\ [Next]_vars => Rest' /\ CaptureBelowCap'
<1> SUFFICES ASSUME IInv, [Next]_vars PROVE Rest' /\ CaptureBelowCap'
  OBVIOUS
<1> USE HandoffAssumption
    DEF HandoffAssumption, IInv, Rest, CaptureBelowCap, MainStep, DisplayStep
<1>1. CASE FrameNext
  <2>1. CASE FrameEnds
    BY <2>1 DEF FrameEnds, FrameOnly
  <2>2. CASE FrameContinues
    BY <2>2 DEF FrameContinues, FrameOnly
  <2>3. CASE FrameTimeout
    BY <2>3 DEF FrameTimeout, Abort, FrameOnly
  <2>4. CASE FrameInfoChange
    BY <2>4 DEF FrameInfoChange, FrameOnly
  <2>5. CASE FrameAlloc
    BY <2>5 DEF FrameAlloc, FrameOnly
  <2>6. CASE FrameModeset
    BY <2>6 DEF FrameModeset, FrameOnly
  <2>7. CASE FramePost
    BY <2>7 DEF FramePost, FrameOnly, Signalled, Framebuffer, None
  <2>8. CASE FrameEos
    BY <2>8 DEF FrameEos, FrameOnly
  <2>9. CASE FrameAllocRefused
    BY <2>9 DEF FrameAllocRefused, Abort, FrameOnly
  <2>10. CASE FrameModesetRefused
    BY <2>10 DEF FrameModesetRefused, Abort, FrameOnly
  <2> QED
    BY <1>1, <2>1, <2>2, <2>3, <2>4, <2>5, <2>6, <2>7, <2>8, <2>9, <2>10 DEF FrameNext
<1>2. CASE DisplayNext
  <2>1. CASE DisplayEnds
    BY <2>1 DEF DisplayEnds, DisplayOnly
  <2>2. CASE DisplayContinues
    BY <2>2 DEF DisplayContinues, DisplayOnly
  <2>3. CASE DisplaySleeps
    BY <2>3 DEF DisplaySleeps, DisplayOnly
  <2>4. CASE DisplayLeaves
    BY <2>4 DEF DisplayLeaves, DisplayOnly
  <2>5. CASE DisplayTakes
    BY <2>5 DEF DisplayTakes, DisplayOnly, ClearPosted, Framebuffer, None
  <2>6. CASE DisplayRequest
    BY <2>6 DEF DisplayRequest, DisplayOnly
  <2>7. CASE DisplayCommits
    <3>1. PICK capture \in {FALSE, dvr_wb_mode /\ fb_id # None} :
            CommitOk(capture) \/ CommitFails(capture)
      BY <2>7, Zenon DEF DisplayCommits
    <3>2. wb_commit_fails' \in 0..WB_COMMIT_FAILS /\ CaptureBelowCap'
      <4>1. CASE CommitOk(capture)
        BY <4>1 DEF CommitOk
      <4>2. CASE CommitFails(capture) /\ ~capture
        BY <4>2 DEF CommitFails
      <4>3. CASE CommitFails(capture) /\ capture
        <5>1. dvr_wb_mode
          BY <3>1, <4>3, Zenon
        <5>2. wb_commit_fails' = wb_commit_fails + 1
          BY <4>3 DEF CommitFails
        <5>3. dvr_wb_mode' => wb_commit_fails + 1 < WB_COMMIT_FAILS
          BY <4>3, Zenon DEF CommitFails, GiveUp
        <5> QED
          BY <5>1, <5>2, <5>3
      <4> QED
        BY <3>1, <4>1, <4>2, <4>3
    <3>3. shown' \in Nat /\ None \in Framebuffer
      BY <2>7 DEF DisplayCommits, Framebuffer, None
    <3> QED
      BY <2>7, <3>2, <3>3 DEF DisplayCommits, DisplayOnly
  <2> QED
    BY <1>2, <2>1, <2>2, <2>3, <2>4, <2>5, <2>6, <2>7 DEF DisplayNext
<1>3. CASE OsdNext
  <2>1. CASE OsdPaints
    BY <2>1 DEF OsdPaints, OsdOnly
  <2>2. CASE OsdSwitches
    BY <2>2 DEF OsdSwitches, OsdOnly
  <2>3. CASE OsdNotifies
    BY <2>3 DEF OsdNotifies, OsdOnly, Signalled
  <2>4. CASE OsdEnds
    BY <2>4 DEF OsdEnds, OsdOnly
  <2> QED
    BY <1>3, <2>1, <2>2, <2>3, <2>4 DEF OsdNext
<1>4. CASE MainNext
  <2>1. CASE RestartFeedsEos
    BY <2>1 DEF RestartFeedsEos, MainOnly, Stream, Threads
  <2>2. CASE RestartJoins
    BY <2>2 DEF RestartJoins, MainOnly, Stream, Threads, Signalled
  <2>3. CASE RestartRecreates
    BY <2>3 DEF RestartRecreates, cleanup_mpi, MainOnly, Stream, Threads
  <2>4. CASE StreamEnds
    BY <2>4 DEF StreamEnds, MainOnly, Stream, Threads
  <2>5. CASE JoinFrameWakesDisplay
    BY <2>5 DEF JoinFrameWakesDisplay, MainOnly, Stream, Threads, Goto, Signalled
  <2>6. CASE JoinDisplay
    BY <2>6 DEF JoinDisplay, MainOnly, Stream, Threads, Goto
  <2>7. CASE ShutsDown
    BY <2>7 DEF ShutsDown, MainOnly, Stream, Threads, Goto, Stopping
  <2>8. CASE JoinEncoder
    BY <2>8 DEF JoinEncoder, MainOnly, Stream, Threads, Goto
  <2>9. CASE JoinDvr
    BY <2>9 DEF JoinDvr, MainOnly, Stream, Threads, Goto
  <2>10. CASE JoinDvrTimeout
    BY <2>10 DEF JoinDvrTimeout, MainOnly, Stream, Threads, Goto
  <2>11. CASE StopOsd
    BY <2>11 DEF StopOsd, MainOnly, Stream, Threads, Goto
  <2>12. CASE JoinOsdDestroys
    BY <2>12 DEF JoinOsdDestroys, MainOnly, Stream, Threads, Goto
  <2>13. CASE Restores
    BY <2>13 DEF Restores, cleanup_mpi, MainOnly, Stream, Threads
  <2>14. CASE JoinPendingDeletes
    BY <2>14 DEF JoinPendingDeletes, MainOnly, Stream, Threads, Goto
  <2> QED
    BY <1>4, <2>1, <2>2, <2>3, <2>4, <2>5, <2>6, <2>7, <2>8, <2>9, <2>10, <2>11, <2>12,
       <2>13, <2>14 DEF MainNext
<1>5. CASE DisplayWakes
  BY <1>5 DEF DisplayWakes, DisplayOnly
<1>6. CASE sig_handler
  BY <1>6 DEF sig_handler, MainOnly, Stream, Threads
<1>7. CASE StreamUp
  BY <1>7 DEF StreamUp, MainOnly, Stream, Threads
<1>8. CASE CodecChanges
  BY <1>8 DEF CodecChanges, MainOnly, Stream, Threads
<1>9. CASE EncoderEnds
  BY <1>9 DEF EncoderEnds, MainOnly, Stream, Threads
<1>10. CASE WorkerEnds
  BY <1>10 DEF WorkerEnds, MainOnly, Stream, Threads
<1>11. CASE UNCHANGED vars
  BY <1>11 DEF vars
<1> QED
  BY <1>1, <1>2, <1>3, <1>4, <1>5, <1>6, <1>7, <1>8, <1>9, <1>10, <1>11 DEF Next, Ended

\* Every step keeps the frames numbered in order.
LEMMA NextNumbered == IInv /\ [Next]_vars => Numbered'
<1> SUFFICES ASSUME IInv, [Next]_vars PROVE Numbered'
  OBVIOUS
<1> USE HandoffAssumption DEF HandoffAssumption, IInv, Rest, Numbered, InHand, Posted,
           None, Framebuffer, DisplayStep
<1>1. CASE FrameNext
  <2>1. CASE FrameEnds
    BY <2>1 DEF FrameEnds, FrameOnly
  <2>2. CASE FrameContinues
    BY <2>2 DEF FrameContinues, FrameOnly
  <2>3. CASE FrameTimeout
    BY <2>3 DEF FrameTimeout, Abort, FrameOnly
  <2>4. CASE FrameInfoChange
    BY <2>4 DEF FrameInfoChange, FrameOnly
  <2>5. CASE FrameAlloc
    BY <2>5 DEF FrameAlloc, FrameOnly
  <2>6. CASE FrameModeset
    BY <2>6 DEF FrameModeset, FrameOnly
  <2>7. CASE FramePost
    BY <2>7 DEF FramePost, FrameOnly, Signalled
  <2>8. CASE FrameEos
    BY <2>8 DEF FrameEos, FrameOnly
  <2>9. CASE FrameAllocRefused
    BY <2>9 DEF FrameAllocRefused, Abort, FrameOnly
  <2>10. CASE FrameModesetRefused
    BY <2>10 DEF FrameModesetRefused, Abort, FrameOnly
  <2> QED
    BY <1>1, <2>1, <2>2, <2>3, <2>4, <2>5, <2>6, <2>7, <2>8, <2>9, <2>10 DEF FrameNext
<1>2. CASE DisplayNext
  <2>1. CASE DisplayEnds
    BY <2>1 DEF DisplayEnds, DisplayOnly
  <2>2. CASE DisplayContinues
    BY <2>2 DEF DisplayContinues, DisplayOnly
  <2>3. CASE DisplaySleeps
    BY <2>3 DEF DisplaySleeps, DisplayOnly
  <2>4. CASE DisplayLeaves
    BY <2>4 DEF DisplayLeaves, DisplayOnly, LeavesLoop
  <2>5. CASE DisplayTakes
    BY <2>5 DEF DisplayTakes, DisplayOnly, ClearPosted
  <2>6. CASE DisplayRequest
    BY <2>6 DEF DisplayRequest, DisplayOnly
  <2>7. CASE DisplayCommits
    BY <2>7 DEF DisplayCommits, DisplayOnly
  <2> QED
    BY <1>2, <2>1, <2>2, <2>3, <2>4, <2>5, <2>6, <2>7 DEF DisplayNext
<1>3. CASE OsdNext
  <2>1. CASE OsdPaints
    BY <2>1 DEF OsdPaints, OsdOnly
  <2>2. CASE OsdSwitches
    BY <2>2 DEF OsdSwitches, OsdOnly
  <2>3. CASE OsdNotifies
    BY <2>3 DEF OsdNotifies, OsdOnly, Signalled
  <2>4. CASE OsdEnds
    BY <2>4 DEF OsdEnds, OsdOnly
  <2> QED
    BY <1>3, <2>1, <2>2, <2>3, <2>4 DEF OsdNext
<1>4. CASE MainNext
  <2>1. CASE RestartFeedsEos
    BY <2>1 DEF RestartFeedsEos, MainOnly, Stream, Threads
  <2>2. CASE RestartJoins
    BY <2>2 DEF RestartJoins, MainOnly, Stream, Threads, Signalled
  <2>3. CASE RestartRecreates
    BY <2>3 DEF RestartRecreates, cleanup_mpi, MainOnly, Stream, Threads
  <2>4. CASE StreamEnds
    BY <2>4 DEF StreamEnds, MainOnly, Stream, Threads
  <2>5. CASE JoinFrameWakesDisplay
    BY <2>5 DEF JoinFrameWakesDisplay, MainOnly, Stream, Threads, Goto, Signalled
  <2>6. CASE JoinDisplay
    BY <2>6 DEF JoinDisplay, MainOnly, Stream, Threads, Goto
  <2>7. CASE ShutsDown
    BY <2>7 DEF ShutsDown, MainOnly, Stream, Threads, Goto
  <2>8. CASE JoinEncoder
    BY <2>8 DEF JoinEncoder, MainOnly, Stream, Threads, Goto
  <2>9. CASE JoinDvr
    BY <2>9 DEF JoinDvr, MainOnly, Stream, Threads, Goto
  <2>10. CASE JoinDvrTimeout
    BY <2>10 DEF JoinDvrTimeout, MainOnly, Stream, Threads, Goto
  <2>11. CASE StopOsd
    BY <2>11 DEF StopOsd, MainOnly, Stream, Threads, Goto
  <2>12. CASE JoinOsdDestroys
    BY <2>12 DEF JoinOsdDestroys, MainOnly, Stream, Threads, Goto
  <2>13. CASE Restores
    BY <2>13 DEF Restores, cleanup_mpi, MainOnly, Stream, Threads
  <2>14. CASE JoinPendingDeletes
    BY <2>14 DEF JoinPendingDeletes, MainOnly, Stream, Threads, Goto
  <2> QED
    BY <1>4, <2>1, <2>2, <2>3, <2>4, <2>5, <2>6, <2>7, <2>8, <2>9, <2>10, <2>11, <2>12,
       <2>13, <2>14 DEF MainNext
<1>5. CASE DisplayWakes
  BY <1>5 DEF DisplayWakes, DisplayOnly
<1>6. CASE sig_handler
  BY <1>6 DEF sig_handler, MainOnly, Stream, Threads
<1>7. CASE StreamUp
  BY <1>7 DEF StreamUp, MainOnly, Stream, Threads
<1>8. CASE CodecChanges
  BY <1>8 DEF CodecChanges, MainOnly, Stream, Threads
<1>9. CASE EncoderEnds
  BY <1>9 DEF EncoderEnds, MainOnly, Stream, Threads
<1>10. CASE WorkerEnds
  BY <1>10 DEF WorkerEnds, MainOnly, Stream, Threads
<1>11. CASE UNCHANGED vars
  BY <1>11 DEF vars
<1> QED
  BY <1>1, <1>2, <1>3, <1>4, <1>5, <1>6, <1>7, <1>8, <1>9, <1>10, <1>11 DEF Next, Ended

\* Every step keeps the wake-ups, the OSD buffers and the order of the joins.
LEMMA NextSafe == IInv /\ [Next]_vars => Safe'
<1> SUFFICES ASSUME IInv, [Next]_vars PROVE Safe'
  OBVIOUS
<1> USE DEF IInv, Rest, MainStep, DisplayStep, Safe, NoSleepOnWork, PaintsHiddenOsd,
           JoinOrder, NothingToShow
<1> USE DEF AfterFrame, AfterDisplay, AfterEncoder, AfterOsd
<1>1. CASE FrameNext
  <2>1. CASE FrameEnds
    BY <2>1 DEF FrameEnds, FrameOnly
  <2>2. CASE FrameContinues
    BY <2>2 DEF FrameContinues, FrameOnly
  <2>3. CASE FrameTimeout
    BY <2>3 DEF FrameTimeout, Abort, FrameOnly
  <2>4. CASE FrameInfoChange
    BY <2>4 DEF FrameInfoChange, FrameOnly
  <2>5. CASE FrameAlloc
    BY <2>5 DEF FrameAlloc, FrameOnly
  <2>6. CASE FrameModeset
    BY <2>6 DEF FrameModeset, FrameOnly
  <2>7. CASE FramePost
    BY <2>7 DEF FramePost, FrameOnly, Signalled
  <2>8. CASE FrameEos
    BY <2>8 DEF FrameEos, FrameOnly
  <2>9. CASE FrameAllocRefused
    BY <2>9 DEF FrameAllocRefused, Abort, FrameOnly
  <2>10. CASE FrameModesetRefused
    BY <2>10 DEF FrameModesetRefused, Abort, FrameOnly
  <2> QED
    BY <1>1, <2>1, <2>2, <2>3, <2>4, <2>5, <2>6, <2>7, <2>8, <2>9, <2>10 DEF FrameNext
<1>2. CASE DisplayNext
  <2>1. CASE DisplayEnds
    BY <2>1 DEF DisplayEnds, DisplayOnly
  <2>2. CASE DisplayContinues
    BY <2>2 DEF DisplayContinues, DisplayOnly
  <2>3. CASE DisplaySleeps
    BY <2>3 DEF DisplaySleeps, DisplayOnly
  <2>4. CASE DisplayLeaves
    BY <2>4 DEF DisplayLeaves, DisplayOnly, LeavesLoop
  <2>5. CASE DisplayTakes
    BY <2>5 DEF DisplayTakes, DisplayOnly, ClearPosted
  <2>6. CASE DisplayRequest
    BY <2>6 DEF DisplayRequest, DisplayOnly
  <2>7. CASE DisplayCommits
    BY <2>7 DEF DisplayCommits, DisplayOnly
  <2> QED
    BY <1>2, <2>1, <2>2, <2>3, <2>4, <2>5, <2>6, <2>7 DEF DisplayNext
<1>3. CASE OsdNext
  <2>1. CASE OsdPaints
    BY <2>1 DEF OsdPaints, OsdOnly
  <2>2. CASE OsdSwitches
    BY <2>2 DEF OsdSwitches, OsdOnly
  <2>3. CASE OsdNotifies
    BY <2>3 DEF OsdNotifies, OsdOnly, Signalled
  <2>4. CASE OsdEnds
    BY <2>4 DEF OsdEnds, OsdOnly
  <2> QED
    BY <1>3, <2>1, <2>2, <2>3, <2>4 DEF OsdNext
<1>4. CASE MainNext
  <2>1. CASE RestartFeedsEos
    BY <2>1 DEF RestartFeedsEos, MainOnly, Stream, Threads
  <2>2. CASE RestartJoins
    BY <2>2 DEF RestartJoins, MainOnly, Stream, Threads, Signalled
  <2>3. CASE RestartRecreates
    BY <2>3 DEF RestartRecreates, cleanup_mpi, MainOnly, Stream, Threads
  <2>4. CASE StreamEnds
    BY <2>4 DEF StreamEnds, MainOnly, Stream, Threads
  <2>5. CASE JoinFrameWakesDisplay
    BY <2>5 DEF JoinFrameWakesDisplay, MainOnly, Stream, Threads, Goto, Signalled
  <2>6. CASE JoinDisplay
    BY <2>6 DEF JoinDisplay, MainOnly, Stream, Threads, Goto
  <2>7. CASE ShutsDown
    BY <2>7 DEF ShutsDown, MainOnly, Stream, Threads, Goto, Stopping
  <2>8. CASE JoinEncoder
    BY <2>8 DEF JoinEncoder, MainOnly, Stream, Threads, Goto
  <2>9. CASE JoinDvr
    BY <2>9 DEF JoinDvr, MainOnly, Stream, Threads, Goto
  <2>10. CASE JoinDvrTimeout
    BY <2>10 DEF JoinDvrTimeout, MainOnly, Stream, Threads, Goto
  <2>11. CASE StopOsd
    BY <2>11 DEF StopOsd, MainOnly, Stream, Threads, Goto
  <2>12. CASE JoinOsdDestroys
    BY <2>12 DEF JoinOsdDestroys, MainOnly, Stream, Threads, Goto
  <2>13. CASE Restores
    BY <2>13 DEF Restores, cleanup_mpi, MainOnly, Stream, Threads
  <2>14. CASE JoinPendingDeletes
    BY <2>14 DEF JoinPendingDeletes, MainOnly, Stream, Threads, Goto
  <2> QED
    BY <1>4, <2>1, <2>2, <2>3, <2>4, <2>5, <2>6, <2>7, <2>8, <2>9, <2>10, <2>11, <2>12,
       <2>13, <2>14 DEF MainNext
<1>5. CASE DisplayWakes
  BY <1>5 DEF DisplayWakes, DisplayOnly
<1>6. CASE sig_handler
  BY <1>6 DEF sig_handler, MainOnly, Stream, Threads
<1>7. CASE StreamUp
  BY <1>7 DEF StreamUp, MainOnly, Stream, Threads
<1>8. CASE CodecChanges
  BY <1>8 DEF CodecChanges, MainOnly, Stream, Threads
<1>9. CASE EncoderEnds
  BY <1>9 DEF EncoderEnds, MainOnly, Stream, Threads
<1>10. CASE WorkerEnds
  BY <1>10 DEF WorkerEnds, MainOnly, Stream, Threads
<1>11. CASE UNCHANGED vars
  BY <1>11 DEF vars
<1> QED
  BY <1>1, <1>2, <1>3, <1>4, <1>5, <1>6, <1>7, <1>8, <1>9, <1>10, <1>11 DEF Next, Ended

-----------------------------------------------------------------------------
\* IInv is an invariant of the specification.
LEMMA HandoffInvariant == Spec => []IInv
<1>1. IInv /\ [Next]_vars => IInv'
  BY NextBooleans, NextRest, NextNumbered, NextSafe DEF IInv
<1> QED
  BY InitIInv, <1>1, PTL DEF Spec

\* Type correctness of the hand-off, the cap of the failed captures included.
THEOREM HandoffTypeOK == Spec => []TypeOK
<1>1. IInv => TypeOK
  BY Zenon DEF IInv, TypeOK, Booleans, Rest, DisplayStep
<1> QED
  BY HandoffInvariant, <1>1, PTL

\* The display thread never sleeps while a frame or a redrawn OSD waits for it.
THEOREM HandoffNoSleepOnWork == Spec => []NoSleepOnWork
<1>1. IInv => NoSleepOnWork
  BY DEF IInv, Safe
<1> QED
  BY HandoffInvariant, <1>1, PTL

\* The OSD thread never paints the buffer the display thread may commit.
THEOREM HandoffPaintsHiddenOsd == Spec => []PaintsHiddenOsd
<1>1. IInv => PaintsHiddenOsd
  BY DEF IInv, Safe
<1> QED
  BY HandoffInvariant, <1>1, PTL

\* The decoder is recreated only while no FRAME thread runs.
THEOREM HandoffDecoderOwned == Spec => []DecoderOwned
<1>1. IInv => DecoderOwned
  BY DEF IInv, Safe, JoinOrder, AfterFrame, DecoderOwned
<1> QED
  BY HandoffInvariant, <1>1, PTL

\* video_mutex and video_cond outlive the threads that use them.
THEOREM HandoffPrimitivesAlive == Spec => []PrimitivesAlive
<1>1. IInv => PrimitivesAlive
  BY DEF IInv, Safe, JoinOrder, AfterFrame, AfterDisplay, AfterOsd, PrimitivesAlive
<1> QED
  BY HandoffInvariant, <1>1, PTL

\* The recorder and the encoder are deleted after every thread that reads them ended.
THEOREM HandoffDeletedLast == Spec => []DeletedLast
<1>1. IInv => DeletedLast
  BY DEF IInv, Safe, JoinOrder, AfterFrame, AfterDisplay, AfterEncoder, DeletedLast
<1> QED
  BY HandoffInvariant, <1>1, PTL

\* No thread uses what main recreates, destroys or deletes, on a restart or at exit.
THEOREM HandoffResourcesAlive == Spec => []ResourcesAlive
BY HandoffDecoderOwned, HandoffPrimitivesAlive, HandoffDeletedLast, PTL DEF ResourcesAlive

\* Frames reach the screen in the order they were decoded, each at most once.
THEOREM HandoffFramesInOrder == Spec => FramesInOrder
<1>1. IInv /\ [Next]_vars => [fb_id' # fb_id /\ fb_id' # None => fb_id'.n > shown]_vars
  <2> SUFFICES ASSUME IInv, Next, fb_id' # fb_id, fb_id' # None PROVE fb_id'.n > shown
    OBVIOUS
  <2>1. DisplayTakes
    <3>1. CASE FrameNext
      BY <3>1 DEF FrameNext, FrameEnds, FrameContinues, FrameTimeout, FrameInfoChange,
                  FrameAlloc, FrameModeset, FramePost, FrameEos, FrameAllocRefused,
                  FrameModesetRefused, Abort, FrameOnly
    <3>2. CASE DisplayNext \/ DisplayWakes
      BY <3>2 DEF DisplayNext, DisplayEnds, DisplayContinues, DisplaySleeps, DisplayLeaves,
                  DisplayRequest, DisplayCommits, DisplayWakes
    <3>3. CASE OsdNext
      BY <3>3 DEF OsdNext, OsdPaints, OsdSwitches, OsdNotifies, OsdEnds, OsdOnly
    <3>4. CASE MainNext
      BY <3>4 DEF MainNext, RestartFeedsEos, RestartJoins, RestartRecreates, StreamEnds,
                  JoinFrameWakesDisplay, JoinDisplay, ShutsDown, JoinEncoder, JoinDvr,
                  JoinDvrTimeout, StopOsd, JoinOsdDestroys, Restores, JoinPendingDeletes,
                  Goto, MainOnly
    <3>5. CASE sig_handler \/ StreamUp \/ CodecChanges \/ EncoderEnds \/ WorkerEnds
      BY <3>5 DEF sig_handler, StreamUp, CodecChanges, EncoderEnds, WorkerEnds, MainOnly
    <3>6. CASE Ended
      BY <3>6 DEF Ended, vars
    <3> QED
      BY <3>1, <3>2, <3>3, <3>4, <3>5, <3>6 DEF Next
  <2> QED
    BY <2>1 DEF DisplayTakes, IInv, Rest, Numbered, Posted, Framebuffer
<1> QED
  BY HandoffInvariant, <1>1, PTL DEF Spec, FramesInOrder

=============================================================================
