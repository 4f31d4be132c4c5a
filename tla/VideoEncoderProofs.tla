------------------------- MODULE VideoEncoderProofs -------------------------
(***************************************************************************)
(* The safety properties of VideoEncoder, for every pool of slots, limit   *)
(* and bound.  They rest on one inductive invariant, IInv: what the        *)
(* encoder thread has in hand at each of its steps, who holds which slot,  *)
(* what MPP and submitted_pts have in common, what may still be queued     *)
(* once the main thread joins, and which geometry queued frames have.      *)
(***************************************************************************)
EXTENDS VideoEncoder, SeqFilterProofs, TLAPS

-----------------------------------------------------------------------------
(* The inductive invariant *)

\* The steps of teardown(), and those of encode() after the drain.
Ending == {"teardown", "flush", "release", "cleanup"}
Encoding == {"import", "idr", "idr_store", "submit"}

\* Where the encoder thread has a frame in hand.
HasFrame ==
  \/ epc \in {"frame", "init", "fence"} \cup Encoding
  \/ epc = "drain" /\ next = "import"
  \/ epc \in Ending /\ next = "init"

TaskInHand == HasFrame <=> IsFrame(task)

\* What follows a drain, and what follows teardown().
NextFits ==
  /\ epc = "drain" => next \in {"import", "after"}
  /\ epc \in Ending => next \in {"loop", "init", "done"}

\* The display thread holds a slot only between claim and hand-off, the encoder
\* thread holds none of a previous frame once the new one is imported or teardown()
\* released it, and without writeback capture there are none at all.
DisplayHolds == dpc # "claimed" => wb_idx = NoSlot
PendingClear == epc \in Encoding \cup {"cleanup", "done"} => wb_pending_index = NoSlot
TapHoldsNothing == ~Writeback => wb_busy = {} /\ ~dvr_wb_mode /\ dpc # "claimed"

\* submitted_pts and the frame counters match what MPP holds.
StreamPaired ==
  /\ PtsPaired
  /\ Len(submitted_pts) = Len(mpp)
  /\ \A i \in 1..Len(mpp) : submitted_pts[i] = mpp[i].n
  /\ frames_submitted = frames_emitted + Len(mpp)

\* idr_requested is cleared only after MPP was asked for an IDR.
IdrAsked == epc = "idr_store" => mpp_idr

\* Once the main thread joins nothing captures, and only then a SHUTDOWN is queued.
Joining ==
  /\ main = "joining" => dpc = "gone" /\ \A i \in 1..Len(queue) : ~IsFrame(queue[i])
  /\ \A i \in 1..Len(queue) : queue[i].kind = "SHUTDOWN" => main = "joining"

\* The encoder thread ends only then, with no session and nothing inside MPP.
EndsLast ==
  /\ (epc \in Ending /\ next = "done") \/ epc = "done" => main = "joining"
  /\ epc = "done" => ~ready /\ mpp = <<>>

\* A queued frame was queued below the limit.
FramesBelowLimit == \A i \in 1..Len(queue) : IsFrame(queue[i]) => i <= MAX_PENDING_FRAMES

\* Decode tap: queued frames have the decoder's geometry and follow every
\* geometry change, the last of which is the decoder's; the frame in hand has the
\* encoder's, and so has a session that need not be rebuilt.
IsParams(t) == t.kind = "PARAMS"
FramesFollow ==
  \A i \in 1..Len(queue) : IsFrame(queue[i]) =>
    /\ queue[i].geo = frm_geo /\ frm_geo # 0
    /\ \A j \in i..Len(queue) : ~IsParams(queue[j])
LastParams ==
  \A i \in 1..Len(queue) : IsParams(queue[i]) =>
    queue[i].geo = frm_geo \/ \E j \in i+1..Len(queue) : IsParams(queue[j])
ParamsPending == video_geo = frm_geo \/ \E j \in 1..Len(queue) : IsParams(queue[j])
QueueGeometry == FramesFollow /\ LastParams /\ ParamsPending
HandGeometry == HasFrame => task.geo = video_geo /\ video_geo # 0
SessionGeometry ==
  /\ ready /\ ~geometry_dirty => cur_geo = video_geo
  /\ epc = "fence" \/ (epc = "drain" /\ next = "import") \/ epc \in Encoding
       => ready /\ ~geometry_dirty
  /\ epc = "init" => ~ready
TapGeometry == ~Writeback => QueueGeometry /\ HandGeometry /\ SessionGeometry

\* The inductive invariant.
IInv ==
  /\ TypeOK /\ TaskInHand /\ NextFits
  /\ DisplayHolds /\ PendingClear /\ TapHoldsNothing /\ SlotsOwned
  /\ StreamPaired /\ IdrAsked /\ KeyframeOwed
  /\ Joining /\ EndsLast /\ FramesBelowLimit /\ TapGeometry

-----------------------------------------------------------------------------
(* Sequences, tasks and the queue *)

\* What appending an element makes.
LEMMA AppendFacts ==
  ASSUME NEW S, NEW s \in Seq(S), NEW e \in S
  PROVE  /\ Append(s, e) \in Seq(S) /\ Len(Append(s, e)) = Len(s) + 1 /\ Len(s) \in Nat
         /\ Append(s, e)[Len(s) + 1] = e
         /\ \A i \in 1..Len(s) : Append(s, e)[i] = s[i]
OBVIOUS

\* What the first element and the rest of a sequence are.
LEMMA HeadAndTail ==
  ASSUME NEW S, NEW s \in Seq(S), s # <<>>
  PROVE  /\ Head(s) \in S /\ Head(s) = s[1] /\ Tail(s) \in Seq(S)
         /\ Len(s) >= 1 /\ Len(Tail(s)) = Len(s) - 1
         /\ \A i \in 1..Len(Tail(s)) : i + 1 \in 1..Len(s) /\ Tail(s)[i] = s[i + 1]
OBVIOUS

\* An index that names no slot is an index.
LEMMA NoSlotTyped == NoSlot \in AnySlot
BY DEF AnySlot

\* The tasks that are put on the queue are tasks.
LEMMA TaskRecords ==
  /\ \A n \in Nat, slot \in AnySlot, geo \in Nat :
       [kind |-> "FRAME", n |-> n, slot |-> slot, geo |-> geo] \in Frame
  /\ \A geo \in Nat : [kind |-> "PARAMS", geo |-> geo] \in Task
  /\ \A kind \in {"POST", "RESTART", "SHUTDOWN"} : [kind |-> kind] \in Task
  /\ Frame \subseteq Task
<1>1. \A n \in Nat, slot \in AnySlot, geo \in Nat :
        [kind |-> "FRAME", n |-> n, slot |-> slot, geo |-> geo] \in Frame
  BY Zenon DEF Frame
<1>2. \A geo \in Nat : [kind |-> "PARAMS", geo |-> geo] \in Task
  BY Zenon DEF Task
<1>3. \A kind \in {"POST", "RESTART", "SHUTDOWN"} : [kind |-> kind] \in Task
  BY Zenon DEF Task
<1>4. Frame \subseteq Task
  BY DEF Task
<1> QED
  BY <1>1, <1>2, <1>3, <1>4

\* What the fields of a task are.
LEMMA TaskFields ==
  ASSUME NEW t \in Task \cup {NoTask}
  PROVE  /\ IsFrame(t) <=> t \in Frame
         /\ IsFrame(t) => t.n \in Nat /\ t.slot \in AnySlot /\ t.geo \in Nat
         /\ t.kind = "PARAMS" => t.geo \in Nat
         /\ Slot(t) \in AnySlot
<1>1. CASE t \in Frame
  BY <1>1 DEF Frame, IsFrame, Slot
<1>2. CASE t \in [kind : {"POST", "RESTART", "SHUTDOWN"}]
  BY <1>2 DEF Frame, IsFrame, Slot, AnySlot
<1>3. CASE t \in [kind : {"PARAMS"}, geo : Nat]
  BY <1>3 DEF Frame, IsFrame, Slot, AnySlot
<1>4. CASE t = NoTask
  BY <1>4 DEF Frame, IsFrame, Slot, AnySlot, NoTask
<1> QED
  BY <1>1, <1>2, <1>3, <1>4 DEF Task

\* A control task queued with the frames dropped keeps the types.
LEMMA QueueTyped ==
  ASSUME queue \in Seq(Task), NEW t \in Task, EnqueueDropping(t)
  PROVE  queue' \in Seq(Task) /\ wb_busy' \subseteq wb_busy
<1> DEFINE I == 1..Len(queue) \ FramePositions(queue)
<1>1. I \in SUBSET (1..Len(queue))
  OBVIOUS
<1>2. queue' = Append(Keep(queue, I), t) /\ wb_busy' \subseteq wb_busy
  BY DEF EnqueueDropping, drop_pending_frames
<1> HIDE DEF I
<1>3. Keep(queue, I) \in Seq(Task)
  BY <1>1, KeepCorrect
<1> QED
  BY <1>2, <1>3, AppendFacts

\* Taking a task off the queue.
LEMMA TakeTyped ==
  ASSUME queue \in Seq(Task), Take
  PROVE  /\ task' \in Task /\ queue' \in Seq(Task) /\ Head(queue) \in Task
         /\ Len(queue) \in Nat /\ Len(queue') = Len(queue) - 1
         /\ \A i \in 1..Len(queue') : i + 1 \in 1..Len(queue) /\ queue'[i] = queue[i + 1]
<1>1. queue # <<>> /\ task' = Head(queue) /\ queue' = Tail(queue)
  BY DEF Take
<1> QED
  BY <1>1, HeadAndTail

\* A control task queued with the frames dropped: what was there and is no frame
\* stays, in order, and the task is last.
LEMMA QueueDropped ==
  ASSUME queue \in Seq(Task), NEW t \in Task, EnqueueDropping(t)
  PROVE  \E pos \in Seq(1..Len(queue)) :
           /\ Len(queue') = Len(pos) + 1 /\ queue'[Len(pos) + 1] = t
           /\ \A i \in 1..Len(pos) : queue'[i] = queue[pos[i]] /\ ~IsFrame(queue'[i])
           /\ \A a, b \in 1..Len(pos) : a < b => pos[a] < pos[b]
           /\ \A j \in 1..Len(queue) : ~IsFrame(queue[j]) => \E i \in 1..Len(pos) : pos[i] = j
<1> DEFINE I == 1..Len(queue) \ FramePositions(queue)
           kept == Keep(queue, I)
           m == Len(kept)
           pos == [i \in 1..m |-> InOrder(I)[i]]
<1>1. /\ I \in SUBSET (1..Len(queue)) /\ \A i \in I : ~IsFrame(queue[i])
      /\ \A j \in 1..Len(queue) : ~IsFrame(queue[j]) => j \in I
  BY DEF FramePositions
<1>2. queue' = Append(kept, t)
  BY DEF EnqueueDropping, drop_pending_frames
<1> HIDE DEF I
<1>3. /\ kept \in Seq(Task)
      /\ \A j \in 1..m : InOrder(I)[j] \in I /\ kept[j] = queue[InOrder(I)[j]]
      /\ \A i \in I : \E j \in 1..m : InOrder(I)[j] = i
      /\ \A a, b \in 1..m : a < b => InOrder(I)[a] < InOrder(I)[b]
  BY <1>1, KeepCorrect
<1> HIDE DEF kept
<1>4. m \in Nat /\ Len(queue') = m + 1 /\ queue'[m + 1] = t /\ \A i \in 1..m : queue'[i] = kept[i]
  BY <1>2, <1>3, AppendFacts
<1> HIDE DEF m
<1>5. \A i \in 1..m : InOrder(I)[i] \in 1..Len(queue)
  BY <1>1, <1>3
<1>6. pos \in Seq(1..Len(queue)) /\ Len(pos) = m /\ \A i \in 1..m : pos[i] = InOrder(I)[i]
  BY <1>4, <1>5
<1> HIDE DEF pos
<1>7. \A i \in 1..m : queue'[i] = queue[pos[i]] /\ ~IsFrame(queue'[i])
  <2> TAKE i \in 1..m
  <2>1. /\ InOrder(I)[i] \in I /\ queue'[i] = kept[i] /\ pos[i] = InOrder(I)[i]
        /\ kept[i] = queue[InOrder(I)[i]]
    BY <1>3, <1>4, <1>6
  <2> QED
    BY <1>1, <2>1, Zenon
<1>8. \A i, j \in 1..m : i < j => pos[i] < pos[j]
  BY <1>3, <1>6
<1>9. \A j \in 1..Len(queue) : ~IsFrame(queue[j]) => \E i \in 1..m : pos[i] = j
  BY <1>1, <1>3, <1>6
<1> QED
  BY <1>4, <1>6, <1>7, <1>8, <1>9

\* A frame is queued by writeback_frame() and frame(), below the limit.
LEMMA FrameAppended ==
  ASSUME DataOK, writeback_frame \/ frame, queue' # queue
  PROVE  \E t \in Frame :
           /\ queue' = Append(queue, t) /\ Len(queue) + 1 <= MAX_PENDING_FRAMES
           /\ main = "run" \/ dpc = "claimed"
           /\ ~Writeback /\ frame => t.geo = frm_geo /\ frm_geo # 0
<1>1. CASE writeback_frame
  <2> DEFINE t == [kind |-> "FRAME", n |-> captured, slot |-> wb_idx, geo |-> 0]
  <2>1. t \in Frame
    <3>1. captured \in Nat /\ wb_idx \in AnySlot /\ 0 \in Nat
      BY DEF DataOK
    <3> QED
      BY <3>1, TaskRecords, Zenon
  <2>2. queue' = Append(queue, t) /\ ~QueueFull /\ dpc = "claimed"
    BY <1>1, Zenon DEF writeback_frame
  <2>3. Len(queue) + 1 <= MAX_PENDING_FRAMES
    BY <2>2, EncoderAssumption DEF QueueFull, DataOK
  <2>4. frame => FALSE
    BY <1>1 DEF writeback_frame, frame, display, outside
  <2> QED
    BY <2>1, <2>2, <2>3, <2>4
<1>2. CASE frame
  <2> DEFINE t == [kind |-> "FRAME", n |-> captured + 1, slot |-> NoSlot, geo |-> frm_geo]
  <2>1. t \in Frame /\ t.geo = frm_geo
    <3>1. captured + 1 \in Nat /\ frm_geo \in Nat
      BY DEF DataOK
    <3> QED
      BY <3>1, TaskRecords, NoSlotTyped, Zenon
  <2>2. queue' = Append(queue, t) /\ ~QueueFull /\ main = "run" /\ frm_geo # 0
    BY <1>2, Zenon DEF frame
  <2>3. Len(queue) + 1 <= MAX_PENDING_FRAMES
    BY <2>2, EncoderAssumption DEF QueueFull, DataOK
  <2> QED
    BY <2>1, <2>2, <2>3
<1> QED
  BY <1>1, <1>2

-----------------------------------------------------------------------------
(* Types *)

\* The steps of the other threads.
Others == DisplayNext \/ CallerNext \/ UNCHANGED vars

\* They leave the encoder thread and what it keeps to itself alone.
LEMMA OthersKeepEncoder ==
  ASSUME Others
  PROVE  UNCHANGED <<encoder, mpp_idr>>
<1> USE DEF display, outside, stream, setup, hand, keys, encoder, encoderOnly
<1>1. CASE DisplayNext
  BY <1>1, Zenon DEF DisplayNext, DisplayClaim, writeback_frame, DisplayArmFails,
    DisplayCommitFails, DisplayExit
<1>2. CASE CallerNext
  BY <1>2, Zenon DEF CallerNext, set_video_params, DetachWriteback, frame, restart,
    post, request_keyframe, consumers_changed, shutdown
<1>3. CASE UNCHANGED vars
  BY <1>3, Zenon DEF vars
<1> QED
  BY <1>1, <1>2, <1>3 DEF Others

\* emit() keeps the types of what it changes.
LEMMA EmitTyped ==
  ASSUME DataOK, NEW n \in Nat, emit(n)
  PROVE  /\ submitted_pts' \in Seq(Nat) /\ last_pts' \in Nat /\ frames_emitted' \in Nat
         /\ last_au' \in [n : Nat, pts : Nat] /\ frames_submitted' \in Nat
<1>1. CASE submitted_pts = <<>>
  BY <1>1 DEF emit, DataOK
<1>2. CASE submitted_pts # <<>>
  <2>1. Head(submitted_pts) \in Nat /\ Tail(submitted_pts) \in Seq(Nat)
    BY <1>2 DEF DataOK
  <2> QED
    BY <1>2, <2>1 DEF emit, DataOK
<1> QED
  BY <1>1, <1>2

\* Every step leaves the flags Boolean.
LEMMA FlagsStep ==
  ASSUME FlagsOK, [Next]_vars
  PROVE  FlagsOK'
<1> USE DEF FlagsOK, display, outside, stream, setup, hand, keys, encoder, encoderOnly
<1>1. CASE DisplayClaim
  BY <1>1, Zenon DEF DisplayClaim
<1>2. CASE writeback_frame
  BY <1>2, Zenon DEF writeback_frame
<1>3. CASE DisplayArmFails
  BY <1>3, Zenon DEF DisplayArmFails
<1>4. CASE DisplayCommitFails
  BY <1>4, Zenon DEF DisplayCommitFails
<1>5. CASE DisplayExit
  BY <1>5, Zenon DEF DisplayExit
<1>6. CASE set_video_params
  BY <1>6, Zenon DEF set_video_params, Running
<1>7. CASE DetachWriteback
  BY <1>7, Zenon DEF DetachWriteback
<1>8. CASE frame
  BY <1>8, Zenon DEF frame
<1>9. CASE restart
  BY <1>9, Zenon DEF restart, Running
<1>10. CASE post
  BY <1>10, Zenon DEF post, Running
<1>11. CASE request_keyframe
  BY <1>11, Zenon DEF request_keyframe
<1>12. CASE consumers_changed
  BY <1>12, Zenon DEF consumers_changed
<1>13. CASE shutdown
  BY <1>13, Zenon DEF shutdown
<1>14. CASE TakeFrame
  BY <1>14, Zenon DEF TakeFrame, Take
<1>15. CASE TakePost
  BY <1>15, Zenon DEF TakePost, Take
<1>16. CASE TakeRestart
  BY <1>16, Zenon DEF TakeRestart, Take
<1>17. CASE TakeParams
  BY <1>17, Zenon DEF TakeParams, Take, NewGeometryRebuilds
<1>18. CASE TakeShutdown
  BY <1>18, Zenon DEF TakeShutdown, Take, ShutdownEnds, Teardown
<1>19. CASE After
  BY <1>19, Zenon DEF After, Teardown
<1>20. CASE FrameRefused
  BY <1>20, Zenon DEF FrameRefused, release_wb_frame
<1>21. CASE FrameAccepted
  BY <1>21, Zenon DEF FrameAccepted
<1>22. CASE FrameRebuilds
  BY <1>22, Zenon DEF FrameRebuilds, Teardown
<1>23. CASE InitOk
  BY <1>23, Zenon DEF InitOk
<1>24. CASE InitFails
  BY <1>24, Zenon DEF InitFails, release_wb_frame
<1>25. CASE FenceOk
  BY <1>25, Zenon DEF FenceOk
<1>26. CASE FenceTimeout
  BY <1>26, Zenon DEF FenceTimeout, release_wb_frame
<1>27. CASE DrainPacket
  BY <1>27, Zenon DEF DrainPacket
<1>28. CASE DrainDone
  BY <1>28, Zenon DEF DrainDone
<1>29. CASE ImportOk
  BY <1>29, Zenon DEF ImportOk
<1>30. CASE ImportFails
  BY <1>30, Zenon DEF ImportFails, release_wb_frame
<1>31. CASE IdrNeeded
  BY <1>31, Zenon DEF IdrNeeded
<1>32. CASE IdrNotDue
  BY <1>32, Zenon DEF IdrNotDue
<1>33. CASE IdrStore
  BY <1>33, Zenon DEF IdrStore
<1>34. CASE SubmitOk
  BY <1>34, Zenon DEF SubmitOk
<1>35. CASE SubmitFails
  BY <1>35, Zenon DEF SubmitFails, release_wb_frame
<1>36. CASE TeardownDrained
  BY <1>36, Zenon DEF TeardownDrained
<1>37. CASE FlushPacket
  BY <1>37, Zenon DEF FlushPacket
<1>38. CASE FlushExtraPacket
  BY <1>38, Zenon DEF FlushExtraPacket
<1>39. CASE FlushEnds
  BY <1>39, Zenon DEF FlushEnds
<1>40. CASE ReleasePending
  BY <1>40, Zenon DEF ReleasePending
<1>41. CASE Cleanup
  BY <1>41, Zenon DEF Cleanup
<1>42. CASE UNCHANGED vars
  BY <1>42, Zenon DEF vars
<1> QED
  BY <1>1, <1>2, <1>3, <1>4, <1>5, <1>6, <1>7, <1>8, <1>9, <1>10, <1>11, <1>12, <1>13,
    <1>14, <1>15, <1>16, <1>17, <1>18, <1>19, <1>20, <1>21, <1>22, <1>23, <1>24,
    <1>25, <1>26, <1>27, <1>28, <1>29, <1>30, <1>31, <1>32, <1>33, <1>34, <1>35,
    <1>36, <1>37, <1>38, <1>39, <1>40, <1>41, <1>42 DEF Next, DisplayNext, CallerNext,
    EncoderNext

\* Every step keeps the other variables in their types and the counters in range.
LEMMA DataStep ==
  ASSUME DataOK, TaskInHand, NextFits, [Next]_vars
  PROVE  DataOK'
<1> USE EncoderAssumption DEF DataOK, EncoderStep, Encoding, display, outside, stream,
  setup, hand, keys, encoder, encoderOnly
<1>1. CASE DisplayClaim
  <2>1. PICK slot \in Slots \ wb_busy : wb_idx' = slot /\ wb_busy' = wb_busy \cup {slot}
    BY <1>1 DEF DisplayClaim
  <2> QED
    BY <1>1, <2>1 DEF DisplayClaim, AnySlot
<1>2. CASE writeback_frame
  <2>1. [kind |-> "FRAME", n |-> captured, slot |-> wb_idx, geo |-> 0] \in Task
    <3>1. captured \in Nat /\ wb_idx \in AnySlot /\ 0 \in Nat
      OBVIOUS
    <3> QED
      BY <3>1, TaskRecords, Zenon
  <2>2. queue' \in Seq(Task)
    <3>1. \/ queue' = queue
          \/ queue' = Append(queue, [kind |-> "FRAME", n |-> captured, slot |-> wb_idx, geo |-> 0])
      BY <1>2, Zenon DEF writeback_frame
    <3>2. queue \in Seq(Task)
      OBVIOUS
    <3>3. \A t \in Task : Append(queue, t) \in Seq(Task)
      BY <3>2, AppendFacts
    <3> QED
      BY <2>1, <3>1, <3>2, <3>3, Zenon
  <2> QED
    BY <1>2, <2>2, NoSlotTyped DEF writeback_frame, DropReleasesSlot, pp_wb_release
<1>3. CASE DisplayArmFails
  BY <1>3, NoSlotTyped DEF DisplayArmFails, pp_wb_release
<1>4. CASE DisplayCommitFails
  BY <1>4, NoSlotTyped DEF DisplayCommitFails, pp_wb_release
<1>5. CASE DisplayExit
  BY <1>5 DEF DisplayExit
<1>6. CASE set_video_params
  <2>1. PICK geo \in Geometries : frm_geo' = geo /\ EnqueueDropping([kind |-> "PARAMS", geo |-> geo])
    BY <1>6 DEF set_video_params
  <2>2. geo \in Nat /\ [kind |-> "PARAMS", geo |-> geo] \in Task
    BY TaskRecords
  <2>3. queue' \in Seq(Task) /\ wb_busy' \subseteq wb_busy
    BY <2>1, <2>2, QueueTyped
  <2> QED
    BY <1>6, <2>1, <2>2, <2>3 DEF set_video_params, Running
<1>7. CASE DetachWriteback
  BY <1>7 DEF DetachWriteback
<1>8. CASE frame
  <2>1. captured' \in Nat
    BY <1>8 DEF frame
  <2>2. [kind |-> "FRAME", n |-> captured', slot |-> NoSlot, geo |-> frm_geo] \in Task
    BY <2>1, TaskRecords DEF AnySlot
  <2>3. queue' \in Seq(Task)
    BY <1>8, <2>2 DEF frame
  <2> QED
    BY <1>8, <2>1, <2>3 DEF frame
<1>9. CASE restart
  <2>1. [kind |-> "RESTART"] \in Task
    BY TaskRecords
  <2>2. queue' \in Seq(Task) /\ wb_busy' \subseteq wb_busy
    BY <1>9, <2>1, QueueTyped DEF restart
  <2> QED
    BY <1>9, <2>2 DEF restart, Running
<1>10. CASE post
  <2>1. [kind |-> "POST"] \in Task
    BY TaskRecords
  <2>2. queue' \in Seq(Task)
    BY <1>10, <2>1 DEF post
  <2> QED
    BY <1>10, <2>2 DEF post, Running
<1>11. CASE request_keyframe
  BY <1>11 DEF request_keyframe
<1>12. CASE consumers_changed
  BY <1>12 DEF consumers_changed
<1>13. CASE shutdown
  <2>1. [kind |-> "SHUTDOWN"] \in Task
    BY TaskRecords
  <2>2. queue' \in Seq(Task) /\ wb_busy' \subseteq wb_busy
    BY <1>13, <2>1, QueueTyped DEF shutdown
  <2> QED
    BY <1>13, <2>2 DEF shutdown
<1>14. CASE TakeFrame
  <2>1. task' \in Task /\ queue' \in Seq(Task)
    BY <1>14, TakeTyped DEF TakeFrame, Take
  <2> QED
    BY <1>14, <2>1 DEF TakeFrame, Take
<1>15. CASE TakePost
  <2>1. task' \in Task /\ queue' \in Seq(Task)
    BY <1>15, TakeTyped DEF TakePost, Take
  <2> QED
    BY <1>15, <2>1 DEF TakePost, Take
<1>16. CASE TakeRestart
  <2>1. task' \in Task /\ queue' \in Seq(Task)
    BY <1>16, TakeTyped DEF TakeRestart, Take
  <2> QED
    BY <1>16, <2>1 DEF TakeRestart, Take
<1>17. CASE TakeParams
  <2>1. task' \in Task /\ queue' \in Seq(Task)
    BY <1>17, TakeTyped DEF TakeParams, Take
  <2>2. Head(queue).geo \in Nat
    BY <1>17, TakeTyped, TaskFields DEF TakeParams
  <2> QED
    BY <1>17, <2>1, <2>2 DEF TakeParams, Take
<1>18. CASE TakeShutdown
  <2>1. task' \in Task /\ queue' \in Seq(Task)
    BY <1>18, TakeTyped DEF TakeShutdown, Take
  <2> QED
    BY <1>18, <2>1 DEF TakeShutdown, Take, ShutdownEnds, Teardown
<1>19. CASE After
  BY <1>19 DEF After, Teardown
<1>20. CASE FrameRefused
  BY <1>20 DEF FrameRefused, release_wb_frame, pp_wb_release
<1>21. CASE FrameAccepted
  BY <1>21 DEF FrameAccepted
<1>22. CASE FrameRebuilds
  BY <1>22 DEF FrameRebuilds, Teardown, AttemptsLeft
<1>23. CASE InitOk
  BY <1>23 DEF InitOk
<1>24. CASE InitFails
  BY <1>24 DEF InitFails, release_wb_frame, pp_wb_release
<1>25. CASE FenceOk
  BY <1>25 DEF FenceOk
<1>26. CASE FenceTimeout
  <2>1. frame_error_streak' \in 0..MAX_FRAME_ERROR_STREAK - 1
    BY <1>26 DEF FenceTimeout, FrameLost
  <2> QED
    BY <1>26, <2>1 DEF FenceTimeout, release_wb_frame, pp_wb_release
<1>27. CASE DrainPacket
  <2>1. Head(mpp).n \in Nat /\ Tail(mpp) \in Seq([n : Nat, slot : AnySlot])
    <3>1. mpp # <<>> /\ mpp \in Seq([n : Nat, slot : AnySlot])
      BY <1>27 DEF DrainPacket
    <3>2. Head(mpp) \in [n : Nat, slot : AnySlot] /\ Tail(mpp) \in Seq([n : Nat, slot : AnySlot])
      BY <3>1, HeadAndTail, Zenon
    <3> QED
      BY <3>2, Zenon
  <2>2. /\ submitted_pts' \in Seq(Nat) /\ last_pts' \in Nat /\ frames_emitted' \in Nat
        /\ last_au' \in [n : Nat, pts : Nat] /\ frames_submitted' \in Nat
    BY <1>27, <2>1, EmitTyped DEF DrainPacket
  <2> QED
    BY <1>27, <2>1, <2>2 DEF DrainPacket
<1>28. CASE DrainDone
  BY <1>28, NoSlotTyped DEF DrainDone, DrainReleases, pp_wb_release
<1>29. CASE ImportOk
  BY <1>29 DEF ImportOk
<1>30. CASE ImportFails
  <2>1. frame_error_streak' \in 0..MAX_FRAME_ERROR_STREAK - 1
    BY <1>30 DEF ImportFails, FrameLost
  <2> QED
    BY <1>30, <2>1 DEF ImportFails, release_wb_frame, pp_wb_release
<1>31. CASE IdrNeeded
  BY <1>31 DEF IdrNeeded
<1>32. CASE IdrNotDue
  BY <1>32 DEF IdrNotDue, AfterNoIdr
<1>33. CASE IdrStore
  BY <1>33 DEF IdrStore
<1>34. CASE SubmitOk
  <2>1. task.n \in Nat /\ task.slot \in AnySlot
    BY <1>34, TaskFields DEF SubmitOk, TaskInHand, HasFrame
  <2>2. [n |-> task.n, slot |-> task.slot] \in [n : Nat, slot : AnySlot]
    BY <2>1
  <2>3. submitted_pts' \in Seq(Nat) /\ mpp' \in Seq([n : Nat, slot : AnySlot])
    BY <1>34, <2>1, <2>2 DEF SubmitOk
  <2> QED
    BY <1>34, <2>1, <2>3 DEF SubmitOk
<1>35. CASE SubmitFails
  <2>1. frame_error_streak' \in 0..MAX_FRAME_ERROR_STREAK - 1
    BY <1>35 DEF SubmitFails, FrameLost
  <2> QED
    BY <1>35, <2>1 DEF SubmitFails, release_wb_frame, pp_wb_release
<1>36. CASE TeardownDrained
  BY <1>36 DEF TeardownDrained
<1>37. CASE FlushPacket
  <2>1. Head(mpp).n \in Nat /\ Tail(mpp) \in Seq([n : Nat, slot : AnySlot])
    <3>1. mpp # <<>> /\ mpp \in Seq([n : Nat, slot : AnySlot])
      BY <1>37 DEF FlushPacket
    <3>2. Head(mpp) \in [n : Nat, slot : AnySlot] /\ Tail(mpp) \in Seq([n : Nat, slot : AnySlot])
      BY <3>1, HeadAndTail, Zenon
    <3> QED
      BY <3>2, Zenon
  <2>2. /\ submitted_pts' \in Seq(Nat) /\ last_pts' \in Nat /\ frames_emitted' \in Nat
        /\ last_au' \in [n : Nat, pts : Nat] /\ frames_submitted' \in Nat
    BY <1>37, <2>1, EmitTyped DEF FlushPacket
  <2> QED
    BY <1>37, <2>1, <2>2 DEF FlushPacket
<1>38. CASE FlushExtraPacket
  <2>1. CASE AllEmitted
    BY <1>38, <2>1 DEF FlushExtraPacket
  <2>2. CASE ~AllEmitted
    <3>1. emit(0) /\ UNCHANGED mpp
      BY <1>38, <2>2 DEF FlushExtraPacket
    <3>2. /\ submitted_pts' \in Seq(Nat) /\ last_pts' \in Nat /\ frames_emitted' \in Nat
          /\ last_au' \in [n : Nat, pts : Nat] /\ frames_submitted' \in Nat
      BY <3>1, EmitTyped
    <3> QED
      BY <1>38, <3>1, <3>2 DEF FlushExtraPacket
  <2> QED
    BY <2>1, <2>2
<1>39. CASE FlushEnds
  BY <1>39 DEF FlushEnds
<1>40. CASE ReleasePending
  BY <1>40, NoSlotTyped DEF ReleasePending, pp_wb_release
<1>41. CASE Cleanup
  BY <1>41 DEF Cleanup, PtsCleared
<1>42. CASE UNCHANGED vars
  BY <1>42 DEF vars
<1> QED
  BY <1>1, <1>2, <1>3, <1>4, <1>5, <1>6, <1>7, <1>8, <1>9, <1>10, <1>11, <1>12, <1>13,
    <1>14, <1>15, <1>16, <1>17, <1>18, <1>19, <1>20, <1>21, <1>22, <1>23, <1>24,
    <1>25, <1>26, <1>27, <1>28, <1>29, <1>30, <1>31, <1>32, <1>33, <1>34, <1>35,
    <1>36, <1>37, <1>38, <1>39, <1>40, <1>41, <1>42 DEF Next, DisplayNext, CallerNext,
    EncoderNext

\* Every step keeps what the encoder thread has in hand and what it does next.
LEMMA HandStep ==
  ASSUME DataOK, TaskInHand, NextFits, [Next]_vars
  PROVE  TaskInHand' /\ NextFits'
<1> USE DEF DataOK, TaskInHand, NextFits, HasFrame, IsFrame, Ending, Encoding, NoTask,
  display, outside, stream, setup, hand, keys, encoder, encoderOnly
<1>1. CASE Others
  BY <1>1, OthersKeepEncoder
<1>2. CASE TakeFrame
  BY <1>2 DEF TakeFrame, Take
<1>3. CASE TakePost
  BY <1>3 DEF TakePost, Take
<1>4. CASE TakeRestart
  BY <1>4 DEF TakeRestart, Take
<1>5. CASE TakeParams
  BY <1>5 DEF TakeParams, Take
<1>6. CASE TakeShutdown
  BY <1>6 DEF TakeShutdown, Take, ShutdownEnds, Teardown
<1>7. CASE After
  BY <1>7 DEF After, Teardown
<1>8. CASE FrameRefused
  BY <1>8 DEF FrameRefused, release_wb_frame
<1>9. CASE FrameAccepted
  BY <1>9 DEF FrameAccepted
<1>10. CASE FrameRebuilds
  BY <1>10 DEF FrameRebuilds, Teardown
<1>11. CASE InitOk
  BY <1>11 DEF InitOk
<1>12. CASE InitFails
  BY <1>12 DEF InitFails, release_wb_frame
<1>13. CASE FenceOk
  BY <1>13 DEF FenceOk
<1>14. CASE FenceTimeout
  BY <1>14 DEF FenceTimeout, release_wb_frame
<1>15. CASE DrainPacket \/ FlushPacket
  BY <1>15 DEF DrainPacket, FlushPacket
<1>16. CASE DrainDone
  BY <1>16 DEF DrainDone
<1>17. CASE ImportOk
  BY <1>17 DEF ImportOk
<1>18. CASE ImportFails
  BY <1>18 DEF ImportFails, release_wb_frame
<1>19. CASE IdrNeeded
  BY <1>19 DEF IdrNeeded
<1>20. CASE IdrNotDue
  BY <1>20 DEF IdrNotDue, AfterNoIdr
<1>21. CASE IdrStore
  BY <1>21 DEF IdrStore
<1>22. CASE SubmitOk
  BY <1>22 DEF SubmitOk
<1>23. CASE SubmitFails
  BY <1>23 DEF SubmitFails, release_wb_frame
<1>24. CASE TeardownDrained
  BY <1>24 DEF TeardownDrained
<1>25. CASE FlushExtraPacket
  BY <1>25 DEF FlushExtraPacket
<1>26. CASE FlushEnds
  BY <1>26 DEF FlushEnds
<1>27. CASE ReleasePending
  BY <1>27 DEF ReleasePending
<1>28. CASE Cleanup
  BY <1>28 DEF Cleanup
<1> QED
  BY <1>1, <1>2, <1>3, <1>4, <1>5, <1>6, <1>7, <1>8, <1>9, <1>10, <1>11, <1>12, <1>13,
    <1>14, <1>15, <1>16, <1>17, <1>18, <1>19, <1>20, <1>21, <1>22, <1>23, <1>24,
    <1>25, <1>26, <1>27, <1>28 DEF Next, DisplayNext, CallerNext, EncoderNext, Others

-----------------------------------------------------------------------------
(* Writeback slots *)

\* A step that touches no holder and no slot.
LEMMA OwnersKept ==
  ASSUME SlotsOwned, UNCHANGED <<wb_busy, wb_idx, wb_pending_index, queue>>,
         Slot(task)' = Slot(task)
  PROVE  SlotsOwned'
<1>1. Holders' = Holders
  BY DEF Holders
<1>2. \A h \in Holders : HeldBy(h)' = HeldBy(h)
  BY DEF HeldBy, Holders, Slot, IsFrame
<1> QED
  BY <1>1, <1>2 DEF SlotsOwned

\* release_wb_frame() of the task in hand.
LEMMA TaskReleased ==
  ASSUME SlotsOwned, wb_busy \subseteq Slots, wb_busy' = wb_busy \ {Slot(task)},
         Slot(task)' = NoSlot, UNCHANGED <<wb_idx, wb_pending_index, queue>>
  PROVE  SlotsOwned'
<1>1. Holders' = Holders
  BY DEF Holders
<1>2. \A h \in Holders : h # -1 => HeldBy(h)' = HeldBy(h)
  BY DEF HeldBy, Holders, Slot, IsFrame
<1>3. HeldBy(-1) = Slot(task) /\ HeldBy(-1)' = NoSlot /\ -1 \in Holders
  BY DEF HeldBy, Holders
<1>4. NoSlot \notin wb_busy
  BY EncoderAssumption
<1> QED
  BY <1>1, <1>2, <1>3, <1>4 DEF SlotsOwned

\* The release of the previous frame's slot.
LEMMA PendingReleased ==
  ASSUME SlotsOwned, wb_busy \subseteq Slots, wb_busy' = wb_busy \ {wb_pending_index},
         wb_pending_index' = NoSlot, UNCHANGED <<wb_idx, task, queue>>
  PROVE  SlotsOwned'
<1>1. Holders' = Holders
  BY DEF Holders
<1>2. \A h \in Holders : h # -2 => HeldBy(h)' = HeldBy(h)
  BY DEF HeldBy, Holders, Slot, IsFrame
<1>3. HeldBy(-2) = wb_pending_index /\ HeldBy(-2)' = NoSlot /\ -2 \in Holders
  BY DEF HeldBy, Holders
<1>4. NoSlot \notin wb_busy
  BY EncoderAssumption
<1> QED
  BY <1>1, <1>2, <1>3, <1>4 DEF SlotsOwned

\* The display thread gives its slot back.
LEMMA DisplayReleased ==
  ASSUME SlotsOwned, wb_busy \subseteq Slots, wb_busy' = wb_busy \ {wb_idx},
         wb_idx' = NoSlot, UNCHANGED <<wb_pending_index, task, queue>>
  PROVE  SlotsOwned'
<1>1. Holders' = Holders
  BY DEF Holders
<1>2. \A h \in Holders : h # 0 => HeldBy(h)' = HeldBy(h)
  BY DEF HeldBy, Holders, Slot, IsFrame
<1>3. HeldBy(0) = wb_idx /\ HeldBy(0)' = NoSlot /\ 0 \in Holders
  BY DEF HeldBy, Holders
<1>4. NoSlot \notin wb_busy
  BY EncoderAssumption
<1> QED
  BY <1>1, <1>2, <1>3, <1>4 DEF SlotsOwned

\* The display thread claims a free slot.
LEMMA DisplayClaims ==
  ASSUME SlotsOwned, wb_busy \subseteq Slots, NEW slot \in Slots \ wb_busy,
         wb_busy' = wb_busy \cup {slot}, wb_idx = NoSlot, wb_idx' = slot,
         UNCHANGED <<wb_pending_index, task, queue>>
  PROVE  SlotsOwned'
<1>1. Holders' = Holders
  BY DEF Holders
<1>2. \A h \in Holders : h # 0 => HeldBy(h)' = HeldBy(h)
  BY DEF HeldBy, Holders, Slot, IsFrame
<1>3. HeldBy(0) = NoSlot /\ HeldBy(0)' = slot /\ 0 \in Holders
  BY DEF HeldBy, Holders
<1>4. slot # NoSlot
  BY EncoderAssumption
<1>5. \A h \in Holders : HeldBy(h) # slot
  BY <1>4 DEF SlotsOwned
<1>6. \A h \in Holders : HeldBy(h)' # NoSlot => HeldBy(h)' \in wb_busy'
  BY <1>2, <1>3 DEF SlotsOwned
<1>7. \A g, h \in Holders : HeldBy(g)' = HeldBy(h)' /\ HeldBy(g)' # NoSlot => g = h
  BY <1>2, <1>3, <1>5 DEF SlotsOwned
<1>8. \A s \in wb_busy' : \E h \in Holders : HeldBy(h)' = s
  <2>1. \A s \in wb_busy : \E h \in Holders : h # 0 /\ HeldBy(h) = s
    BY <1>3, EncoderAssumption DEF SlotsOwned
  <2> QED
    BY <1>2, <1>3, <2>1
<1> QED
  BY <1>1, <1>6, <1>7, <1>8 DEF SlotsOwned

\* The slot of the task in hand becomes the one of the submitted frame.
LEMMA TaskSubmitted ==
  ASSUME SlotsOwned, wb_pending_index = NoSlot, wb_pending_index' = Slot(task),
         Slot(task)' = NoSlot, UNCHANGED <<wb_busy, wb_idx, queue>>
  PROVE  SlotsOwned'
<1>1. Holders' = Holders
  BY DEF Holders
<1>2. \A h \in Holders : h # -1 /\ h # -2 => HeldBy(h)' = HeldBy(h)
  BY DEF HeldBy, Holders, Slot, IsFrame
<1>3. /\ HeldBy(-2)' = HeldBy(-1) /\ HeldBy(-1)' = NoSlot /\ HeldBy(-2) = NoSlot
      /\ -1 \in Holders /\ -2 \in Holders
  BY DEF HeldBy, Holders
<1> QED
  BY <1>1, <1>2, <1>3 DEF SlotsOwned

\* The display thread hands its slot over with the frame it queues.
LEMMA FrameQueued ==
  ASSUME SlotsOwned, wb_busy \subseteq Slots, queue \in Seq(Task), NEW t \in Task,
         queue' = Append(queue, t), Slot(t) = wb_idx, wb_idx' = NoSlot,
         UNCHANGED <<wb_busy, wb_pending_index, task>>
  PROVE  SlotsOwned'
<1> SUFFICES ASSUME NEW n, n = Len(queue) + 1 PROVE SlotsOwned'
  OBVIOUS
<1>1. Len(queue) \in Nat /\ Len(queue') = n
  OBVIOUS
<1>2. Holders' = Holders \cup {n} /\ n \notin Holders
  BY <1>1 DEF Holders
<1>3. \A h \in Holders : h # 0 => HeldBy(h)' = HeldBy(h)
  BY DEF HeldBy, Holders, Slot, IsFrame
<1>4. HeldBy(0) = wb_idx /\ HeldBy(0)' = NoSlot /\ 0 \in Holders
  BY DEF HeldBy, Holders
<1>5. HeldBy(n)' = wb_idx
  <2>1. queue'[n] = t
    OBVIOUS
  <2>2. HeldBy(n)' = Slot(queue[n])'
    BY <1>1 DEF HeldBy
  <2> QED
    BY <2>1, <2>2 DEF Slot, IsFrame
<1>6. \A h \in Holders' : HeldBy(h)' # NoSlot => HeldBy(h)' \in wb_busy'
  BY <1>2, <1>3, <1>4, <1>5 DEF SlotsOwned
<1>7. \A g, h \in Holders' : HeldBy(g)' = HeldBy(h)' /\ HeldBy(g)' # NoSlot => g = h
  BY <1>2, <1>3, <1>4, <1>5 DEF SlotsOwned
<1>8. \A s \in wb_busy' : \E h \in Holders' : HeldBy(h)' = s
  BY <1>2, <1>3, <1>4, <1>5 DEF SlotsOwned
<1> QED
  BY <1>6, <1>7, <1>8 DEF SlotsOwned

\* The slot of the first queued task becomes the one of the task in hand: every
\* holder after the step is the holder of the same slot before it, and no two are.
LEMMA TaskTaken ==
  ASSUME SlotsOwned, queue \in Seq(Task), queue # <<>>, Slot(task) = NoSlot, wb_busy \subseteq Slots,
         task' = Head(queue), queue' = Tail(queue),
         UNCHANGED <<wb_busy, wb_idx, wb_pending_index>>
  PROVE  SlotsOwned'
<1>1. Len(queue) \in Nat /\ Len(queue) >= 1 /\ Len(queue') = Len(queue) - 1
  OBVIOUS
<1>2. HeldBy(0)' = HeldBy(0) /\ HeldBy(-2)' = HeldBy(-2) /\ HeldBy(-1) = NoSlot
  BY DEF HeldBy
<1>3. HeldBy(-1)' = HeldBy(1)
  <2>1. Head(queue) = queue[1]
    OBVIOUS
  <2> QED
    BY <2>1 DEF HeldBy, Slot, IsFrame
<1>4. \A h \in 1..Len(queue') : HeldBy(h)' = HeldBy(h + 1) 
  BY <1>1 DEF HeldBy, Slot, IsFrame
<1>5. /\ \A h : h \in Holders <=> h \in {0, -1, -2} \/ h \in 1..Len(queue)
      /\ \A h : h \in Holders' <=> h \in {0, -1, -2} \/ h \in 1..Len(queue')
  BY DEF Holders
<1> DEFINE Before(h) == IF h = -1 THEN 1 ELSE IF h >= 1 THEN h + 1 ELSE h
<1>6. \A h \in Holders' : Before(h) \in Holders /\ HeldBy(h)' = HeldBy(Before(h))
  <2>1. SUFFICES ASSUME NEW h \in Holders'
                 PROVE  Before(h) \in Holders /\ HeldBy(h)' = HeldBy(Before(h))
    OBVIOUS
  <2>2. CASE h = -1
    <3>1. Before(h) = 1
      BY <2>2
    <3> QED
      BY <1>1, <1>3, <1>5, <2>2, <3>1
  <2>3. CASE h \in {0, -2}
    <3>1. Before(h) = h
      BY <2>3
    <3> QED
      BY <1>2, <1>5, <2>3, <3>1
  <2>4. CASE h \in 1..Len(queue')
    <3>1. Before(h) = h + 1
      BY <2>4
    <3> QED
      BY <1>1, <1>4, <1>5, <2>4, <3>1
  <2> QED
    BY <1>5, <2>2, <2>3, <2>4
<1>7. \A g \in Holders : g # -1 => \E h \in Holders' : HeldBy(h)' = HeldBy(g)
  <2>1. SUFFICES ASSUME NEW g \in Holders, g # -1
                 PROVE  \E h \in Holders' : HeldBy(h)' = HeldBy(g)
    OBVIOUS
  <2>2. CASE g = 1
    BY <1>3, <1>5, <2>2
  <2>3. CASE g \in {0, -2}
    BY <1>2, <1>5, <2>3
  <2>4. CASE g \in 2..Len(queue)
    <3>1. g - 1 \in 1..Len(queue') /\ (g - 1) + 1 = g
      BY <1>1, <2>4
    <3> QED
      BY <1>4, <1>5, <3>1
  <2> QED
    BY <1>1, <1>5, <2>1, <2>2, <2>3, <2>4
<1>8. \A h \in Holders' : HeldBy(h)' # NoSlot => HeldBy(h)' \in wb_busy'
  BY <1>6 DEF SlotsOwned
<1>9. \A g, h \in Holders' : HeldBy(g)' = HeldBy(h)' /\ HeldBy(g)' # NoSlot => g = h
  <2>1. SUFFICES ASSUME NEW g \in Holders', NEW h \in Holders',
                        HeldBy(g)' = HeldBy(h)', HeldBy(g)' # NoSlot
                 PROVE  g = h
    OBVIOUS
  <2>2. Before(g) = Before(h)
    BY <1>6, <2>1 DEF SlotsOwned
  <2> QED
    BY <1>1, <1>5, <2>2
<1>10. \A slot \in wb_busy' : \E h \in Holders' : HeldBy(h)' = slot
  <2>1. SUFFICES ASSUME NEW slot \in wb_busy
                 PROVE  \E h \in Holders' : HeldBy(h)' = slot
    OBVIOUS
  <2>2. PICK g \in Holders : HeldBy(g) = slot
    BY <2>1 DEF SlotsOwned
  <2>3. g # -1
    BY <1>2, <2>1, <2>2, EncoderAssumption
  <2> QED
    BY <1>7, <2>2, <2>3
<1> QED
  BY <1>8, <1>9, <1>10 DEF SlotsOwned

\* drop_pending_frames() releases the slots of exactly the frames it drops.
LEMMA FramesDropped ==
  ASSUME SlotsOwned, wb_busy \subseteq Slots, queue \in Seq(Task), NEW t \in Task, ~IsFrame(t),
         EnqueueDropping(t), UNCHANGED <<wb_idx, wb_pending_index, task>>
  PROVE  SlotsOwned'
<1>1. PICK pos \in Seq(1..Len(queue)) :
        /\ Len(queue') = Len(pos) + 1 /\ queue'[Len(pos) + 1] = t
        /\ \A i \in 1..Len(pos) : queue'[i] = queue[pos[i]] /\ ~IsFrame(queue'[i])
        /\ \A a, b \in 1..Len(pos) : a < b => pos[a] < pos[b]
        /\ \A j \in 1..Len(queue) : ~IsFrame(queue[j]) => \E i \in 1..Len(pos) : pos[i] = j
  BY QueueDropped
<1>2. \A i \in 1..Len(queue') : i = Len(pos) + 1 \/ i \in 1..Len(pos)
  BY <1>1
<1>3. \A i \in 1..Len(queue') : ~IsFrame(queue'[i])
  BY <1>1, <1>2
<1>4. wb_busy' = wb_busy \ SlotsOfPending
  BY DEF EnqueueDropping
<1>5. Len(queue') \in Nat
  BY <1>1
<1>6. \A h \in Holders' : h >= 1 => HeldBy(h)' = NoSlot
  <2>1. ASSUME NEW h \in Holders', h >= 1 PROVE HeldBy(h)' = NoSlot
    <3>1. h \in 1..Len(queue')
      BY <1>5, <2>1 DEF Holders
    <3>2. HeldBy(h)' = Slot(queue[h])'
      BY <3>1 DEF HeldBy
    <3> QED
      BY <1>3, <3>1, <3>2 DEF Slot, IsFrame
  <2> QED
    BY <2>1
<1>7. \A h \in {0, -1, -2} : HeldBy(h)' = HeldBy(h) /\ h \in Holders /\ h \in Holders'
  BY DEF HeldBy, Holders, Slot, IsFrame
<1>8. \A h \in Holders' : h \in {0, -1, -2} \/ h >= 1
  BY <1>5 DEF Holders
<1>9. \A h \in Holders : \/ h \in {0, -1, -2} 
                         \/ HeldBy(h) = NoSlot
                         \/ HeldBy(h) \in SlotsOfPending 
  BY DEF Holders, HeldBy, SlotsOfPending, FramePositions, Slot
<1>10. \A h \in {0, -1, -2} : HeldBy(h) # NoSlot => HeldBy(h) \notin SlotsOfPending
  <2>1. \A i \in FramePositions(queue) : i \in Holders /\ HeldBy(i) = queue[i].slot /\ i >= 1
    BY DEF Holders, HeldBy, FramePositions, Slot
  <2> QED
    BY <1>7, <2>1 DEF SlotsOfPending, SlotsOwned
<1>11. \A h \in Holders' : HeldBy(h)' # NoSlot => HeldBy(h)' \in wb_busy'
  BY <1>4, <1>6, <1>7, <1>8, <1>10 DEF SlotsOwned
<1>12. \A g, h \in Holders' : HeldBy(g)' = HeldBy(h)' /\ HeldBy(g)' # NoSlot => g = h
  BY <1>6, <1>7, <1>8 DEF SlotsOwned
<1>13. \A s \in wb_busy' : \E h \in Holders' : HeldBy(h)' = s
  <2>1. NoSlot \notin wb_busy
    BY EncoderAssumption
  <2> QED
    BY <1>4, <1>7, <1>9, <2>1 DEF SlotsOwned
<1> QED
  BY <1>11, <1>12, <1>13 DEF SlotsOwned

\* A task without a slot is queued.
LEMMA ControlQueued ==
  ASSUME SlotsOwned, queue \in Seq(Task), NEW t \in Task, Slot(t) = NoSlot,
         queue' = Append(queue, t),
         UNCHANGED <<wb_busy, wb_idx, wb_pending_index, task>>
  PROVE  SlotsOwned'
<1> SUFFICES ASSUME NEW n, n = Len(queue) + 1 PROVE SlotsOwned'
  OBVIOUS
<1>1. Len(queue) \in Nat /\ Len(queue') = n
  OBVIOUS
<1>2. Holders' = Holders \cup {n} /\ n \notin Holders
  BY <1>1 DEF Holders
<1>3. \A h \in Holders : HeldBy(h)' = HeldBy(h)
  BY DEF HeldBy, Holders, Slot, IsFrame
<1>5. HeldBy(n)' = NoSlot
  <2>1. queue'[n] = t
    OBVIOUS
  <2>2. HeldBy(n)' = Slot(queue[n])'
    BY <1>1 DEF HeldBy
  <2> QED
    BY <2>1, <2>2 DEF Slot, IsFrame
<1> QED
  BY <1>2, <1>3, <1>5 DEF SlotsOwned

\* Every step keeps the ownership of the writeback slots.
LEMMA OwnershipStep ==
  ASSUME DataOK, TaskInHand, DisplayHolds, PendingClear, SlotsOwned, [Next]_vars
  PROVE  SlotsOwned'
<1> USE DEF display, outside, stream, setup, hand, keys, encoder, encoderOnly
<1> wb_busy \subseteq Slots /\ queue \in Seq(Task)
  BY DEF DataOK
<1>1. CASE DisplayClaim
  <2>1. PICK slot \in Slots \ wb_busy : wb_idx' = slot /\ wb_busy' = wb_busy \cup {slot}
    BY <1>1 DEF DisplayClaim
  <2>2. wb_idx = NoSlot /\ UNCHANGED <<wb_pending_index, task, queue>>
    BY <1>1 DEF DisplayClaim, wants_capture, DisplayHolds
  <2> QED
    BY <2>1, <2>2, DisplayClaims
<1>2. CASE writeback_frame
  <2>1. UNCHANGED <<wb_pending_index, task>> /\ wb_idx' = NoSlot
    BY <1>2 DEF writeback_frame
  <2>2. CASE QueueFull
    BY <1>2, <2>1, <2>2, DisplayReleased DEF writeback_frame, DropReleasesSlot, pp_wb_release
  <2>3. CASE ~QueueFull
    <3> DEFINE t == [kind |-> "FRAME", n |-> captured, slot |-> wb_idx, geo |-> 0]
    <3>1. t \in Task /\ Slot(t) = wb_idx
      <4>1. captured \in Nat /\ wb_idx \in AnySlot /\ 0 \in Nat
        BY DEF DataOK
      <4>2. t \in Task
        BY <4>1, TaskRecords, Zenon
      <4> QED
        BY <4>2 DEF Slot, IsFrame
    <3>2. queue' = Append(queue, t) /\ UNCHANGED wb_busy
      BY <1>2, <2>3 DEF writeback_frame
    <3> HIDE DEF t
    <3> QED
      BY <2>1, <3>1, <3>2, FrameQueued
  <2> QED
    BY <2>2, <2>3
<1>3. CASE DisplayArmFails \/ DisplayCommitFails
  BY <1>3, DisplayReleased DEF DisplayArmFails, DisplayCommitFails, pp_wb_release
<1>4. CASE DisplayExit \/ DetachWriteback \/ request_keyframe \/ consumers_changed \/
  FrameAccepted \/ FrameRebuilds \/ InitOk \/ FenceOk \/ DrainPacket \/ ImportOk \/
  IdrNeeded \/ IdrNotDue \/ IdrStore \/ TeardownDrained \/ FlushPacket \/
  FlushExtraPacket \/ FlushEnds \/ Cleanup \/ UNCHANGED vars
  <2>1. UNCHANGED <<wb_busy, wb_idx, wb_pending_index, queue, task>>
    BY <1>4, Zenon DEF DisplayExit, DetachWriteback, request_keyframe,
      consumers_changed, FrameAccepted, FrameRebuilds, InitOk, FenceOk, DrainPacket,
      ImportOk, IdrNeeded, IdrNotDue, IdrStore, TeardownDrained, FlushPacket,
      FlushExtraPacket, FlushEnds, Cleanup, vars
  <2>2. Slot(task)' = Slot(task)
    BY <2>1 DEF Slot, IsFrame
  <2> QED
    BY <2>1, <2>2, OwnersKept
<1>5. CASE set_video_params
  <2>1. PICK geo \in Geometries : EnqueueDropping([kind |-> "PARAMS", geo |-> geo])
    BY <1>5 DEF set_video_params
  <2>2. [kind |-> "PARAMS", geo |-> geo] \in Task /\ ~IsFrame([kind |-> "PARAMS", geo |-> geo])
    BY TaskRecords, EncoderAssumption DEF IsFrame
  <2>3. UNCHANGED <<wb_idx, wb_pending_index, task>>
    BY <1>5 DEF set_video_params
  <2> QED
    BY <2>1, <2>2, <2>3, FramesDropped
<1>6. CASE frame
  <2>1. UNCHANGED <<wb_busy, wb_idx, wb_pending_index, task>>
    BY <1>6 DEF frame
  <2>2. CASE QueueFull
    BY <1>6, <2>1, <2>2, OwnersKept DEF frame, Slot, IsFrame
  <2>3. CASE ~QueueFull
    <3> DEFINE t == [kind |-> "FRAME", n |-> captured + 1, slot |-> NoSlot, geo |-> frm_geo]
    <3>1. t \in Task /\ Slot(t) = NoSlot
      <4>1. captured + 1 \in Nat /\ frm_geo \in Nat
        BY DEF DataOK
      <4>2. t \in Task
        BY <4>1, TaskRecords, NoSlotTyped, Zenon
      <4> QED
        BY <4>2 DEF Slot, IsFrame
    <3>2. queue' = Append(queue, t)
      BY <1>6, <2>3 DEF frame
    <3> HIDE DEF t
    <3> QED
      BY <2>1, <3>1, <3>2, ControlQueued
  <2> QED
    BY <2>2, <2>3
<1>7. CASE restart
  <2>1. [kind |-> "RESTART"] \in Task /\ ~IsFrame([kind |-> "RESTART"])
    BY TaskRecords DEF IsFrame
  <2>2. EnqueueDropping([kind |-> "RESTART"]) /\ UNCHANGED <<wb_idx, wb_pending_index, task>>
    BY <1>7 DEF restart
  <2> QED
    BY <2>1, <2>2, FramesDropped
<1>8. CASE post
  <2>1. [kind |-> "POST"] \in Task /\ Slot([kind |-> "POST"]) = NoSlot
    BY TaskRecords DEF Slot, IsFrame
  <2> QED
    BY <1>8, <2>1, ControlQueued DEF post
<1>9. CASE shutdown
  <2>1. [kind |-> "SHUTDOWN"] \in Task /\ ~IsFrame([kind |-> "SHUTDOWN"])
    BY TaskRecords DEF IsFrame
  <2>2. EnqueueDropping([kind |-> "SHUTDOWN"]) /\ UNCHANGED <<wb_idx, wb_pending_index, task>>
    BY <1>9 DEF shutdown
  <2> QED
    BY <2>1, <2>2, FramesDropped
<1>10. CASE TakeFrame \/ TakePost \/ TakeRestart \/ TakeParams \/ TakeShutdown
  <2>1. Slot(task) = NoSlot
    BY <1>10 DEF TakeFrame, TakePost, TakeRestart, TakeParams, TakeShutdown, Take, TaskInHand,
      HasFrame, Ending, Encoding, Slot
  <2>2. /\ queue # <<>> /\ task' = Head(queue) /\ queue' = Tail(queue)
        /\ UNCHANGED <<wb_busy, wb_idx, wb_pending_index>>
    BY <1>10, Zenon DEF TakeFrame, TakePost, TakeRestart, TakeParams, TakeShutdown, Take
  <2> QED
    BY <2>1, <2>2, TaskTaken
<1>11. CASE After
  <2>1. Slot(task) = NoSlot /\ Slot(task)' = NoSlot
    BY <1>11 DEF After, TaskInHand, HasFrame, Ending, Encoding, Slot, IsFrame, NoTask
  <2> QED
    BY <1>11, <2>1, OwnersKept DEF After
<1>12. CASE FrameRefused \/ InitFails \/ FenceTimeout \/ ImportFails \/ SubmitFails
  <2>1. /\ wb_busy' = wb_busy \ {Slot(task)} /\ task' = NoTask
        /\ UNCHANGED <<wb_idx, wb_pending_index, queue>>
    BY <1>12, Zenon DEF FrameRefused, release_wb_frame, pp_wb_release, InitFails,
      FenceTimeout, ImportFails, SubmitFails
  <2>2. Slot(task)' = NoSlot
    BY <2>1 DEF Slot, IsFrame, NoTask
  <2> QED
    BY <2>1, <2>2, TaskReleased
<1>13. CASE DrainDone
  <2>1. CASE next = "import" /\ Writeback
    BY <1>13, <2>1, PendingReleased DEF DrainDone, DrainReleases, pp_wb_release
  <2>2. CASE ~(next = "import" /\ Writeback)
    BY <1>13, <2>2, OwnersKept DEF DrainDone, Slot, IsFrame
  <2> QED
    BY <2>1, <2>2
<1>14. CASE SubmitOk
  <2>1. wb_pending_index = NoSlot /\ wb_pending_index' = Slot(task)
    BY <1>14 DEF SubmitOk, PendingClear, TaskInHand, HasFrame, Ending, Encoding, Slot
  <2>2. Slot(task)' = NoSlot
    BY <1>14 DEF SubmitOk, Slot, IsFrame, NoTask
  <2> QED
    BY <1>14, <2>1, <2>2, TaskSubmitted DEF SubmitOk
<1>15. CASE ReleasePending
  BY <1>15, PendingReleased DEF ReleasePending, pp_wb_release
<1> QED
  BY <1>1, <1>2, <1>3, <1>4, <1>5, <1>6, <1>7, <1>8, <1>9, <1>10, <1>11, <1>12, <1>13,
    <1>14, <1>15 DEF Next, DisplayNext, CallerNext, EncoderNext

\* Every step but the claim leaves the display thread without a slot.
LEMMA DisplayStep ==
  ASSUME DisplayHolds, [Next]_vars
  PROVE  DisplayHolds'
<1> USE DEF DisplayHolds, display, outside, stream, setup, hand, keys, encoder, encoderOnly
<1>1. CASE DisplayClaim \/ writeback_frame \/ DisplayArmFails \/ DisplayCommitFails \/
  DisplayExit
  BY <1>1, Zenon DEF DisplayClaim, writeback_frame, DisplayArmFails,
    DisplayCommitFails, DisplayExit
<1>2. CASE set_video_params \/ DetachWriteback \/ frame \/ restart \/ post \/
  request_keyframe \/ consumers_changed \/ shutdown \/ UNCHANGED vars
  BY <1>2, Zenon DEF set_video_params, DetachWriteback, frame, restart, post,
    request_keyframe, consumers_changed, shutdown, vars
<1>3. CASE TakeFrame \/ TakePost \/ TakeRestart \/ TakeParams \/ TakeShutdown \/ After
  \/ FrameRefused \/ FrameAccepted \/ FrameRebuilds \/ InitOk \/ InitFails \/ FenceOk
  \/ FenceTimeout \/ DrainPacket \/ DrainDone \/ ImportOk \/ ImportFails \/ IdrNeeded
  \/ IdrNotDue \/ IdrStore \/ SubmitOk \/ SubmitFails \/ TeardownDrained \/
  FlushPacket \/ FlushExtraPacket \/ FlushEnds \/ ReleasePending \/ Cleanup
  BY <1>3, Zenon DEF Take, TakeFrame, TakePost, TakeRestart, TakeParams, TakeShutdown,
    After, FrameRefused, FrameAccepted, FrameRebuilds, InitOk, InitFails, FenceOk,
    FenceTimeout, DrainPacket, DrainDone, ImportOk, ImportFails, IdrNeeded, IdrNotDue,
    IdrStore, SubmitOk, SubmitFails, TeardownDrained, FlushPacket, FlushExtraPacket,
    FlushEnds, ReleasePending, Cleanup
<1> QED
  BY <1>1, <1>2, <1>3 DEF Next, DisplayNext, CallerNext, EncoderNext

\* Every step keeps the slot of the previous frame released where it must be.
LEMMA PendingStep ==
  ASSUME DataOK, NextFits, SlotsOwned, TapHoldsNothing, PendingClear, [Next]_vars
  PROVE  PendingClear'
<1> USE DEF PendingClear, Encoding, Ending, display, outside, stream, setup, hand, keys,
  encoder, encoderOnly
<1>1. CASE Others
  BY <1>1, OthersKeepEncoder
<1>2. CASE TakeFrame \/ TakePost \/ TakeRestart \/ TakeParams \/ TakeShutdown
  BY <1>2 DEF TakeFrame, TakePost, TakeRestart, TakeParams, TakeShutdown, Take,
    ShutdownEnds, Teardown
<1>3. CASE After
  BY <1>3 DEF After, Teardown
<1>4. CASE FrameRefused
  BY <1>4 DEF FrameRefused, release_wb_frame
<1>5. CASE FrameAccepted
  BY <1>5 DEF FrameAccepted
<1>6. CASE FrameRebuilds
  BY <1>6 DEF FrameRebuilds, Teardown
<1>7. CASE InitOk
  BY <1>7 DEF InitOk
<1>8. CASE InitFails
  BY <1>8 DEF InitFails, release_wb_frame
<1>9. CASE FenceOk
  BY <1>9 DEF FenceOk
<1>10. CASE FenceTimeout
  BY <1>10 DEF FenceTimeout, release_wb_frame
<1>11. CASE DrainPacket
  BY <1>11 DEF DrainPacket
<1>12. CASE DrainDone
  <2>1. ~Writeback => wb_pending_index = NoSlot
    BY DEF TapHoldsNothing, SlotsOwned, Holders, HeldBy
  <2> QED
    BY <1>12, <2>1 DEF DrainDone, NextFits
<1>13. CASE ImportOk
  BY <1>13 DEF ImportOk
<1>14. CASE ImportFails
  BY <1>14 DEF ImportFails, release_wb_frame
<1>15. CASE IdrNeeded
  BY <1>15 DEF IdrNeeded
<1>16. CASE IdrNotDue
  BY <1>16 DEF IdrNotDue, AfterNoIdr
<1>17. CASE IdrStore
  BY <1>17 DEF IdrStore
<1>18. CASE SubmitOk
  BY <1>18 DEF SubmitOk
<1>19. CASE SubmitFails
  BY <1>19 DEF SubmitFails, release_wb_frame
<1>20. CASE TeardownDrained
  BY <1>20 DEF TeardownDrained
<1>21. CASE FlushPacket
  BY <1>21 DEF FlushPacket
<1>22. CASE FlushExtraPacket
  BY <1>22 DEF FlushExtraPacket
<1>23. CASE FlushEnds
  BY <1>23 DEF FlushEnds
<1>24. CASE ReleasePending
  BY <1>24 DEF ReleasePending
<1>25. CASE Cleanup
  BY <1>25 DEF Cleanup, NextFits
<1> QED
  BY <1>1, <1>2, <1>3, <1>4, <1>5, <1>6, <1>7, <1>8, <1>9, <1>10, <1>11, <1>12, <1>13,
    <1>14, <1>15, <1>16, <1>17, <1>18, <1>19, <1>20, <1>21, <1>22, <1>23, <1>24, <1>25
    DEF Next, DisplayNext, CallerNext, EncoderNext, Others

\* The decode tap never makes a slot busy.
LEMMA TapStep ==
  ASSUME TapHoldsNothing, [Next]_vars
  PROVE  TapHoldsNothing'
<1> USE DEF TapHoldsNothing, display, outside, stream, setup, hand, keys, encoder, encoderOnly
<1>1. CASE DisplayClaim
  BY <1>1 DEF DisplayClaim, wants_capture
<1>2. CASE writeback_frame \/ DisplayArmFails \/ DisplayCommitFails \/ DisplayExit \/
  FrameRefused \/ InitFails \/ FenceTimeout \/ ImportFails \/ SubmitFails \/ DrainDone
  \/ ReleasePending \/ DetachWriteback
  BY <1>2 DEF writeback_frame, DropReleasesSlot, pp_wb_release, DisplayArmFails,
    DisplayCommitFails, DisplayExit, FrameRefused, release_wb_frame, InitFails,
    FenceTimeout, ImportFails, SubmitFails, DrainDone, DrainReleases, ReleasePending,
    DetachWriteback
<1>3. CASE set_video_params \/ restart \/ shutdown
  BY <1>3 DEF set_video_params, restart, shutdown, EnqueueDropping
<1>4. CASE frame \/ post \/ request_keyframe \/ consumers_changed \/ TakeFrame \/
  TakePost \/ TakeRestart \/ TakeParams \/ TakeShutdown \/ After \/ FrameAccepted \/
  FrameRebuilds \/ InitOk \/ FenceOk \/ DrainPacket \/ ImportOk \/ IdrNeeded \/
  IdrNotDue \/ IdrStore \/ SubmitOk \/ TeardownDrained \/ FlushPacket \/
  FlushExtraPacket \/ FlushEnds \/ Cleanup \/ UNCHANGED vars
  <2>1. UNCHANGED <<wb_busy, dvr_wb_mode, dpc>>
    BY <1>4, Zenon DEF frame, post, request_keyframe, consumers_changed, TakeFrame,
      Take, TakePost, TakeRestart, TakeParams, TakeShutdown, After, FrameAccepted,
      FrameRebuilds, InitOk, FenceOk, DrainPacket, ImportOk, IdrNeeded, IdrNotDue,
      IdrStore, SubmitOk, TeardownDrained, FlushPacket, FlushExtraPacket, FlushEnds,
      Cleanup, vars
  <2> QED
    BY <2>1
<1> QED
  BY <1>1, <1>2, <1>3, <1>4 DEF Next, DisplayNext, CallerNext, EncoderNext

-----------------------------------------------------------------------------
(* Packets and keyframes *)

\* emit() of MPP's oldest frame takes the pts of that frame.
LEMMA EmitPaired ==
  ASSUME DataOK, StreamPaired, mpp # <<>>, emit(Head(mpp).n), mpp' = Tail(mpp)
  PROVE  StreamPaired'
<1>1. /\ Head(mpp) = mpp[1] /\ Len(mpp) >= 1 /\ Len(mpp') = Len(mpp) - 1 /\ Len(mpp) \in Nat
      /\ \A i \in 1..Len(mpp') : i + 1 \in 1..Len(mpp) /\ mpp'[i] = mpp[i + 1]
  BY HeadAndTail DEF DataOK
<1>2. submitted_pts \in Seq(Nat) /\ submitted_pts # <<>>
  BY <1>1 DEF DataOK, StreamPaired
<1>3. /\ submitted_pts' = Tail(submitted_pts) /\ last_au'.n = Head(mpp).n
      /\ last_au'.pts = Head(submitted_pts)
      /\ frames_emitted' = frames_emitted + 1 /\ frames_submitted' = frames_submitted
  BY <1>2 DEF emit
<1>4. /\ Head(submitted_pts) = submitted_pts[1] /\ Len(submitted_pts') = Len(submitted_pts) - 1
      /\ \A i \in 1..Len(submitted_pts') : submitted_pts'[i] = submitted_pts[i + 1]
  BY <1>2, <1>3, HeadAndTail
<1>5. last_au'.n = last_au'.pts
  BY <1>1, <1>3, <1>4 DEF StreamPaired
<1>6. Len(submitted_pts') = Len(mpp') /\ frames_submitted' = frames_emitted' + Len(mpp')
  BY <1>1, <1>3, <1>4 DEF StreamPaired, DataOK
<1>7. \A i \in 1..Len(mpp') : submitted_pts'[i] = mpp'[i].n
  BY <1>1, <1>4, <1>6 DEF StreamPaired
<1> QED
  BY <1>5, <1>6, <1>7 DEF StreamPaired, PtsPaired

\* Every step keeps submitted_pts and the counters in step with MPP.
LEMMA StreamStep ==
  ASSUME DataOK, TaskInHand, StreamPaired, [Next]_vars
  PROVE  StreamPaired'
<1> USE DEF display, outside, stream, setup, hand, keys, encoder, encoderOnly
<1>1. CASE DisplayClaim \/ writeback_frame \/ DisplayArmFails \/ DisplayCommitFails \/
  DisplayExit \/ set_video_params \/ DetachWriteback \/ frame \/ restart \/ post \/
  request_keyframe \/ consumers_changed \/ shutdown \/ TakeFrame \/ TakePost \/
  TakeRestart \/ TakeParams \/ TakeShutdown \/ After \/ FrameRefused \/ FrameAccepted
  \/ FrameRebuilds \/ InitOk \/ InitFails \/ FenceOk \/ FenceTimeout \/ DrainDone \/
  ImportOk \/ ImportFails \/ IdrNeeded \/ IdrNotDue \/ IdrStore \/ SubmitFails \/
  TeardownDrained \/ FlushEnds \/ ReleasePending \/ UNCHANGED vars
  <2>1. UNCHANGED <<submitted_pts, frames_submitted, frames_emitted, mpp, last_au>>
    BY <1>1, Zenon DEF Take, DisplayClaim, writeback_frame, DisplayArmFails,
      DisplayCommitFails, DisplayExit, set_video_params, DetachWriteback, frame,
      restart, post, request_keyframe, consumers_changed, shutdown, TakeFrame,
      TakePost, TakeRestart, TakeParams, TakeShutdown, After, FrameRefused,
      FrameAccepted, FrameRebuilds, InitOk, InitFails, FenceOk, FenceTimeout,
      DrainDone, ImportOk, ImportFails, IdrNeeded, IdrNotDue, IdrStore, SubmitFails,
      TeardownDrained, FlushEnds, ReleasePending, vars
  <2> QED
    BY <2>1 DEF StreamPaired, PtsPaired
<1>2. CASE DrainPacket
  <2>1. emit(Head(mpp).n) /\ mpp # <<>> /\ mpp' = Tail(mpp)
    BY <1>2 DEF DrainPacket
  <2> QED
    BY <2>1, EmitPaired
<1>3. CASE SubmitOk
  <2>1. task.n \in Nat /\ task.slot \in AnySlot
    BY <1>3, TaskFields DEF SubmitOk, DataOK, TaskInHand, HasFrame, Encoding
  <2> DEFINE packet == [n |-> task.n, slot |-> task.slot]
  <2>2. packet \in [n : Nat, slot : AnySlot] /\ packet.n = task.n
    BY <2>1
  <2>3. /\ submitted_pts' = Append(submitted_pts, task.n) /\ mpp' = Append(mpp, packet)
        /\ frames_submitted' = frames_submitted + 1 /\ UNCHANGED <<frames_emitted, last_au>>
    BY <1>3 DEF SubmitOk
  <2> HIDE DEF packet
  <2>4. Len(mpp') = Len(mpp) + 1 /\ Len(submitted_pts') = Len(submitted_pts) + 1
    BY <2>1, <2>2, <2>3 DEF DataOK
  <2>5. \A i \in 1..Len(mpp') : submitted_pts'[i] = mpp'[i].n
    <3>1. mpp'[Len(mpp) + 1] = packet /\ \A i \in 1..Len(mpp) : mpp'[i] = mpp[i]
      BY <2>2, <2>3, AppendFacts DEF DataOK
    <3>2. /\ submitted_pts'[Len(submitted_pts) + 1] = task.n
          /\ \A i \in 1..Len(submitted_pts) : submitted_pts'[i] = submitted_pts[i]
      BY <2>1, <2>3, AppendFacts DEF DataOK
    <3>3. Len(mpp) \in Nat /\ Len(submitted_pts) = Len(mpp)
      BY DEF DataOK, StreamPaired
    <3> QED
      BY <2>2, <2>4, <3>1, <3>2, <3>3 DEF StreamPaired
  <2> QED
    BY <2>3, <2>4, <2>5 DEF DataOK, StreamPaired, PtsPaired
<1>4. CASE FlushPacket
  <2>1. emit(Head(mpp).n) /\ mpp # <<>> /\ mpp' = Tail(mpp)
    BY <1>4 DEF FlushPacket
  <2> QED
    BY <2>1, EmitPaired
<1>5. CASE FlushExtraPacket
  <2>1. AllEmitted
    BY <1>5 DEF FlushExtraPacket, AllEmitted, StreamPaired, DataOK
  <2>2. UNCHANGED stream
    BY <1>5, <2>1 DEF FlushExtraPacket
  <2> QED
    BY <2>2 DEF StreamPaired, PtsPaired
<1>6. CASE Cleanup
  BY <1>6 DEF Cleanup, PtsCleared, StreamPaired, PtsPaired
<1> QED
  BY <1>1, <1>2, <1>3, <1>4, <1>5, <1>6 DEF Next, DisplayNext, CallerNext, EncoderNext

\* No step loses a keyframe request.
LEMMA KeyframeStep ==
  ASSUME FlagsOK, NextFits, IdrAsked, KeyframeOwed, [Next]_vars
  PROVE  IdrAsked' /\ KeyframeOwed'
<1> USE DEF FlagsOK, IdrAsked, KeyframeOwed, display, outside, stream, setup, hand, keys,
  encoder, encoderOnly
<1>1. CASE DisplayClaim \/ writeback_frame \/ DisplayArmFails \/ DisplayCommitFails \/
  DisplayExit \/ set_video_params \/ DetachWriteback \/ frame \/ restart \/ post \/
  consumers_changed \/ shutdown \/ UNCHANGED vars
  <2>1. UNCHANGED <<keys, epc>>
    BY <1>1, Zenon DEF DisplayClaim, writeback_frame, DisplayArmFails,
      DisplayCommitFails, DisplayExit, set_video_params, DetachWriteback, frame,
      restart, post, consumers_changed, shutdown, vars
  <2> QED
    BY <2>1
<1>2. CASE request_keyframe
  BY <1>2 DEF request_keyframe
<1>3. CASE TakeFrame
  BY <1>3 DEF TakeFrame, Take
<1>4. CASE TakePost
  BY <1>4 DEF TakePost, Take
<1>5. CASE TakeRestart
  BY <1>5 DEF TakeRestart, Take
<1>6. CASE TakeParams
  BY <1>6 DEF TakeParams, Take, NewGeometryRebuilds
<1>7. CASE TakeShutdown
  BY <1>7 DEF TakeShutdown, Take, ShutdownEnds, Teardown
<1>8. CASE After
  BY <1>8 DEF After, Teardown
<1>9. CASE FrameRefused
  BY <1>9 DEF FrameRefused, release_wb_frame
<1>10. CASE FrameAccepted
  BY <1>10 DEF FrameAccepted
<1>11. CASE FrameRebuilds
  BY <1>11 DEF FrameRebuilds, Teardown
<1>12. CASE InitOk
  BY <1>12 DEF InitOk, GeometryKnown
<1>13. CASE InitFails
  BY <1>13 DEF InitFails, release_wb_frame
<1>14. CASE FenceOk
  BY <1>14 DEF FenceOk
<1>15. CASE FenceTimeout
  BY <1>15 DEF FenceTimeout, release_wb_frame
<1>16. CASE DrainPacket
  BY <1>16 DEF DrainPacket
<1>17. CASE DrainDone
  BY <1>17 DEF DrainDone, NextFits
<1>18. CASE ImportOk
  BY <1>18 DEF ImportOk
<1>19. CASE ImportFails
  BY <1>19 DEF ImportFails, release_wb_frame
<1>20. CASE IdrNeeded
  BY <1>20 DEF IdrNeeded
<1>21. CASE IdrNotDue
  BY <1>21 DEF IdrNotDue, AfterNoIdr
<1>22. CASE IdrStore
  BY <1>22 DEF IdrStore
<1>23. CASE SubmitOk
  BY <1>23 DEF SubmitOk
<1>24. CASE SubmitFails
  BY <1>24 DEF SubmitFails, release_wb_frame
<1>25. CASE TeardownDrained
  BY <1>25 DEF TeardownDrained
<1>26. CASE FlushPacket
  BY <1>26 DEF FlushPacket
<1>27. CASE FlushExtraPacket
  BY <1>27 DEF FlushExtraPacket
<1>28. CASE FlushEnds
  BY <1>28 DEF FlushEnds
<1>29. CASE ReleasePending
  BY <1>29 DEF ReleasePending
<1>30. CASE Cleanup
  BY <1>30 DEF Cleanup, NextFits, Ending
<1> QED
  BY <1>1, <1>2, <1>3, <1>4, <1>5, <1>6, <1>7, <1>8, <1>9, <1>10, <1>11, <1>12, <1>13,
    <1>14, <1>15, <1>16, <1>17, <1>18, <1>19, <1>20, <1>21, <1>22, <1>23, <1>24,
    <1>25, <1>26, <1>27, <1>28, <1>29, <1>30 DEF Next, DisplayNext, CallerNext,
    EncoderNext

-----------------------------------------------------------------------------
(* The queue and the end *)

\* Every step keeps the queue free of frames once the main thread joins.
LEMMA JoiningStep ==
  ASSUME DataOK, Joining, [Next]_vars
  PROVE  Joining'
<1> USE DEF Joining, display, outside, stream, setup, hand, keys, encoder, encoderOnly
<1> queue \in Seq(Task) /\ dpc \in {"run", "claimed", "gone"} /\ main \in {"run", "joining"}
  BY DEF DataOK
<1>1. CASE DisplayClaim \/ DisplayArmFails \/ DisplayCommitFails \/ DisplayExit
  <2>1. UNCHANGED <<queue, main>> /\ dpc # "gone"
    BY <1>1 DEF DisplayClaim, DisplayArmFails, DisplayCommitFails, DisplayExit,
      wants_capture
  <2> QED
    BY <2>1
<1>2. CASE writeback_frame \/ frame
  <2>1. CASE queue' = queue
    BY <1>2, <2>1 DEF writeback_frame, frame
  <2>2. CASE queue' # queue
    <3>1. PICK t \in Frame : queue' = Append(queue, t) /\ (main = "run" \/ dpc = "claimed")
      BY <1>2, <2>2, FrameAppended
    <3>2. UNCHANGED main /\ (main = "run" \/ dpc = "claimed")
      BY <1>2, <3>1 DEF writeback_frame, frame
    <3>3. t \in Task /\ t.kind # "SHUTDOWN"
      BY TaskRecords DEF Frame
    <3> QED
      BY <3>1, <3>2, <3>3, AppendFacts
  <2> QED
    BY <2>1, <2>2
<1>3. CASE set_video_params \/ restart
  <2>1. PICK t \in Task : EnqueueDropping(t) /\ t.kind # "SHUTDOWN" /\ main = "run" /\ main' = "run"
    <3>1. CASE set_video_params
      <4>1. PICK geo \in Geometries : EnqueueDropping([kind |-> "PARAMS", geo |-> geo])
        BY <3>1 DEF set_video_params
      <4>2. [kind |-> "PARAMS", geo |-> geo] \in Task
        BY TaskRecords, EncoderAssumption
      <4> QED
        BY <3>1, <4>1, <4>2 DEF set_video_params, Running
    <3>2. CASE restart
      <4>1. [kind |-> "RESTART"] \in Task
        BY TaskRecords
      <4> QED
        BY <3>2, <4>1 DEF restart, Running
    <3> QED
      BY <1>3, <3>1, <3>2
  <2>2. PICK pos \in Seq(1..Len(queue)) :
           /\ Len(queue') = Len(pos) + 1 /\ queue'[Len(pos) + 1] = t
           /\ \A i \in 1..Len(pos) : queue'[i] = queue[pos[i]] /\ ~IsFrame(queue'[i])
           /\ \A a, b \in 1..Len(pos) : a < b => pos[a] < pos[b]
           /\ \A j \in 1..Len(queue) : ~IsFrame(queue[j]) => \E i \in 1..Len(pos) : pos[i] = j
    BY <2>1, QueueDropped
  <2>3. \A i \in 1..Len(queue') : i = Len(pos) + 1 \/ (i \in 1..Len(pos) /\ pos[i] \in 1..Len(queue))
    BY <2>2
  <2> QED
    BY <2>1, <2>2, <2>3
<1>4. CASE DetachWriteback \/ request_keyframe \/ consumers_changed \/ After \/
  FrameRefused \/ FrameAccepted \/ FrameRebuilds \/ InitOk \/ InitFails \/ FenceOk \/
  FenceTimeout \/ DrainPacket \/ DrainDone \/ ImportOk \/ ImportFails \/ IdrNeeded \/
  IdrNotDue \/ IdrStore \/ SubmitOk \/ SubmitFails \/ TeardownDrained \/ FlushPacket
  \/ FlushExtraPacket \/ FlushEnds \/ ReleasePending \/ Cleanup \/ UNCHANGED vars
  <2>1. UNCHANGED <<queue, main, dpc>>
    BY <1>4, Zenon DEF DetachWriteback, request_keyframe, consumers_changed, After,
      FrameRefused, FrameAccepted, FrameRebuilds, InitOk, InitFails, FenceOk,
      FenceTimeout, DrainPacket, DrainDone, ImportOk, ImportFails, IdrNeeded,
      IdrNotDue, IdrStore, SubmitOk, SubmitFails, TeardownDrained, FlushPacket,
      FlushExtraPacket, FlushEnds, ReleasePending, Cleanup, vars
  <2> QED
    BY <2>1
<1>5. CASE post
  <2>1. [kind |-> "POST"] \in Task /\ [kind |-> "POST"].kind # "SHUTDOWN"
    BY TaskRecords
  <2> QED
    BY <1>5, <2>1, AppendFacts DEF post, Running
<1>6. CASE shutdown
  <2>1. [kind |-> "SHUTDOWN"] \in Task /\ ~IsFrame([kind |-> "SHUTDOWN"])
    BY TaskRecords DEF IsFrame
  <2>2. EnqueueDropping([kind |-> "SHUTDOWN"]) /\ main' = "joining" /\ dpc' = "gone"
    BY <1>6 DEF shutdown
  <2>3. PICK pos \in Seq(1..Len(queue)) :
           /\ Len(queue') = Len(pos) + 1 /\ queue'[Len(pos) + 1] = [kind |-> "SHUTDOWN"]
           /\ \A i \in 1..Len(pos) : queue'[i] = queue[pos[i]] /\ ~IsFrame(queue'[i])
           /\ \A a, b \in 1..Len(pos) : a < b => pos[a] < pos[b]
           /\ \A j \in 1..Len(queue) : ~IsFrame(queue[j]) => \E i \in 1..Len(pos) : pos[i] = j
    BY <2>1, <2>2, QueueDropped
  <2>4. \A i \in 1..Len(queue') : i = Len(pos) + 1 \/ (i \in 1..Len(pos) /\ pos[i] \in 1..Len(queue))
    BY <2>3
  <2> QED
    BY <2>1, <2>2, <2>3, <2>4
<1>7. CASE TakeFrame \/ TakePost \/ TakeRestart \/ TakeParams \/ TakeShutdown
  <2>1. UNCHANGED <<main, dpc>>
    BY <1>7, Zenon DEF TakeFrame, TakePost, TakeRestart, TakeParams, TakeShutdown, Take
  <2>2. /\ Len(queue') = Len(queue) - 1 /\ Len(queue) \in Nat
        /\ \A i \in 1..Len(queue') : i + 1 \in 1..Len(queue) /\ queue'[i] = queue[i + 1]
    <3>1. Take
      BY <1>7, Zenon DEF TakeFrame, TakePost, TakeRestart, TakeParams, TakeShutdown
    <3> QED
      BY <3>1, TakeTyped
  <2> QED
    BY <2>1, <2>2
<1> QED
  BY <1>1, <1>2, <1>3, <1>4, <1>5, <1>6, <1>7 DEF Next, DisplayNext, CallerNext,
    EncoderNext

\* Every step keeps the encoder thread from ending before the main thread joins.
LEMMA EndStep ==
  ASSUME DataOK, NextFits, Joining, EndsLast, [Next]_vars
  PROVE  EndsLast'
<1> USE DEF EndsLast, Ending, display, outside, stream, setup, hand, keys, encoder, encoderOnly
<1>1. CASE Others
  <2>1. main = "joining" => main' = "joining"
    BY <1>1, Zenon DEF Others, DisplayNext, CallerNext, DisplayClaim, writeback_frame,
      DisplayArmFails, DisplayCommitFails, DisplayExit, set_video_params,
      DetachWriteback, frame, restart, post, request_keyframe, consumers_changed,
      shutdown, vars
  <2> QED
    BY <1>1, <2>1, OthersKeepEncoder
<1>2. CASE TakeFrame
  BY <1>2 DEF TakeFrame, Take
<1>3. CASE TakePost
  BY <1>3 DEF TakePost, Take
<1>4. CASE TakeRestart
  BY <1>4 DEF TakeRestart, Take
<1>5. CASE TakeParams
  BY <1>5 DEF TakeParams, Take
<1>6. CASE TakeShutdown
  <2>1. queue[1].kind = "SHUTDOWN" /\ Len(queue) >= 1
    BY <1>6, HeadAndTail DEF TakeShutdown, Take, DataOK
  <2>2. main = "joining"
    BY <2>1 DEF Joining, DataOK
  <2> QED
    BY <1>6, <2>2 DEF TakeShutdown, Take, ShutdownEnds, Teardown
<1>7. CASE After
  BY <1>7 DEF After, Teardown
<1>8. CASE FrameRefused
  BY <1>8 DEF FrameRefused, release_wb_frame
<1>9. CASE FrameAccepted
  BY <1>9 DEF FrameAccepted
<1>10. CASE FrameRebuilds
  BY <1>10 DEF FrameRebuilds, Teardown
<1>11. CASE InitOk
  BY <1>11 DEF InitOk
<1>12. CASE InitFails
  BY <1>12 DEF InitFails, release_wb_frame
<1>13. CASE FenceOk
  BY <1>13 DEF FenceOk
<1>14. CASE FenceTimeout
  BY <1>14 DEF FenceTimeout, release_wb_frame
<1>15. CASE DrainPacket
  BY <1>15 DEF DrainPacket
<1>16. CASE DrainDone
  BY <1>16 DEF DrainDone, NextFits
<1>17. CASE ImportOk
  BY <1>17 DEF ImportOk
<1>18. CASE ImportFails
  BY <1>18 DEF ImportFails, release_wb_frame
<1>19. CASE IdrNeeded
  BY <1>19 DEF IdrNeeded
<1>20. CASE IdrNotDue
  BY <1>20 DEF IdrNotDue, AfterNoIdr
<1>21. CASE IdrStore
  BY <1>21 DEF IdrStore
<1>22. CASE SubmitOk
  BY <1>22 DEF SubmitOk
<1>23. CASE SubmitFails
  BY <1>23 DEF SubmitFails, release_wb_frame
<1>24. CASE TeardownDrained
  BY <1>24 DEF TeardownDrained
<1>25. CASE FlushPacket
  BY <1>25 DEF FlushPacket
<1>26. CASE FlushExtraPacket
  BY <1>26 DEF FlushExtraPacket
<1>27. CASE FlushEnds
  BY <1>27 DEF FlushEnds
<1>28. CASE ReleasePending
  BY <1>28 DEF ReleasePending
<1>29. CASE Cleanup
  BY <1>29 DEF Cleanup, NextFits
<1> QED
  BY <1>1, <1>2, <1>3, <1>4, <1>5, <1>6, <1>7, <1>8, <1>9, <1>10, <1>11, <1>12, <1>13,
    <1>14, <1>15, <1>16, <1>17, <1>18, <1>19, <1>20, <1>21, <1>22, <1>23, <1>24,
    <1>25, <1>26, <1>27, <1>28, <1>29 DEF Next, DisplayNext, CallerNext, EncoderNext,
    Others

\* Every step keeps the queued frames below the limit.
LEMMA LimitStep ==
  ASSUME DataOK, FramesBelowLimit, [Next]_vars
  PROVE  FramesBelowLimit'
<1> USE DEF FramesBelowLimit, display, outside, stream, setup, hand, keys, encoder, encoderOnly
<1> queue \in Seq(Task)
  BY DEF DataOK
<1>1. CASE DisplayClaim \/ DisplayArmFails \/ DisplayCommitFails \/ DisplayExit \/
  DetachWriteback \/ request_keyframe \/ consumers_changed \/ After \/ FrameRefused \/
  FrameAccepted \/ FrameRebuilds \/ InitOk \/ InitFails \/ FenceOk \/ FenceTimeout \/
  DrainPacket \/ DrainDone \/ ImportOk \/ ImportFails \/ IdrNeeded \/ IdrNotDue \/
  IdrStore \/ SubmitOk \/ SubmitFails \/ TeardownDrained \/ FlushPacket \/
  FlushExtraPacket \/ FlushEnds \/ ReleasePending \/ Cleanup \/ UNCHANGED vars
  <2>1. UNCHANGED <<queue>>
    BY <1>1, Zenon DEF DisplayClaim, DisplayArmFails, DisplayCommitFails, DisplayExit,
      DetachWriteback, request_keyframe, consumers_changed, After, FrameRefused,
      FrameAccepted, FrameRebuilds, InitOk, InitFails, FenceOk, FenceTimeout,
      DrainPacket, DrainDone, ImportOk, ImportFails, IdrNeeded, IdrNotDue, IdrStore,
      SubmitOk, SubmitFails, TeardownDrained, FlushPacket, FlushExtraPacket,
      FlushEnds, ReleasePending, Cleanup, vars
  <2> QED
    BY <2>1
<1>2. CASE writeback_frame \/ frame
  <2>1. CASE queue' = queue
    BY <2>1
  <2>2. CASE queue' # queue
    <3>1. PICK t \in Frame : queue' = Append(queue, t) /\ Len(queue) + 1 <= MAX_PENDING_FRAMES
      BY <1>2, <2>2, FrameAppended
    <3>2. t \in Task
      BY TaskRecords
    <3> QED
      BY <3>1, <3>2, AppendFacts
  <2> QED
    BY <2>1, <2>2
<1>3. CASE set_video_params \/ restart \/ shutdown
  <2>1. PICK t \in Task : EnqueueDropping(t) /\ ~IsFrame(t)
    <3>1. CASE set_video_params
      <4>1. PICK geo \in Geometries : EnqueueDropping([kind |-> "PARAMS", geo |-> geo])
        BY <3>1 DEF set_video_params
      <4>2. [kind |-> "PARAMS", geo |-> geo] \in Task /\ ~IsFrame([kind |-> "PARAMS", geo |-> geo])
        BY TaskRecords, EncoderAssumption DEF IsFrame
      <4> QED
        BY <4>1, <4>2
    <3>2. CASE restart
      <4>1. [kind |-> "RESTART"] \in Task /\ ~IsFrame([kind |-> "RESTART"])
        BY TaskRecords DEF IsFrame
      <4> QED
        BY <3>2, <4>1 DEF restart
    <3>3. CASE shutdown
      <4>1. [kind |-> "SHUTDOWN"] \in Task /\ ~IsFrame([kind |-> "SHUTDOWN"])
        BY TaskRecords DEF IsFrame
      <4> QED
        BY <3>3, <4>1 DEF shutdown
    <3> QED
      BY <1>3, <3>1, <3>2, <3>3
  <2>2. PICK pos \in Seq(1..Len(queue)) :
           /\ Len(queue') = Len(pos) + 1 /\ queue'[Len(pos) + 1] = t
           /\ \A i \in 1..Len(pos) : queue'[i] = queue[pos[i]] /\ ~IsFrame(queue'[i])
           /\ \A a, b \in 1..Len(pos) : a < b => pos[a] < pos[b]
           /\ \A j \in 1..Len(queue) : ~IsFrame(queue[j]) => \E i \in 1..Len(pos) : pos[i] = j
    BY <2>1, QueueDropped
  <2> QED
    BY <2>1, <2>2
<1>4. CASE post
  <2>1. [kind |-> "POST"] \in Task /\ ~IsFrame([kind |-> "POST"])
    BY TaskRecords DEF IsFrame
  <2>2. queue' = Append(queue, [kind |-> "POST"])
    BY <1>4 DEF post
  <2> QED
    BY <2>1, <2>2, AppendFacts
<1>5. CASE TakeFrame \/ TakePost \/ TakeRestart \/ TakeParams \/ TakeShutdown
  <2>1. /\ Len(queue') = Len(queue) - 1 /\ Len(queue) \in Nat
        /\ \A i \in 1..Len(queue') : i + 1 \in 1..Len(queue) /\ queue'[i] = queue[i + 1]
    <3>1. Take
      BY <1>5, Zenon DEF TakeFrame, TakePost, TakeRestart, TakeParams, TakeShutdown
    <3> QED
      BY <3>1, TakeTyped
  <2> QED
    BY <2>1, EncoderAssumption
<1> QED
  BY <1>1, <1>2, <1>3, <1>4, <1>5 DEF Next, DisplayNext, CallerNext, EncoderNext

\* At most MAX_PENDING_FRAMES + 2 slots are held when the display thread claims one.
LEMMA PoolLemma ==
  ASSUME DataOK, DisplayHolds, SlotsOwned, FramesBelowLimit
  PROVE  PoolSuffices
<1> SUFFICES ASSUME Cardinality(Slots) >= MAX_PENDING_FRAMES + 3, wants_capture,
                    Slots \ wb_busy = {}
             PROVE  FALSE
  BY DEF PoolSuffices
<1> DEFINE H == (-2..MAX_PENDING_FRAMES) \ {0}
           owner == [s \in Slots |-> CHOOSE h \in H : h \in Holders /\ HeldBy(h) = s]
<1>1. IsFiniteSet(H) /\ Cardinality(H) = MAX_PENDING_FRAMES + 2
  <2> DEFINE K == -2..MAX_PENDING_FRAMES
  <2>1. IsFiniteSet(K) /\ Cardinality(K) = MAX_PENDING_FRAMES + 3 /\ 0 \in K
    BY EncoderAssumption, FS_Interval
  <2> HIDE DEF K
  <2>2. IsFiniteSet(K \ {0}) /\ Cardinality(K \ {0}) = Cardinality(K) - 1
    BY <2>1, FS_RemoveElement, Zenon
  <2> QED
    BY <2>1, <2>2, EncoderAssumption DEF K
<1>2. \A s \in Slots : \E h \in H : h \in Holders /\ HeldBy(h) = s
  <2> SUFFICES ASSUME NEW s \in Slots PROVE \E h \in H : h \in Holders /\ HeldBy(h) = s
    OBVIOUS
  <2>1. PICK h \in Holders : HeldBy(h) = s
    BY DEF SlotsOwned
  <2>2. s # NoSlot
    BY EncoderAssumption
  <2>3. h # 0
    BY <2>1, <2>2 DEF HeldBy, DisplayHolds, wants_capture
  <2>4. h \in {-1, -2} \/ (h \in 1..Len(queue) /\ h <= MAX_PENDING_FRAMES)
    <3>1. h \in {-1, -2} \/ h \in 1..Len(queue)
      BY <2>3 DEF Holders
    <3>2. h \in 1..Len(queue) => IsFrame(queue[h])
      BY <2>1, <2>2 DEF HeldBy, Slot
    <3> QED
      BY <3>1, <3>2 DEF FramesBelowLimit
  <2>5. h \in H
    BY <2>4, EncoderAssumption DEF DataOK
  <2> QED
    BY <2>1, <2>5
<1> HIDE DEF H
<1>3. \A s \in Slots : owner[s] \in H /\ HeldBy(owner[s]) = s
  BY <1>2
<1>4. owner \in Injection(Slots, H)
  BY <1>3 DEF Injection, IsInjective
<1>5. Cardinality(Slots) <= Cardinality(H)
  BY <1>1, <1>4, FS_Injection
<1> QED
  BY <1>1, <1>5, EncoderAssumption, FS_CardinalityType

-----------------------------------------------------------------------------
(* Geometries of the decode tap *)

\* A task at the end of the queue that is no geometry change.
LEMMA AppendGeometry ==
  ASSUME queue \in Seq(Task), NEW t \in Task, queue' = Append(queue, t), QueueGeometry,
         ~IsParams(t), IsFrame(t) => t.geo = frm_geo /\ frm_geo # 0,
         UNCHANGED <<frm_geo, video_geo>>
  PROVE  QueueGeometry'
<1>1. /\ Len(queue') = Len(queue) + 1 /\ Len(queue) \in Nat /\ queue'[Len(queue) + 1] = t
      /\ \A i \in 1..Len(queue) : queue'[i] = queue[i]
  BY AppendFacts
<1>2. FramesFollow'
  BY <1>1 DEF QueueGeometry, FramesFollow, IsFrame, IsParams
<1>3. LastParams'
  BY <1>1 DEF QueueGeometry, LastParams, IsFrame, IsParams
<1>4. ParamsPending'
  BY <1>1 DEF QueueGeometry, ParamsPending, IsFrame, IsParams
<1> QED
  BY <1>2, <1>3, <1>4 DEF QueueGeometry

\* A control task queued with the frames dropped: a geometry change is the
\* decoder's new geometry, another task changes nothing.
LEMMA DropGeometry ==
  ASSUME queue \in Seq(Task), NEW t \in Task, EnqueueDropping(t), QueueGeometry,
         ~IsFrame(t), UNCHANGED video_geo,
         IF IsParams(t) THEN t.geo = frm_geo' ELSE UNCHANGED frm_geo
  PROVE  QueueGeometry'
<1>1. PICK pos \in Seq(1..Len(queue)) :
        /\ Len(queue') = Len(pos) + 1 /\ queue'[Len(pos) + 1] = t
        /\ \A i \in 1..Len(pos) : queue'[i] = queue[pos[i]] /\ ~IsFrame(queue'[i])
        /\ \A a, b \in 1..Len(pos) : a < b => pos[a] < pos[b]
        /\ \A j \in 1..Len(queue) : ~IsFrame(queue[j]) => \E i \in 1..Len(pos) : pos[i] = j
  BY QueueDropped
<1>2. /\ Len(pos) \in Nat /\ \A i \in 1..Len(pos) : pos[i] \in 1..Len(queue)
      /\ \A i \in 1..Len(queue') : i = Len(pos) + 1 \/ i \in 1..Len(pos)
  BY <1>1
<1>3. FramesFollow'
  BY <1>1, <1>2 DEF FramesFollow, IsFrame
<1>4. CASE IsParams(t)
  <2>1. ASSUME NEW i \in 1..Len(queue'), i # Len(pos) + 1
        PROVE  Len(pos) + 1 \in i+1..Len(queue')
    BY <1>1, <1>2, <2>1
  <2>2. LastParams'
    BY <1>1, <1>4, <2>1 DEF LastParams, IsParams
  <2>3. Len(pos) + 1 \in 1..Len(queue') /\ IsParams(queue'[Len(pos) + 1])
    BY <1>1, <1>2, <1>4
  <2>4. ParamsPending'
    BY <2>3 DEF ParamsPending, IsParams
  <2> QED
    BY <1>3, <2>2, <2>4 DEF QueueGeometry
<1>5. CASE ~IsParams(t)
  <2>1. \A j \in 1..Len(queue) : IsParams(queue[j]) => \E i \in 1..Len(pos) : pos[i] = j
    BY <1>1 DEF IsParams, IsFrame
  <2>2. ASSUME NEW i \in 1..Len(queue'), IsParams(queue'[i])
        PROVE  queue'[i].geo = frm_geo \/ \E j \in i+1..Len(queue') : IsParams(queue'[j])
    <3>1. i \in 1..Len(pos) /\ queue'[i] = queue[pos[i]] /\ pos[i] \in 1..Len(queue)
      BY <1>1, <1>2, <1>5, <2>2
    <3>2. CASE queue[pos[i]].geo = frm_geo
      BY <3>1, <3>2
    <3>3. CASE queue[pos[i]].geo # frm_geo
      <4>1. PICK j \in pos[i]+1..Len(queue) : IsParams(queue[j])
        <5>1. LastParams /\ IsParams(queue[pos[i]])
          BY <2>2, <3>1 DEF QueueGeometry
        <5> QED
          BY <3>1, <3>3, <5>1, Zenon DEF LastParams
      <4>2. PICK k \in 1..Len(pos) : pos[k] = j
        <5>1. j \in 1..Len(queue)
          BY <3>1, <4>1
        <5> QED
          BY <2>1, <4>1, <5>1, Zenon
      <4>3. i < k
        <5>1. pos[i] < pos[k]
          BY <3>1, <4>1, <4>2
        <5>2. ~(k < i) /\ k # i
          BY <1>1, <1>2, <3>1, <4>2, <5>1
        <5> QED
          BY <1>2, <3>1, <4>2, <5>2
      <4>4. k \in i+1..Len(queue') /\ IsParams(queue'[k])
        BY <1>1, <1>2, <3>1, <4>1, <4>2, <4>3
      <4> QED
        BY <4>4
    <3> QED
      BY <3>2, <3>3
  <2>3. LastParams'
    BY <1>5, <2>2 DEF LastParams, IsParams
  <2>4. ParamsPending'
    <3>1. CASE video_geo = frm_geo
      BY <1>5, <3>1 DEF ParamsPending
    <3>2. CASE video_geo # frm_geo
      <4>1. PICK j \in 1..Len(queue) : IsParams(queue[j])
        BY <3>2 DEF QueueGeometry, ParamsPending
      <4>2. PICK i \in 1..Len(pos) : pos[i] = j
        BY <2>1, <4>1
      <4>3. i \in 1..Len(queue') /\ IsParams(queue'[i])
        BY <1>1, <1>2, <4>1, <4>2
      <4> QED
        BY <4>3 DEF ParamsPending, IsParams
    <3> QED
      BY <3>1, <3>2
  <2> QED
    BY <1>3, <2>3, <2>4 DEF QueueGeometry
<1> QED
  BY <1>4, <1>5

\* Taking a task: a geometry change becomes the encoder's geometry, and a frame
\* is taken only with no geometry change left in the queue.
LEMMA TakeGeometry ==
  ASSUME queue \in Seq(Task), queue # <<>>, queue' = Tail(queue), QueueGeometry,
         UNCHANGED frm_geo,
         IF IsParams(Head(queue)) THEN video_geo' = Head(queue).geo ELSE UNCHANGED video_geo
  PROVE  /\ QueueGeometry'
         /\ IsFrame(Head(queue)) => Head(queue).geo = video_geo /\ video_geo # 0
<1>1. /\ Head(queue) = queue[1] /\ Len(queue) >= 1 /\ Len(queue') = Len(queue) - 1
      /\ Len(queue) \in Nat
      /\ \A i \in 1..Len(queue') : i + 1 \in 1..Len(queue) /\ queue'[i] = queue[i + 1]
  BY HeadAndTail
<1>2. ASSUME NEW i \in 1..Len(queue), NEW j \in i+1..Len(queue)
      PROVE  j - 1 \in i..Len(queue') /\ j - 1 \in 1..Len(queue') /\ queue'[j - 1] = queue[j]
  BY <1>1, <1>2
<1>3. FramesFollow'
  <2>1. ASSUME NEW i \in 1..Len(queue'), IsFrame(queue'[i])
        PROVE  /\ queue'[i].geo = frm_geo /\ frm_geo # 0
               /\ \A j \in i..Len(queue') : ~IsParams(queue'[j])
    <3>1. i + 1 \in 1..Len(queue) /\ queue'[i] = queue[i + 1]
      BY <1>1
    <3>2. \A j \in i..Len(queue') : j + 1 \in i+1..Len(queue) /\ queue'[j] = queue[j + 1]
      BY <1>1
    <3> QED
      BY <2>1, <3>1, <3>2 DEF QueueGeometry, FramesFollow
  <2> QED
    BY <2>1 DEF FramesFollow, IsFrame, IsParams
<1>4. LastParams'
  <2>1. ASSUME NEW i \in 1..Len(queue'), IsParams(queue'[i])
        PROVE  queue'[i].geo = frm_geo \/ \E j \in i+1..Len(queue') : IsParams(queue'[j])
    <3>1. i + 1 \in 1..Len(queue) /\ queue'[i] = queue[i + 1]
      BY <1>1
    <3>2. CASE queue[i + 1].geo # frm_geo
      <4>1. PICK j \in (i+1)+1..Len(queue) : IsParams(queue[j])
        BY <2>1, <3>1, <3>2 DEF QueueGeometry, LastParams
      <4>2. j - 1 \in i+1..Len(queue') /\ queue'[j - 1] = queue[j]
        BY <1>2, <3>1, <4>1
      <4> QED
        BY <4>1, <4>2
    <3> QED
      BY <3>1, <3>2
  <2> QED
    BY <2>1 DEF LastParams, IsParams
<1>5. (\E j \in 2..Len(queue) : IsParams(queue[j])) => \E j \in 1..Len(queue') : IsParams(queue'[j])
  <2>1. ASSUME NEW j \in 2..Len(queue), IsParams(queue[j])
        PROVE  \E i \in 1..Len(queue') : IsParams(queue'[i])
    <3>1. j - 1 \in 1..Len(queue') /\ queue'[j - 1] = queue[j]
      BY <1>1, <1>2
    <3> QED
      BY <2>1, <3>1
  <2> QED
    BY <2>1
<1>6. ParamsPending'
  <2>1. CASE IsParams(Head(queue))
    <3>1. queue[1].geo = frm_geo \/ \E j \in 2..Len(queue) : IsParams(queue[j])
      BY <1>1, <2>1 DEF QueueGeometry, LastParams
    <3>2. video_geo' = frm_geo' \/ \E j \in 1..Len(queue') : IsParams(queue'[j])
      BY <1>1, <1>5, <2>1, <3>1
    <3> QED
      BY <3>2 DEF ParamsPending, IsParams
  <2>2. CASE ~IsParams(Head(queue))
    <3>1. video_geo = frm_geo \/ \E j \in 2..Len(queue) : IsParams(queue[j])
      BY <1>1, <2>2 DEF QueueGeometry, ParamsPending
    <3>2. video_geo' = frm_geo' \/ \E j \in 1..Len(queue') : IsParams(queue'[j])
      BY <1>5, <2>2, <3>1
    <3> QED
      BY <3>2 DEF ParamsPending, IsParams
  <2> QED
    BY <2>1, <2>2
<1>7. IsFrame(Head(queue)) => Head(queue).geo = video_geo /\ video_geo # 0
  BY <1>1 DEF QueueGeometry, FramesFollow, ParamsPending
<1> QED
  BY <1>3, <1>4, <1>6, <1>7 DEF QueueGeometry

\* Every step keeps the geometries in the queue.
LEMMA QueueGeometryStep ==
  ASSUME ~Writeback, DataOK, TapHoldsNothing, QueueGeometry, [Next]_vars
  PROVE  QueueGeometry'
<1> USE DEF display, outside, stream, setup, hand, keys, encoder, encoderOnly
<1> queue \in Seq(Task)
  BY DEF DataOK
<1>1. CASE DisplayClaim \/ DisplayArmFails \/ DisplayCommitFails \/ DisplayExit \/
  DetachWriteback \/ request_keyframe \/ consumers_changed \/ After \/ FrameRefused \/
  FrameAccepted \/ FrameRebuilds \/ InitOk \/ InitFails \/ FenceOk \/ FenceTimeout \/
  DrainPacket \/ DrainDone \/ ImportOk \/ ImportFails \/ IdrNeeded \/ IdrNotDue \/
  IdrStore \/ SubmitOk \/ SubmitFails \/ TeardownDrained \/ FlushPacket \/
  FlushExtraPacket \/ FlushEnds \/ ReleasePending \/ Cleanup \/ UNCHANGED vars
  <2>1. UNCHANGED <<queue, frm_geo, video_geo>>
    BY <1>1, Zenon DEF DisplayClaim, DisplayArmFails, DisplayCommitFails, DisplayExit,
      DetachWriteback, request_keyframe, consumers_changed, After, FrameRefused,
      FrameAccepted, FrameRebuilds, InitOk, InitFails, FenceOk, FenceTimeout,
      DrainPacket, DrainDone, ImportOk, ImportFails, IdrNeeded, IdrNotDue, IdrStore,
      SubmitOk, SubmitFails, TeardownDrained, FlushPacket, FlushExtraPacket,
      FlushEnds, ReleasePending, Cleanup, vars
  <2> QED
    BY <2>1 DEF QueueGeometry, FramesFollow, LastParams, ParamsPending, IsFrame, IsParams
<1>2. CASE writeback_frame
  BY <1>2 DEF writeback_frame, TapHoldsNothing
<1>3. CASE set_video_params
  <2>1. PICK geo \in Geometries : frm_geo' = geo /\ EnqueueDropping([kind |-> "PARAMS", geo |-> geo])
    BY <1>3 DEF set_video_params
  <2> DEFINE t == [kind |-> "PARAMS", geo |-> geo]
  <2>2. t \in Task /\ ~IsFrame(t) /\ IsParams(t) /\ t.geo = frm_geo'
    BY <2>1, TaskRecords, EncoderAssumption DEF IsFrame, IsParams
  <2>3. UNCHANGED video_geo /\ EnqueueDropping(t)
    BY <1>3, <2>1 DEF set_video_params
  <2> HIDE DEF t
  <2> QED
    BY <2>2, <2>3, DropGeometry
<1>4. CASE frame
  <2>1. UNCHANGED <<frm_geo, video_geo>>
    BY <1>4 DEF frame
  <2>2. CASE queue' = queue
    BY <2>1, <2>2 DEF QueueGeometry, FramesFollow, LastParams, ParamsPending, IsFrame, IsParams
  <2>3. CASE queue' # queue
    <3>1. PICK t \in Frame : queue' = Append(queue, t) /\ t.geo = frm_geo /\ frm_geo # 0
      BY <1>4, <2>3, FrameAppended
    <3>2. t \in Task /\ ~IsParams(t)
      BY TaskRecords DEF Frame, IsParams
    <3> QED
      BY <2>1, <3>1, <3>2, AppendGeometry
  <2> QED
    BY <2>2, <2>3
<1>5. CASE restart
  <2>1. [kind |-> "RESTART"] \in Task /\ ~IsFrame([kind |-> "RESTART"]) /\ ~IsParams([kind |-> "RESTART"])
    BY TaskRecords DEF IsFrame, IsParams
  <2>2. EnqueueDropping([kind |-> "RESTART"]) /\ UNCHANGED <<video_geo, frm_geo>>
    BY <1>5 DEF restart
  <2> QED
    BY <2>1, <2>2, DropGeometry
<1>6. CASE post
  <2>1. [kind |-> "POST"] \in Task /\ ~IsFrame([kind |-> "POST"]) /\ ~IsParams([kind |-> "POST"])
    BY TaskRecords DEF IsFrame, IsParams
  <2>2. queue' = Append(queue, [kind |-> "POST"]) /\ UNCHANGED <<frm_geo, video_geo>>
    BY <1>6 DEF post
  <2> QED
    BY <2>1, <2>2, AppendGeometry
<1>7. CASE shutdown
  <2>1. [kind |-> "SHUTDOWN"] \in Task /\ ~IsFrame([kind |-> "SHUTDOWN"]) /\ ~IsParams([kind |-> "SHUTDOWN"])
    BY TaskRecords DEF IsFrame, IsParams
  <2>2. EnqueueDropping([kind |-> "SHUTDOWN"]) /\ UNCHANGED <<video_geo, frm_geo>>
    BY <1>7 DEF shutdown
  <2> QED
    BY <2>1, <2>2, DropGeometry
<1>8. CASE TakeFrame \/ TakePost \/ TakeRestart \/ TakeParams \/ TakeShutdown
  <2>1. queue # <<>> /\ queue' = Tail(queue) /\ UNCHANGED frm_geo
    BY <1>8, Zenon DEF TakeFrame, TakePost, TakeRestart, TakeParams, TakeShutdown, Take
  <2>2. IF IsParams(Head(queue)) THEN video_geo' = Head(queue).geo ELSE UNCHANGED video_geo
    BY <1>8 DEF TakeFrame, TakePost, TakeRestart, TakeParams, TakeShutdown, IsFrame, IsParams
  <2> QED
    BY <2>1, <2>2, TakeGeometry
<1> QED
  BY <1>1, <1>2, <1>3, <1>4, <1>5, <1>6, <1>7, <1>8 DEF Next, DisplayNext, CallerNext,
    EncoderNext

\* Every step keeps the frame in hand in the encoder's geometry.
LEMMA HandGeometryStep ==
  ASSUME DataOK, NextFits, QueueGeometry, HandGeometry, [Next]_vars
  PROVE  HandGeometry'
<1> USE DEF DataOK, NextFits, HandGeometry, HasFrame, IsFrame, Ending, Encoding, NoTask,
  display, outside, stream, setup, hand, keys, encoder, encoderOnly
<1>1. CASE Others
  BY <1>1, OthersKeepEncoder
<1>2. CASE TakeFrame
  <2>1. Head(queue).geo = video_geo /\ video_geo # 0
    <3>1. queue # <<>> /\ queue' = Tail(queue) /\ UNCHANGED <<frm_geo, video_geo>>
      BY <1>2, Zenon DEF TakeFrame, Take
    <3>2. IsFrame(Head(queue)) /\ ~IsParams(Head(queue)) /\ queue \in Seq(Task)
      BY <1>2 DEF TakeFrame, IsParams
    <3> QED
      BY <3>1, <3>2, TakeGeometry
  <2> QED
    BY <1>2, <2>1 DEF TakeFrame, Take
<1>3. CASE TakePost
  BY <1>3 DEF TakePost, Take
<1>4. CASE TakeRestart
  BY <1>4 DEF TakeRestart, Take
<1>5. CASE TakeParams
  BY <1>5 DEF TakeParams, Take
<1>6. CASE TakeShutdown
  BY <1>6 DEF TakeShutdown, Take, ShutdownEnds, Teardown
<1>7. CASE After
  BY <1>7 DEF After, Teardown
<1>8. CASE FrameRefused
  BY <1>8 DEF FrameRefused, release_wb_frame
<1>9. CASE FrameAccepted
  BY <1>9 DEF FrameAccepted
<1>10. CASE FrameRebuilds
  BY <1>10 DEF FrameRebuilds, Teardown
<1>11. CASE InitOk
  BY <1>11 DEF InitOk
<1>12. CASE InitFails
  BY <1>12 DEF InitFails, release_wb_frame
<1>13. CASE FenceOk
  BY <1>13 DEF FenceOk
<1>14. CASE FenceTimeout
  BY <1>14 DEF FenceTimeout, release_wb_frame
<1>15. CASE DrainPacket \/ FlushPacket
  <2>1. UNCHANGED <<epc, next, task, video_geo>>
    BY <1>15, Zenon DEF DrainPacket, FlushPacket
  <2> QED
    BY <2>1
<1>16. CASE DrainDone
  BY <1>16 DEF DrainDone
<1>17. CASE ImportOk
  BY <1>17 DEF ImportOk
<1>18. CASE ImportFails
  BY <1>18 DEF ImportFails, release_wb_frame
<1>19. CASE IdrNeeded
  BY <1>19 DEF IdrNeeded
<1>20. CASE IdrNotDue
  BY <1>20 DEF IdrNotDue, AfterNoIdr
<1>21. CASE IdrStore
  BY <1>21 DEF IdrStore
<1>22. CASE SubmitOk
  BY <1>22 DEF SubmitOk
<1>23. CASE SubmitFails
  BY <1>23 DEF SubmitFails, release_wb_frame
<1>24. CASE TeardownDrained
  BY <1>24 DEF TeardownDrained
<1>25. CASE FlushExtraPacket
  BY <1>25 DEF FlushExtraPacket
<1>26. CASE FlushEnds
  BY <1>26 DEF FlushEnds
<1>27. CASE ReleasePending
  BY <1>27 DEF ReleasePending
<1>28. CASE Cleanup
  BY <1>28 DEF Cleanup
<1> QED
  BY <1>1, <1>2, <1>3, <1>4, <1>5, <1>6, <1>7, <1>8, <1>9, <1>10, <1>11, <1>12, <1>13,
    <1>14, <1>15, <1>16, <1>17, <1>18, <1>19, <1>20, <1>21, <1>22, <1>23, <1>24,
    <1>25, <1>26, <1>27, <1>28 DEF Next, DisplayNext, CallerNext, EncoderNext, Others

\* Every step keeps a session that need not be rebuilt in the encoder's geometry.
LEMMA SessionGeometryStep ==
  ASSUME ~Writeback, FlagsOK, DataOK, NextFits, SessionGeometry, [Next]_vars
  PROVE  SessionGeometry'
<1> USE DEF FlagsOK, DataOK, NextFits, SessionGeometry, Ending, Encoding, display, outside,
  stream, setup, hand, keys, encoder, encoderOnly
<1>1. CASE Others
  BY <1>1, OthersKeepEncoder
<1>2. CASE TakeFrame
  BY <1>2 DEF TakeFrame, Take
<1>3. CASE TakePost
  BY <1>3 DEF TakePost, Take
<1>4. CASE TakeRestart
  BY <1>4 DEF TakeRestart, Take
<1>5. CASE TakeParams
  BY <1>5 DEF TakeParams, Take, NewGeometryRebuilds
<1>6. CASE TakeShutdown
  BY <1>6 DEF TakeShutdown, Take, ShutdownEnds, Teardown
<1>7. CASE After
  BY <1>7 DEF After, Teardown
<1>8. CASE FrameRefused
  BY <1>8 DEF FrameRefused, release_wb_frame
<1>9. CASE FrameAccepted
  BY <1>9 DEF FrameAccepted
<1>10. CASE FrameRebuilds
  BY <1>10 DEF FrameRebuilds, Teardown
<1>11. CASE InitOk
  BY <1>11 DEF InitOk
<1>12. CASE InitFails
  BY <1>12 DEF InitFails, release_wb_frame
<1>13. CASE FenceOk
  BY <1>13 DEF FenceOk
<1>14. CASE FenceTimeout
  BY <1>14 DEF FenceTimeout, release_wb_frame
<1>15. CASE DrainPacket \/ FlushPacket
  <2>1. UNCHANGED <<epc, next, ready, geometry_dirty, cur_geo, video_geo>>
    BY <1>15, Zenon DEF DrainPacket, FlushPacket
  <2> QED
    BY <2>1
<1>16. CASE DrainDone
  BY <1>16 DEF DrainDone
<1>17. CASE ImportOk
  BY <1>17 DEF ImportOk
<1>18. CASE ImportFails
  BY <1>18 DEF ImportFails, release_wb_frame
<1>19. CASE IdrNeeded
  BY <1>19 DEF IdrNeeded
<1>20. CASE IdrNotDue
  BY <1>20 DEF IdrNotDue, AfterNoIdr
<1>21. CASE IdrStore
  BY <1>21 DEF IdrStore
<1>22. CASE SubmitOk
  BY <1>22 DEF SubmitOk
<1>23. CASE SubmitFails
  BY <1>23 DEF SubmitFails, release_wb_frame
<1>24. CASE TeardownDrained
  BY <1>24 DEF TeardownDrained
<1>25. CASE FlushExtraPacket
  BY <1>25 DEF FlushExtraPacket
<1>26. CASE FlushEnds
  BY <1>26 DEF FlushEnds
<1>27. CASE ReleasePending
  BY <1>27 DEF ReleasePending
<1>28. CASE Cleanup
  BY <1>28 DEF Cleanup
<1> QED
  BY <1>1, <1>2, <1>3, <1>4, <1>5, <1>6, <1>7, <1>8, <1>9, <1>10, <1>11, <1>12, <1>13,
    <1>14, <1>15, <1>16, <1>17, <1>18, <1>19, <1>20, <1>21, <1>22, <1>23, <1>24,
    <1>25, <1>26, <1>27, <1>28 DEF Next, DisplayNext, CallerNext, EncoderNext, Others

-----------------------------------------------------------------------------
(* Giving up *)

\* No step starts a setup once the encoder was given up.
LEMMA GiveUpStep ==
  ASSUME TypeOK, NextFits, GivenUp, [Next]_vars
  PROVE  GivenUp'
<1> USE DEF TypeOK, FlagsOK, DataOK, GivenUp, SettingUp, NextFits, Ending, display, outside,
  stream, setup, hand, keys, encoder, encoderOnly
<1>1. CASE Others
  BY <1>1, OthersKeepEncoder
<1>2. CASE TakeFrame
  BY <1>2, EncoderAssumption DEF TakeFrame, Take
<1>3. CASE TakePost
  BY <1>3, EncoderAssumption DEF TakePost, Take
<1>4. CASE TakeRestart
  BY <1>4, EncoderAssumption DEF TakeRestart, Take
<1>5. CASE TakeParams
  BY <1>5, EncoderAssumption DEF TakeParams, Take, NewGeometryRebuilds
<1>6. CASE TakeShutdown
  BY <1>6, EncoderAssumption DEF TakeShutdown, Take, ShutdownEnds, Teardown
<1>7. CASE After
  BY <1>7, EncoderAssumption DEF After, Teardown
<1>8. CASE FrameRefused
  BY <1>8, EncoderAssumption DEF FrameRefused, release_wb_frame
<1>9. CASE FrameAccepted
  BY <1>9, EncoderAssumption DEF FrameAccepted
<1>10. CASE FrameRebuilds
  BY <1>10, EncoderAssumption DEF FrameRebuilds, Teardown, AttemptsLeft
<1>11. CASE InitOk
  BY <1>11, EncoderAssumption DEF InitOk
<1>12. CASE InitFails
  BY <1>12, EncoderAssumption DEF InitFails, release_wb_frame
<1>13. CASE FenceOk
  BY <1>13, EncoderAssumption DEF FenceOk
<1>14. CASE FenceTimeout
  BY <1>14, EncoderAssumption DEF FenceTimeout, release_wb_frame
<1>15. CASE DrainPacket
  BY <1>15, EncoderAssumption DEF DrainPacket
<1>16. CASE DrainDone
  BY <1>16, EncoderAssumption DEF DrainDone
<1>17. CASE ImportOk
  BY <1>17, EncoderAssumption DEF ImportOk
<1>18. CASE ImportFails
  BY <1>18, EncoderAssumption DEF ImportFails, release_wb_frame
<1>19. CASE IdrNeeded
  BY <1>19, EncoderAssumption DEF IdrNeeded
<1>20. CASE IdrNotDue
  BY <1>20, EncoderAssumption DEF IdrNotDue, AfterNoIdr
<1>21. CASE IdrStore
  BY <1>21, EncoderAssumption DEF IdrStore
<1>22. CASE SubmitOk
  BY <1>22, EncoderAssumption DEF SubmitOk
<1>23. CASE SubmitFails
  BY <1>23, EncoderAssumption DEF SubmitFails, release_wb_frame
<1>24. CASE TeardownDrained
  BY <1>24, EncoderAssumption DEF TeardownDrained
<1>25. CASE FlushPacket
  BY <1>25, EncoderAssumption DEF FlushPacket
<1>26. CASE FlushExtraPacket
  BY <1>26, EncoderAssumption DEF FlushExtraPacket
<1>27. CASE FlushEnds
  BY <1>27, EncoderAssumption DEF FlushEnds
<1>28. CASE ReleasePending
  BY <1>28, EncoderAssumption DEF ReleasePending
<1>29. CASE Cleanup
  BY <1>29, EncoderAssumption DEF Cleanup
<1> QED
  BY <1>1, <1>2, <1>3, <1>4, <1>5, <1>6, <1>7, <1>8, <1>9, <1>10, <1>11, <1>12, <1>13,
    <1>14, <1>15, <1>16, <1>17, <1>18, <1>19, <1>20, <1>21, <1>22, <1>23, <1>24,
    <1>25, <1>26, <1>27, <1>28, <1>29 DEF Next, DisplayNext, CallerNext, EncoderNext,
    Others

-----------------------------------------------------------------------------
(* Theorems *)

\* The inductive invariant holds initially.
LEMMA InitInv == Init => IInv
<1> SUFFICES ASSUME Init PROVE IInv
  OBVIOUS
<1> USE DEF Init
<1>1. FlagsOK
  BY EncoderAssumption DEF FlagsOK
<1>2. DataOK
  BY EncoderAssumption, NoSlotTyped DEF DataOK, EncoderStep
<1>3. TaskInHand /\ NextFits
  BY DEF TaskInHand, NextFits, HasFrame, IsFrame, Ending, Encoding, NoTask
<1>4. DisplayHolds /\ PendingClear /\ TapHoldsNothing
  BY DEF DisplayHolds, PendingClear, TapHoldsNothing, Encoding
<1>5. SlotsOwned
  <2>1. \A h \in Holders : HeldBy(h) = NoSlot
    BY DEF Holders, HeldBy, Slot, IsFrame, NoTask
  <2> QED
    BY <2>1 DEF SlotsOwned
<1>6. StreamPaired /\ IdrAsked /\ KeyframeOwed
  BY DEF StreamPaired, PtsPaired, IdrAsked, KeyframeOwed
<1>7. Joining /\ EndsLast /\ FramesBelowLimit
  BY DEF Joining, EndsLast, Ending, FramesBelowLimit
<1>8. TapGeometry
  BY DEF TapGeometry, QueueGeometry, FramesFollow, LastParams, ParamsPending, HandGeometry,
    SessionGeometry, HasFrame, Ending, Encoding
<1> QED
  BY <1>1, <1>2, <1>3, <1>4, <1>5, <1>6, <1>7, <1>8 DEF IInv, TypeOK

\* Every step keeps the inductive invariant.
LEMMA InvStep == IInv /\ [Next]_vars => IInv'
<1> SUFFICES ASSUME IInv, [Next]_vars PROVE IInv'
  OBVIOUS
<1> USE DEF IInv, TypeOK
<1>1. TypeOK' /\ TaskInHand' /\ NextFits'
  BY FlagsStep, DataStep, HandStep
<1>2. DisplayHolds' /\ PendingClear' /\ TapHoldsNothing' /\ SlotsOwned'
  BY DisplayStep, PendingStep, TapStep, OwnershipStep
<1>3. StreamPaired' /\ IdrAsked' /\ KeyframeOwed'
  BY StreamStep, KeyframeStep
<1>4. Joining' /\ EndsLast' /\ FramesBelowLimit'
  BY JoiningStep, EndStep, LimitStep
<1>5. TapGeometry'
  <2>1. ASSUME ~Writeback PROVE QueueGeometry' /\ HandGeometry' /\ SessionGeometry'
    BY <2>1, QueueGeometryStep, HandGeometryStep, SessionGeometryStep DEF TapGeometry
  <2> QED
    BY <2>1 DEF TapGeometry
<1> QED
  BY <1>1, <1>2, <1>3, <1>4, <1>5

\* Every reachable state satisfies the inductive invariant.
THEOREM Invariance == Spec => []IInv
BY InitInv, InvStep, PTL DEF Spec

\* Type correctness and the caps on the counters, for every pool, limit and bound.
THEOREM TypeCorrect == Spec => []TypeOK
<1>1. IInv => TypeOK
  BY DEF IInv
<1> QED
  BY <1>1, Invariance, PTL

\* Writeback slots have a single owner and never leak, whatever the display thread,
\* the encoder thread and the threads that queue or drop tasks do.
THEOREM SingleOwner == Spec => []SlotsOwned
<1>1. IInv => SlotsOwned
  BY DEF IInv
<1> QED
  BY <1>1, Invariance, PTL

\* Three slots more than MAX_PENDING_FRAMES are enough: the display thread finds a
\* free slot for every frame it captures.
THEOREM EnoughSlots == Spec => []PoolSuffices
<1>1. IInv => PoolSuffices
  BY PoolLemma DEF IInv, TypeOK
<1> QED
  BY <1>1, Invariance, PTL

\* emit() gives every access unit the pts of the frame it encodes.
THEOREM PtsCorrect == Spec => []PtsPaired
<1>1. IInv => PtsPaired
  BY DEF IInv, StreamPaired
<1> QED
  BY <1>1, Invariance, PTL

\* A frame is submitted only to a session of its own geometry, and the decode tap
\* sets no session up before the geometry is known.
THEOREM SessionFits == Spec => []SessionFitsFrame
<1>1. IInv => SessionFitsFrame
  BY DEF IInv, TapGeometry, HandGeometry, SessionGeometry, HasFrame, Encoding, SessionFitsFrame,
    GeometryKnown
<1> QED
  BY <1>1, Invariance, PTL

\* No keyframe request is lost, whenever a consumer makes it.
THEOREM KeyframesOwed == Spec => []KeyframeOwed
<1>1. IInv => KeyframeOwed
  BY DEF IInv
<1> QED
  BY <1>1, Invariance, PTL

\* When the encoder thread ends, no slot is busy and MPP holds nothing.
THEOREM DoneFree == Spec => []DoneMeansFree
<1>1. IInv => DoneMeansFree
  <2> SUFFICES ASSUME IInv, epc = "done" PROVE wb_busy = {} /\ ~ready /\ mpp = <<>>
    BY DEF DoneMeansFree
  <2>1. main = "joining" /\ ~ready /\ mpp = <<>>
    BY DEF IInv, EndsLast
  <2>2. wb_idx = NoSlot /\ \A i \in 1..Len(queue) : ~IsFrame(queue[i])
    BY <2>1 DEF IInv, Joining, DisplayHolds
  <2>3. wb_pending_index = NoSlot /\ ~IsFrame(task)
    BY DEF IInv, PendingClear, TaskInHand, HasFrame, Ending, Encoding
  <2>4. \A h \in Holders : HeldBy(h) = NoSlot
    BY <2>2, <2>3 DEF Holders, HeldBy, Slot
  <2>5. NoSlot \notin wb_busy
    BY EncoderAssumption DEF IInv, TypeOK, DataOK
  <2> QED
    BY <2>1, <2>4, <2>5 DEF IInv, SlotsOwned
<1> QED
  BY <1>1, Invariance, PTL

\* Once the encoder was given up no step starts another setup.
THEOREM GivesUp == Spec => GivesUpForGood
<1>1. IInv /\ [Next]_vars => [GivenUp => GivenUp']_vars
  BY GiveUpStep DEF IInv
<1> QED
  BY <1>1, Invariance, PTL DEF Spec, GivesUpForGood

=============================================================================
