------------------------------ MODULE DvrProofs ------------------------------
(***************************************************************************)
(* Theorems about the recorder of Dvr.tla, for every value of its bounds   *)
(* and limits: type correctness, and the safety properties that must hold  *)
(* whatever the stall watchdog on the encoder thread does while the worker *)
(* is anywhere in its work.                                                *)
(*                                                                         *)
(* None of the properties is inductive: between two waits the worker is    *)
(* inside stop(), fail() or open_next_file(), where they do not hold.  The *)
(* invariant IInv says, of each step inside them, what the rest of the     *)
(* call will put right.  FileInv, of which IInv is a part, says what the   *)
(* queue, the worker's hands and the open file hold against each other:    *)
(* from it follow what a file may contain and that the byte count of the   *)
(* queue is exact.                                                         *)
(***************************************************************************)
EXTENDS Dvr, SeqFilterProofs

-----------------------------------------------------------------------------
(* The inductive invariant *)

\* Inside stop(), and after it stored recording_armed = false.
Disarmed == {"stop_any", "stop_gate", "stop_cas", "finalize", "latch"}
Closing == {"stop"} \cup (Disarmed \ {"latch"})
Finishing == {"finish", "finish_stalled", "finish_disabled"}
Leaving == {"end", "clear", "done"}

\* Only an access unit is handled as one.
AuInHand == wpc \in {"au", "open", "write"} => rpc \in Au

\* A fatal fail() is in progress: stop() first, the latch after it.
Failing == fatal => /\ wpc \in Closing \cup {"latch"}
                    /\ ret \in {"dispatch", "finish"} /\ fin = "loop"

LatchIsFatal == wpc = "latch" => fatal

\* A counter at its limit: the DVR is Disabled or about to be, and the worker
\* is on its way out.
GivenUp ==
  /\ wpc \in Closing \cup {"latch"} \cup Finishing \cup Leaving
  /\ wpc \in Closing \cup {"latch"} => ret # "dispatch"
  /\ disabled \/ fatal

LimitsHold ==
  /\ open_attempts = MAX_OPEN_ATTEMPTS => GivenUp
  /\ write_fail_streak = MAX_CONSECUTIVE_WRITE_FAILURES => GivenUp

\* Where the worker returns to on its way out of the loop.
ReturnsOut ==
  /\ fin = "clear" => wpc \in Closing \cup {"finish", "finish_stalled", "clear", "done"}
  /\ wpc \in {"clear", "done"} => fin = "clear"
  /\ wpc \in Closing /\ fin = "clear" => ret \in {"finish", "clear"}
  /\ ret = "clear" => fin = "clear"
  /\ fin = "break" => wpc \in Closing \cup {"finish", "finish_stalled", "end"}
  /\ wpc \in Closing /\ fin = "break" => ret = "end"
  /\ ret = "end" => wpc \notin {"wait", "status", "dispatch"}

\* on_tick() is past its exchange of stalled_: the flag is still set, or the worker
\* has consumed it and is on its way out with nothing left to protect.
WatchdogCovered ==
  epc \in {"tick_latch", "tick_disarm"} =>
    \/ stalled
    \/ wpc \in Closing /\ (ret \in {"end", "clear"} \/ fin = "clear")
    \/ /\ ~is_open /\ recording_fact # "true"
       /\ wpc \in Leaving \/ (fin = "clear" /\ wpc \in {"finish", "finish_stalled"})

WatchdogLatched == epc = "tick_disarm" => disabled

\* Whatever is open, armed state or a declared stall will close it.
OpenCovered == is_open => recording_armed \/ stalled \/ wpc \in Closing
OpeningCovered ==
  wpc \in {"open", "write", "start_fact"} => recording_armed \/ stalled
FactCovered ==
  recording_fact = "true" =>
    /\ recording_armed \/ stalled \/ wpc \in {"stop", "stop_any", "stop_gate"}
    /\ wpc \notin {"stop_cas", "finalize", "latch"}
RecordingCovered ==
  dvr_state = "Recording" =>
    recording_armed \/ wpc \in {"start_arm", "stop_any", "stop_gate", "stop_cas"}

DisarmedHolds ==
  recording_armed => /\ wpc \notin Disarmed \cup {"start", "start_arm", "clear", "done"}
                     /\ wpc \in {"finish", "finish_stalled"} => fin # "clear"
ClosedAtEnd == wpc \in {"clear", "done"} => ~is_open /\ recording_fact # "true"
EmptyAtEnd ==
  wpc = "done" => queue_bytes = 0 /\ \A i \in 1..Len(queue) : IsCommand(queue[i])

\* on_tick() has disarmed the recorder; only a start() that was past its exchange
\* can arm it again, or publish that it records, and then the worker is on its way out.
Updating == {"tick_any", "tick_gate", "tick_drop"}
Rearmed == {"start_fact", "start_any", "start_gate", "stop", "end"} \cup Finishing
FactFollows ==
  /\ recording_fact = "true" =>
       \/ recording_armed \/ wpc \in {"stop", "stop_any", "stop_gate"} \/ epc \in Updating
       \/ disabled /\ wpc \in Rearmed
  /\ recording_armed =>
       recording_fact = "true" \/ wpc = "start_fact" \/ (disabled /\ wpc \in Rearmed)
  /\ wpc = "start_fact" => recording_armed \/ disabled
  /\ epc \in Updating => disabled /\ (recording_armed => wpc \in Rearmed)

\* A file is empty only until the keyframe it was opened for is written.
FirstIsKey ==
  /\ file # <<>> => file[1].key
  /\ wpc = "open" => rpc.key /\ file = <<>> /\ ~is_open
  /\ wpc = "write" /\ file = <<>> => rpc.key
  /\ is_open /\ wpc # "write" => file # <<>>

Control ==
  /\ AuInHand /\ Failing /\ LatchIsFatal /\ LimitsHold /\ ReturnsOut
  /\ WatchdogCovered /\ WatchdogLatched /\ OpenCovered /\ OpeningCovered
  /\ FactCovered /\ RecordingCovered /\ DisarmedHolds /\ ClosedAtEnd /\ FactFollows
  /\ FirstIsKey

IInv == TypeOK /\ Control /\ EmptyAtEnd

-----------------------------------------------------------------------------
(* Types *)

\* Every step keeps the flags Boolean.
LEMMA FlagsStep ==
  ASSUME FlagsOK, [Next]_vars
  PROVE  FlagsOK'
<1> USE DEF FlagsOK, shared, queueVars, call, disk, worker, encoder, callers,
  bounds, others
<1>1. CASE LoopPop
  BY <1>1, DvrAssumption, Zenon DEF LoopPop
<1>2. CASE LoopTimeout
  BY <1>2, DvrAssumption, Zenon DEF LoopTimeout
<1>3. CASE StatusLost
  BY <1>3, DvrAssumption, Zenon DEF StatusLost, CallFatalFail, CallStop,
    AfterStatus, file_active
<1>4. CASE StatusLow
  BY <1>4, DvrAssumption, Zenon DEF StatusLow, CallStop, AfterStatus, file_active
<1>5. CASE DispatchDisabled
  BY <1>5, DvrAssumption, Zenon DEF DispatchDisabled, HandledWhenDisabled
<1>6. CASE DispatchAu
  BY <1>6, DvrAssumption, Zenon DEF DispatchAu, Step, HandledWhenDisabled,
    Dispatched
<1>7. CASE DispatchStop
  BY <1>7, DvrAssumption, Zenon DEF DispatchStop, CallStop, HandledWhenDisabled,
    Dispatched
<1>8. CASE DispatchDisable
  BY <1>8, DvrAssumption, Zenon DEF DispatchDisable, HandledWhenDisabled, Dispatched
<1>9. CASE DispatchRotate
  BY <1>9, DvrAssumption, Zenon DEF DispatchRotate, HandledWhenDisabled, Dispatched,
    request_rotate
<1>10. CASE DispatchFail
  BY <1>10, DvrAssumption, Zenon DEF DispatchFail, CallFatalFail, CallStop,
    HandledWhenDisabled, Dispatched
<1>11. CASE StartRefused
  BY <1>11, DvrAssumption, Zenon DEF StartRefused
<1>12. CASE StartRecording
  BY <1>12, DvrAssumption, Zenon DEF StartRecording
<1>13. CASE StartArm \/ StartFact
  <2>1. CASE StartArm
    BY <2>1, DvrAssumption, Zenon DEF StartArm
  <2>2. CASE StartFact
    BY <2>2, DvrAssumption, Zenon DEF StartFact
  <2> QED
    BY <1>13, <2>1, <2>2
<1>14. CASE StartAny
  BY <1>14, DvrAssumption, Zenon DEF StartAny, WorkerAny, active
<1>15. CASE StartGate
  BY <1>15, DvrAssumption, Zenon DEF StartGate
<1>16. CASE AuOverflow
  BY <1>16, DvrAssumption, Zenon DEF AuOverflow, CallFatalFail, CallStop
<1>17. CASE AuRoll
  BY <1>17, DvrAssumption, Zenon DEF AuRoll, OpensFile
<1>18. CASE OpenOk
  BY <1>18, DvrAssumption, Zenon DEF OpenOk
<1>19. CASE OpenFails
  <2>1. /\ fatal' = TRUE \/ UNCHANGED fatal
        /\ UNCHANGED <<shared, pending_open, is_open, wany, others>>
    BY <1>19, Zenon DEF OpenFails, CallFatalFail, CallStop
  <2>2. fatal' \in BOOLEAN
    BY <2>1, Zenon
  <2>3. UNCHANGED <<recording_armed, wants_frames, queue_overflow, busy, stalled, wany,
                   pending_open, is_open, eany, fresh>>
    BY <2>1
  <2> QED
    BY <2>2, <2>3, Zenon
<1>20. CASE Write
  <2>1. /\ pending_open' = TRUE \/ UNCHANGED pending_open
        /\ fatal' = TRUE \/ UNCHANGED fatal
        /\ UNCHANGED <<shared, is_open, wany, others>>
    BY <1>20, Zenon DEF Write, CallFatalFail, CallStop, request_rotate
  <2>2. pending_open' \in BOOLEAN
    BY <2>1, Zenon
  <2>3. fatal' \in BOOLEAN
    BY <2>1, Zenon
  <2>4. UNCHANGED <<recording_armed, wants_frames, queue_overflow, busy, stalled, wany,
                   is_open, eany, fresh>>
    BY <2>1
  <2> QED
    BY <2>2, <2>3, <2>4, Zenon
<1>21. CASE StopDisarm
  BY <1>21, DvrAssumption, Zenon DEF StopDisarm
<1>22. CASE StopAny
  BY <1>22, DvrAssumption, Zenon DEF StopAny, WorkerAny, active
<1>23. CASE StopGate
  BY <1>23, DvrAssumption, Zenon DEF StopGate, PublishStopped
<1>24. CASE StopCas
  BY <1>24, DvrAssumption, Zenon DEF StopCas, CasRecordingToIdle
<1>25. CASE Finalize
  BY <1>25, DvrAssumption, Zenon DEF Finalize
<1>26. CASE Latch
  BY <1>26, DvrAssumption, Zenon DEF Latch
<1>27. CASE FinishIdle
  BY <1>27, DvrAssumption, Zenon DEF FinishIdle
<1>28. CASE FinishStalled
  BY <1>28, DvrAssumption, Zenon DEF FinishStalled, CallStop, AfterBreak
<1>29. CASE FinishNotStalled
  BY <1>29, DvrAssumption, Zenon DEF FinishNotStalled, Step, AfterBreak
<1>30. CASE FinishLoop
  BY <1>30, DvrAssumption, Zenon DEF FinishLoop, AfterWork
<1>31. CASE End
  BY <1>31, DvrAssumption, Zenon DEF End, EndStops
<1>32. CASE Clear
  BY <1>32, DvrAssumption, Zenon DEF Clear
<1>33. CASE StatusOk \/ AuDiscard \/ AuWrite
  BY <1>33, DvrAssumption DEF StatusOk, AuDiscard, AuWrite, Step, AfterStatus,
    OpensFile
<1>34. CASE DispatchStart \/ DispatchIgnored \/ DispatchShutdown
  BY <1>34, DvrAssumption DEF DispatchStart, DispatchIgnored, DispatchShutdown,
    Step, HandledWhenDisabled, Dispatched
<1>35. CASE RunTask
  BY <1>35, DvrAssumption, Zenon DEF RunTask, EnqueueRpc
<1>36. CASE EncoderAny
  BY <1>36, DvrAssumption, Zenon DEF EncoderAny, active
<1>37. CASE EncoderGate
  BY <1>37, DvrAssumption, Zenon DEF EncoderGate
<1>38. CASE EmitAu
  BY <1>38, DvrAssumption, Zenon DEF EmitAu, on_access_unit, DropOnFullQueue
<1>39. CASE EncoderReset
  BY <1>39, DvrAssumption, Zenon DEF EncoderReset, EnqueueRpc
<1>40. CASE EncoderFailed
  BY <1>40, DvrAssumption, Zenon DEF EncoderFailed, EnqueueRpc
<1>41. CASE TickStall
  BY <1>41, DvrAssumption, Zenon DEF TickStall, ExchangeStalled
<1>42. CASE TickLatch
  BY <1>42, DvrAssumption, Zenon DEF TickLatch
<1>43. CASE TickDisarm
  BY <1>43, DvrAssumption, Zenon DEF TickDisarm
<1>44. CASE TickDrop
  BY <1>44, DvrAssumption, Zenon DEF TickDrop, WipeQueue
<1>45. CASE EncoderQuit
  BY <1>45, DvrAssumption, Zenon DEF EncoderQuit
<1>46. CASE FrameTask \/ FrameDone \/ TickStuck \/ TickDisabled \/ EncoderDone
  BY <1>46, DvrAssumption DEF FrameTask, FrameDone, TickStuck, TickDisabled,
    EncoderDone, EStep
<1>47. CASE start_recording_post \/ toggle_recording_post \/ stop_recording_post
  BY <1>47, DvrAssumption DEF start_recording_post, toggle_recording_post,
    stop_recording_post, DisplayPost, Post, MainPost
<1>48. CASE disable_post \/ shutdown_post \/ encoder_shutdown
  BY <1>48, DvrAssumption DEF disable_post, shutdown_post, encoder_shutdown, DisplayPost,
    Post, MainPost
<1>49. CASE start_recording \/ toggle_recording \/ stop_recording \/ disable \/ DisplayExit
            \/ shutdown
  BY <1>49, DvrAssumption DEF start_recording, toggle_recording, stop_recording, disable,
    DisplayExit, shutdown, CasRecordingToIdle, onlyState
<1>50. CASE UNCHANGED vars
  BY <1>50 DEF vars
<1> QED
  BY <1>1, <1>2, <1>3, <1>4, <1>5, <1>6, <1>7, <1>8, <1>9, <1>10, <1>11, <1>12,
    <1>13, <1>14, <1>15, <1>16, <1>17, <1>18, <1>19, <1>20, <1>21, <1>22, <1>23,
    <1>24, <1>25, <1>26, <1>27, <1>28, <1>29, <1>30, <1>31, <1>32, <1>33, <1>34,
    <1>35, <1>36, <1>37, <1>38, <1>39, <1>40, <1>41, <1>42, <1>43, <1>44, <1>45,
    <1>46, <1>47, <1>48, <1>49, <1>50 DEF Next, WorkerNext, EncoderNext, TickNext,
    CallerNext, Terminated

\* The wipe in on_tick() leaves a queue of commands.
LEMMA KeptAreCommands ==
  ASSUME queue \in Seq(Rpc)
  PROVE  /\ Commands(queue) \in Seq(Rpc)
         /\ \A i \in 1..Len(Commands(queue)) : IsCommand(Commands(queue)[i])
<1> DEFINE I == {i \in 1..Len(queue) : IsCommand(queue[i])}
<1>1. I \in SUBSET (1..Len(queue))
  OBVIOUS
<1>2. Commands(queue) = Keep(queue, I)
  BY DEF Commands
<1>3. \A i \in I : IsCommand(queue[i])
  OBVIOUS
<1> HIDE DEF I
<1>4. /\ Keep(queue, I) \in Seq(Rpc)
      /\ \A j \in 1..Len(Keep(queue, I)) :
           InOrder(I)[j] \in I /\ Keep(queue, I)[j] = queue[InOrder(I)[j]]
  BY <1>1, KeepCorrect
<1> QED
  BY <1>2, <1>3, <1>4

\* What is taken off the queue is an rpc.
LEMMA HeadTyped ==
  ASSUME queue \in Seq(Rpc), queue # <<>>
  PROVE  /\ Head(queue) \in Rpc /\ Tail(queue) \in Seq(Rpc)
         /\ QueuedLen(Head(queue)) \in Nat
<1>1. Head(queue) \in Rpc /\ Tail(queue) \in Seq(Rpc)
  OBVIOUS
<1>2. ASSUME NEW r \in Rpc PROVE QueuedLen(r) \in Nat
  BY DEF QueuedLen, Rpc, Au, Command
<1> QED
  BY <1>1, <1>2

\* A task taken off the encoder's queue is a command, unless it is QUIT.
LEMMA TaskTyped ==
  ASSUME tasks \in Seq(Command \cup {"QUIT"}), tasks # <<>>, Head(tasks) # "QUIT"
  PROVE  Head(tasks) \in Command /\ Tail(tasks) \in Seq(Command \cup {"QUIT"})
  OBVIOUS

\* A bare command is an rpc.
LEMMA CommandTyped ==
  ASSUME NEW c \in Command
  PROVE  [command |-> c] \in Rpc
  BY Zenon DEF Rpc

\* Every step keeps the other variables in their types and the counters in range.
LEMMA DataStep ==
  ASSUME DataOK, AuInHand, LimitsHold, [Next]_vars
  PROVE  DataOK'
<1> USE DvrAssumption DEF DataOK, WorkerStep, EncoderStep, DvrState, shared,
  queueVars, call, disk, worker, encoder, callers, bounds, others
<1>1. CASE LoopPop
  <2>1. queue \in Seq(Rpc) /\ queue # <<>>
    BY <1>1 DEF LoopPop
  <2>2. Head(queue) \in Rpc /\ Tail(queue) \in Seq(Rpc) /\ QueuedLen(Head(queue)) \in Nat
    BY <2>1, HeadTyped
  <2> QED
    BY <1>1, <2>2 DEF LoopPop
<1>2. CASE LoopTimeout
  BY <1>2 DEF LoopTimeout
<1>3. CASE StatusLost
  BY <1>3 DEF StatusLost, CallFatalFail, CallStop, AfterStatus, file_active
<1>4. CASE StatusLow
  BY <1>4 DEF StatusLow, CallStop, AfterStatus, file_active
<1>5. CASE DispatchDisabled
  BY <1>5 DEF DispatchDisabled
<1>6. CASE DispatchAu
  BY <1>6 DEF DispatchAu, Step
<1>7. CASE DispatchStop
  BY <1>7 DEF DispatchStop, CallStop
<1>8. CASE DispatchDisable
  BY <1>8 DEF DispatchDisable
<1>9. CASE DispatchRotate
  BY <1>9 DEF DispatchRotate, request_rotate
<1>10. CASE DispatchFail
  BY <1>10 DEF DispatchFail, CallFatalFail, CallStop
<1>11. CASE StartRefused
  BY <1>11 DEF StartRefused
<1>12. CASE StartRecording
  BY <1>12 DEF StartRecording
<1>13. CASE StartArm \/ StartFact
  BY <1>13 DEF StartArm, StartFact
<1>14. CASE StartAny
  BY <1>14 DEF StartAny, WorkerAny
<1>15. CASE StartGate
  BY <1>15 DEF StartGate
<1>16. CASE AuOverflow
  BY <1>16 DEF AuOverflow, CallFatalFail, CallStop
<1>17. CASE AuRoll
  BY <1>17 DEF AuRoll, OpensFile
<1>18. CASE OpenOk
  BY <1>18 DEF OpenOk
<1>19. CASE OpenFails
  BY <1>19 DEF OpenFails, CallFatalFail, CallStop, OutOfAttempts, LimitsHold,
    GivenUp, Closing, Disarmed, Finishing, Leaving
<1>20. CASE Write
  <2>1. PICK outcome \in WriteOutcomes :
          /\ file' = Append(file, [n |-> rpc.n, session |-> rpc.session,
                                   key |-> rpc.key, ok |-> outcome # "failed"])
          /\ write_fail_streak' = StreakAfter(outcome)
    BY <1>20 DEF Write
  <2>2. file' \in Seq(MuxedAu)
    <3>1. rpc \in Au
      BY <1>20 DEF Write, AuInHand
    <3>2. (outcome # "failed") \in BOOLEAN
      OBVIOUS
    <3>3. [n |-> rpc.n, session |-> rpc.session, key |-> rpc.key,
           ok |-> outcome # "failed"] \in MuxedAu
      BY <3>1, <3>2, Zenon DEF Au, MuxedAu
    <3> QED
      BY <2>1, <3>3
  <2>3. write_fail_streak' \in 0..MAX_CONSECUTIVE_WRITE_FAILURES
    <3>1. write_fail_streak # MAX_CONSECUTIVE_WRITE_FAILURES
      BY <1>20 DEF Write, LimitsHold, GivenUp, Closing, Disarmed, Finishing, Leaving
    <3>2. outcome \in {"ok", "sync_failed", "failed"}
      BY DEF WriteOutcomes
    <3>3. write_fail_streak' \in {0, 1, write_fail_streak + 1}
      BY <2>1, <3>2 DEF StreakAfter
    <3> QED
      BY <3>1, <3>3
  <2> QED
    BY <1>20, <2>2, <2>3 DEF Write, CallFatalFail, CallStop
<1>21. CASE StopDisarm
  BY <1>21 DEF StopDisarm
<1>22. CASE StopAny
  BY <1>22 DEF StopAny, WorkerAny
<1>23. CASE StopGate
  BY <1>23 DEF StopGate, PublishStopped
<1>24. CASE StopCas
  BY <1>24 DEF StopCas, CasRecordingToIdle
<1>25. CASE Finalize
  BY <1>25 DEF Finalize
<1>26. CASE Latch
  BY <1>26 DEF Latch
<1>27. CASE FinishIdle
  BY <1>27 DEF FinishIdle
<1>28. CASE FinishStalled
  BY <1>28 DEF FinishStalled, CallStop, AfterBreak
<1>29. CASE FinishNotStalled
  BY <1>29 DEF FinishNotStalled, Step, AfterBreak
<1>30. CASE FinishLoop
  BY <1>30 DEF FinishLoop, AfterWork
<1>31. CASE End
  BY <1>31 DEF End, EndStops
<1>32. CASE Clear
  BY <1>32 DEF Clear
<1>33. CASE StatusOk \/ AuDiscard \/ AuWrite
  <2>1. /\ wpc' \in {"finish", "dispatch", "write"}
        /\ UNCHANGED <<shared, call, disk, others>>
    BY <1>33 DEF StatusOk, AuDiscard, AuWrite, Step, AfterStatus
  <2> QED
    BY <2>1
<1>34. CASE DispatchStart \/ DispatchIgnored \/ DispatchShutdown
  <2>1. /\ wpc' \in {"start", "finish", "end"}
        /\ UNCHANGED <<shared, call, disk, others>>
    BY <1>34 DEF DispatchStart, DispatchIgnored, DispatchShutdown, Step
  <2> QED
    BY <2>1
<1>35. CASE RunTask
  <2>1. Head(tasks) \in Command /\ Tail(tasks) \in Seq(Command \cup {"QUIT"})
    BY <1>35, TaskTyped DEF RunTask
  <2>2. [command |-> Head(tasks)] \in Rpc
    BY <2>1, CommandTyped
  <2>3. queue' \in Seq(Rpc)
    BY <1>35, <2>2 DEF RunTask, EnqueueRpc
  <2> QED
    BY <1>35, <2>1, <2>3 DEF RunTask, EnqueueRpc
<1>36. CASE EncoderAny
  BY <1>36 DEF EncoderAny
<1>37. CASE EncoderGate
  BY <1>37 DEF EncoderGate
<1>38. CASE EmitAu
  <2>1. PICK len \in AuLens, key \in BOOLEAN :
          on_access_unit([command |-> "AU", n |-> aus', len |-> len,
                          session |-> session, key |-> key])
    BY <1>38 DEF EmitAu
  <2>2. len \in Nat /\ aus' \in Nat /\ aus' = aus + 1
    BY <1>38 DEF EmitAu
  <2> DEFINE au == [command |-> "AU", n |-> aus', len |-> len,
                    session |-> session, key |-> key]
  <2>3. au \in Rpc /\ au.len = len
    BY <2>2, Zenon DEF Rpc, Au
  <2>4. on_access_unit(au)
    BY <2>1
  <2> HIDE DEF au
  <2>5. queue' \in Seq(Rpc) /\ queue_bytes' \in Int
    <3>1. CASE queue' = Append(queue, au) /\ queue_bytes' = queue_bytes + au.len
      BY <2>2, <2>3, <3>1
    <3>2. CASE UNCHANGED <<queue, queue_bytes>>
      BY <3>2
    <3> QED
      BY <2>4, <3>1, <3>2 DEF on_access_unit, queueVars
  <2> QED
    BY <1>38, <2>2, <2>5 DEF EmitAu
<1>39. CASE EncoderReset
  <2>1. [command |-> "ROTATE"] \in Rpc
    BY CommandTyped DEF Command
  <2>2. queue' \in Seq(Rpc)
    BY <1>39, <2>1 DEF EncoderReset, EnqueueRpc
  <2> QED
    BY <1>39, <2>2 DEF EncoderReset, EnqueueRpc
<1>40. CASE EncoderFailed
  <2>1. [command |-> "FAIL"] \in Rpc
    BY CommandTyped DEF Command
  <2>2. queue' \in Seq(Rpc)
    BY <1>40, <2>1 DEF EncoderFailed, EnqueueRpc
  <2> QED
    BY <1>40, <2>2 DEF EncoderFailed, EnqueueRpc
<1>41. CASE TickStall
  BY <1>41 DEF TickStall, ExchangeStalled
<1>42. CASE TickLatch
  BY <1>42 DEF TickLatch
<1>43. CASE TickDisarm
  BY <1>43 DEF TickDisarm
<1>44. CASE TickDrop
  <2>1. Commands(queue) \in Seq(Rpc)
    BY KeptAreCommands
  <2> QED
    BY <1>44, <2>1 DEF TickDrop, WipeQueue
<1>45. CASE EncoderQuit
  BY <1>45 DEF EncoderQuit
<1>46. CASE FrameTask \/ FrameDone \/ TickStuck \/ TickDisabled \/ EncoderDone
  <2>1. /\ epc' \in {"frame", "idle", "tick", "tick_stall", "done"}
        /\ UNCHANGED <<shared, worker, eany, tasks, session, fresh, callers, bounds>>
    BY <1>46 DEF FrameTask, FrameDone, TickStuck, TickDisabled, EncoderDone, EStep
  <2> QED
    BY <2>1
<1>47. CASE start_recording \/ toggle_recording
  BY <1>47 DEF start_recording, toggle_recording
<1>48. CASE start_recording_post \/ toggle_recording_post
  <2>1. CASE start_recording_post
    BY <2>1 DEF start_recording_post, MainPost, Post, Command
  <2>2. CASE toggle_recording_post
    BY <2>2 DEF toggle_recording_post, DisplayPost, Post, Command
  <2> QED
    BY <1>48, <2>1, <2>2
<1>49. CASE stop_recording
  BY <1>49 DEF stop_recording, CasRecordingToIdle, onlyState
<1>50. CASE stop_recording_post
  BY <1>50 DEF stop_recording_post, MainPost, Post, Command
<1>51. CASE disable
  BY <1>51 DEF disable, onlyState
<1>52. CASE disable_post
  BY <1>52 DEF disable_post, DisplayPost, Post, Command
<1>53. CASE DisplayExit
  BY <1>53 DEF DisplayExit
<1>54. CASE shutdown
  BY <1>54 DEF shutdown, CasRecordingToIdle, onlyState
<1>55. CASE shutdown_post
  BY <1>55 DEF shutdown_post, MainPost, Post, Command
<1>56. CASE encoder_shutdown
  BY <1>56 DEF encoder_shutdown, MainPost, Post, Command
<1>57. CASE UNCHANGED vars
  BY <1>57 DEF vars
<1> QED
  BY <1>1, <1>2, <1>3, <1>4, <1>5, <1>6, <1>7, <1>8, <1>9, <1>10, <1>11, <1>12,
    <1>13, <1>14, <1>15, <1>16, <1>17, <1>18, <1>19, <1>20, <1>21, <1>22, <1>23,
    <1>24, <1>25, <1>26, <1>27, <1>28, <1>29, <1>30, <1>31, <1>32, <1>33, <1>34,
    <1>35, <1>36, <1>37, <1>38, <1>39, <1>40, <1>41, <1>42, <1>43, <1>44, <1>45,
    <1>46, <1>47, <1>48, <1>49, <1>50, <1>51, <1>52, <1>53, <1>54, <1>55, <1>56,
    <1>57 DEF Next, WorkerNext, EncoderNext, TickNext, CallerNext, Terminated

-----------------------------------------------------------------------------
(* Control *)

\* The types the control invariants need.
ControlTypes ==
  /\ FlagsOK /\ rpc \in Rpc \cup {NoRpc} /\ dvr_state \in DvrState
  /\ recording_fact \in {"none", "true", "false"} /\ file \in Seq(MuxedAu)
  /\ wpc \in WorkerStep /\ epc \in EncoderStep
  /\ ret \in {"dispatch", "finish", "end", "clear"} /\ fin \in {"loop", "break", "clear"}
  /\ open_attempts \in 0..MAX_OPEN_ATTEMPTS
  /\ write_fail_streak \in 0..MAX_CONSECUTIVE_WRITE_FAILURES

\* Every step, of the worker, the watchdog or a caller, keeps Control.
LEMMA ControlStep ==
  ASSUME ControlTypes, Control, [Next]_vars
  PROVE  Control'
<1> USE DvrAssumption DEF ControlTypes, FlagsOK, WorkerStep, EncoderStep, DvrState,
  disabled, Disarmed, Closing, Finishing, Leaving, Control, AuInHand, Failing,
  LatchIsFatal, LimitsHold, GivenUp, ReturnsOut, WatchdogCovered, WatchdogLatched,
  OpenCovered, OpeningCovered, FactCovered, RecordingCovered, DisarmedHolds,
  ClosedAtEnd, FactFollows, Updating, Rearmed, FirstIsKey, shared, queueVars, call,
  disk, worker, encoder, callers, bounds, others
<1>1. CASE LoopPop
  BY <1>1 DEF LoopPop
<1>2. CASE LoopTimeout
  BY <1>2 DEF LoopTimeout
<1>3. CASE StatusLost
  BY <1>3 DEF StatusLost, CallFatalFail, CallStop, AfterStatus, file_active
<1>4. CASE StatusLow
  BY <1>4 DEF StatusLow, CallStop, AfterStatus, file_active
<1>5. CASE DispatchDisabled
  BY <1>5 DEF DispatchDisabled, HandledWhenDisabled
<1>6. CASE DispatchAu
  BY <1>6 DEF DispatchAu, Step, HandledWhenDisabled, Dispatched, Rpc, Au, Command,
    NoRpc
<1>7. CASE DispatchStop
  BY <1>7 DEF DispatchStop, CallStop, HandledWhenDisabled, Dispatched
<1>8. CASE DispatchDisable
  BY <1>8 DEF DispatchDisable, HandledWhenDisabled, Dispatched
<1>9. CASE DispatchRotate
  BY <1>9 DEF DispatchRotate, HandledWhenDisabled, Dispatched, request_rotate
<1>10. CASE DispatchFail
  BY <1>10 DEF DispatchFail, CallFatalFail, CallStop, HandledWhenDisabled,
    Dispatched
<1>11. CASE StartRefused
  BY <1>11 DEF StartRefused
<1>12. CASE StartRecording
  BY <1>12 DEF StartRecording
<1>13. CASE StartArm \/ StartFact
  BY <1>13 DEF StartArm, StartFact
<1>14. CASE StartAny
  BY <1>14 DEF StartAny, WorkerAny
<1>15. CASE StartGate
  BY <1>15 DEF StartGate
<1>16. CASE AuOverflow
  BY <1>16 DEF AuOverflow, CallFatalFail, CallStop
<1>17. CASE AuRoll
  BY <1>17 DEF AuRoll, OpensFile
<1>18. CASE OpenOk
  BY <1>18 DEF OpenOk
<1>19. CASE OpenFails
  BY <1>19 DEF OpenFails, CallFatalFail, CallStop, OutOfAttempts
<1>20. CASE Write
  <2>1. wpc = "write" /\ UNCHANGED <<shared, open_attempts, is_open, others>>
    BY <1>20 DEF Write
  <2>2. file' # <<>> /\ file'[1].key
    <3>1. PICK ok : file' = Append(file, [n |-> rpc.n, session |-> rpc.session,
                                          key |-> rpc.key, ok |-> ok])
      BY <1>20 DEF Write
    <3> QED
      BY <2>1, <3>1
  <2>3. CASE write_fail_streak' >= MAX_CONSECUTIVE_WRITE_FAILURES
             /\ CallFatalFail("write", "finish")
    BY <2>2, <2>1, <2>3 DEF CallFatalFail, CallStop
  <2>4. CASE write_fail_streak' < MAX_CONSECUTIVE_WRITE_FAILURES
             /\ wpc' = "finish" /\ UNCHANGED call
    BY <2>2, <2>1, <2>4
  <2> QED
    BY <1>20, <2>3, <2>4 DEF Write
<1>21. CASE StopDisarm
  BY <1>21 DEF StopDisarm
<1>22. CASE StopAny
  BY <1>22 DEF StopAny, WorkerAny
<1>23. CASE StopGate
  BY <1>23 DEF StopGate, PublishStopped
<1>24. CASE StopCas
  BY <1>24 DEF StopCas, CasRecordingToIdle
<1>25. CASE Finalize
  BY <1>25 DEF Finalize
<1>26. CASE Latch
  BY <1>26 DEF Latch
<1>27. CASE FinishIdle
  BY <1>27 DEF FinishIdle
<1>28. CASE FinishStalled
  BY <1>28 DEF FinishStalled, CallStop, AfterBreak
<1>29. CASE FinishNotStalled
  BY <1>29 DEF FinishNotStalled, Step, AfterBreak
<1>30. CASE FinishLoop
  BY <1>30 DEF FinishLoop, AfterWork
<1>31. CASE End
  BY <1>31 DEF End, EndStops
<1>32. CASE Clear
  BY <1>32 DEF Clear
<1>33. CASE StatusOk \/ AuDiscard \/ AuWrite
  BY <1>33 DEF StatusOk, AuDiscard, AuWrite, Step, AfterStatus, OpensFile
<1>34. CASE DispatchStart \/ DispatchIgnored \/ DispatchShutdown
  BY <1>34 DEF DispatchStart, DispatchIgnored, DispatchShutdown, Step,
    HandledWhenDisabled, Dispatched
<1>35. CASE RunTask
  BY <1>35 DEF RunTask, EnqueueRpc
<1>36. CASE EncoderAny
  BY <1>36 DEF EncoderAny
<1>37. CASE EncoderGate
  BY <1>37 DEF EncoderGate
<1>38. CASE EmitAu
  BY <1>38 DEF EmitAu, on_access_unit, DropOnFullQueue
<1>39. CASE EncoderReset
  BY <1>39 DEF EncoderReset, EnqueueRpc
<1>40. CASE EncoderFailed
  BY <1>40 DEF EncoderFailed, EnqueueRpc
<1>41. CASE TickStall
  BY <1>41 DEF TickStall, ExchangeStalled
<1>42. CASE TickLatch
  BY <1>42 DEF TickLatch
<1>43. CASE TickDisarm
  BY <1>43 DEF TickDisarm
<1>44. CASE TickDrop
  BY <1>44 DEF TickDrop, WipeQueue
<1>45. CASE EncoderQuit
  BY <1>45 DEF EncoderQuit
<1>46. CASE FrameTask \/ FrameDone \/ TickStuck \/ TickDisabled \/ EncoderDone
  BY <1>46 DEF FrameTask, FrameDone, TickStuck, TickDisabled, EncoderDone, EStep
<1>47. CASE start_recording_post \/ toggle_recording_post \/ stop_recording_post
  BY <1>47 DEF start_recording_post, toggle_recording_post, stop_recording_post,
    DisplayPost, Post, MainPost
<1>48. CASE disable_post \/ shutdown_post \/ encoder_shutdown
  BY <1>48 DEF disable_post, shutdown_post, encoder_shutdown, DisplayPost, Post, MainPost
<1>49. CASE start_recording \/ toggle_recording \/ stop_recording \/ disable \/ DisplayExit
            \/ shutdown
  BY <1>49 DEF start_recording, toggle_recording, stop_recording, disable, DisplayExit,
    shutdown, CasRecordingToIdle, onlyState
<1>50. CASE UNCHANGED vars
  BY <1>50 DEF vars
<1> QED
  BY <1>1, <1>2, <1>3, <1>4, <1>5, <1>6, <1>7, <1>8, <1>9, <1>10, <1>11, <1>12,
    <1>13, <1>14, <1>15, <1>16, <1>17, <1>18, <1>19, <1>20, <1>21, <1>22, <1>23,
    <1>24, <1>25, <1>26, <1>27, <1>28, <1>29, <1>30, <1>31, <1>32, <1>33, <1>34,
    <1>35, <1>36, <1>37, <1>38, <1>39, <1>40, <1>41, <1>42, <1>43, <1>44, <1>45,
    <1>46, <1>47, <1>48, <1>49, <1>50 DEF Next, WorkerNext, EncoderNext, TickNext,
    CallerNext, Terminated

-----------------------------------------------------------------------------
(* The queue after the end *)

\* Once the worker is done only commands join the queue it emptied.
LEMMA EmptyStep ==
  ASSUME TypeOK, Control, EmptyAtEnd, [Next]_vars
  PROVE  EmptyAtEnd'
<1> USE DEF shared, queueVars, call, disk, worker, encoder, callers, bounds, others
<1>1. CASE Clear
  BY <1>1 DEF Clear, EmptyAtEnd
<1>2. CASE WorkerNext /\ ~Clear
  <2>1. ret # "done"
    BY DEF TypeOK, DataOK
  <2>2. wpc' # "done"
    BY <1>2, <2>1 DEF WorkerNext, LoopPop, LoopTimeout, StatusOk, Step, AfterStatus,
      StatusLost, CallFatalFail, CallStop, file_active, StatusLow, DispatchDisabled,
      HandledWhenDisabled, DispatchAu, Dispatched, DispatchStart, DispatchStop,
      DispatchDisable, DispatchRotate, request_rotate, DispatchFail, DispatchIgnored,
      DispatchShutdown, StartRefused, StartRecording, StartArm, StartFact, StartAny,
      WorkerAny, StartGate, AuDiscard, OpensFile, AuOverflow, AuRoll, AuWrite, OpenOk, OpenFails,
      OutOfAttempts, Write, StreakAfter, StopDisarm, StopAny, StopGate, PublishStopped,
      StopCas, CasRecordingToIdle, Finalize, Latch, FinishIdle, FinishStalled,
      AfterBreak, FinishNotStalled, FinishLoop, AfterWork, End, EndStops, Clear
  <2> QED
    BY <2>2 DEF EmptyAtEnd
<1>3. CASE UNCHANGED <<wpc, queue, queue_bytes>>
  BY <1>3 DEF EmptyAtEnd
<1>4. ASSUME NEW command \in Command, EnqueueRpc(command) PROVE EmptyAtEnd'
  <2>1. IsCommand([command |-> command])
    BY DEF IsCommand, Command
  <2> QED
    BY <1>4, <2>1 DEF EnqueueRpc, EmptyAtEnd, TypeOK, DataOK
<1>5. CASE RunTask \/ EncoderReset \/ EncoderFailed
  BY <1>4, <1>5 DEF RunTask, EncoderReset, EncoderFailed, TypeOK, DataOK, Command
<1>6. CASE EmitAu
  <2>1. wpc' = wpc
    BY <1>6 DEF EmitAu
  <2>2. wpc = "done" => ~recording_armed
    BY DEF Control, DisarmedHolds
  <2>3. wpc = "done" => UNCHANGED <<wpc, queue, queue_bytes>>
    BY <1>6, <2>2 DEF EmitAu, on_access_unit
  <2> QED
    BY <1>3, <2>1, <2>3 DEF EmptyAtEnd
<1>7. CASE TickDrop
  BY <1>7, KeptAreCommands DEF TickDrop, WipeQueue, EmptyAtEnd, TypeOK, DataOK
<1>8. CASE CallerNext
  BY <1>3, <1>8 DEF CallerNext, start_recording, start_recording_post, Post,
    toggle_recording, toggle_recording_post, DisplayPost,
    stop_recording, CasRecordingToIdle, onlyState, stop_recording_post, MainPost,
    disable, disable_post, DisplayExit, shutdown, shutdown_post, encoder_shutdown
<1>9. CASE EncoderAny \/ EncoderGate \/ FrameTask \/ FrameDone \/ TickStuck \/ TickDisabled
           \/ TickStall \/ TickLatch \/ TickDisarm \/ EncoderQuit \/ EncoderDone
  BY <1>3, <1>9 DEF EncoderAny, EncoderGate, FrameTask, FrameDone, TickStuck, TickDisabled,
    TickStall, TickLatch, TickDisarm, EncoderQuit, EncoderDone, EStep
<1>10. CASE UNCHANGED vars
  BY <1>3, <1>10 DEF vars
<1> QED
  BY <1>1, <1>2, <1>5, <1>6, <1>7, <1>8, <1>9, <1>10
    DEF Next, EncoderNext, TickNext, Terminated

-----------------------------------------------------------------------------
(* The theorems *)

\* The invariant holds at the start.
LEMMA InitInv == Init => IInv
<1> SUFFICES ASSUME Init PROVE IInv
  OBVIOUS
<1>1. FlagsOK
  BY DvrAssumption, Zenon DEF Init, FlagsOK
<1>2. DataOK
  BY DvrAssumption DEF Init, DataOK, DvrState, WorkerStep, EncoderStep, NoRpc
<1>3. Control
  BY DvrAssumption DEF Init, Control, disabled, Disarmed, Closing, Finishing, Leaving,
    AuInHand, Failing, LatchIsFatal, LimitsHold, GivenUp, ReturnsOut, WatchdogCovered,
      WatchdogLatched, OpenCovered, OpeningCovered, FactCovered, RecordingCovered,
      DisarmedHolds, ClosedAtEnd, FactFollows, Updating, Rearmed, FirstIsKey
<1>4. EmptyAtEnd
  BY DEF Init, EmptyAtEnd
<1> QED
  BY <1>1, <1>2, <1>3, <1>4 DEF IInv, TypeOK

\* Every step keeps the invariant.
LEMMA NextInv == IInv /\ [Next]_vars => IInv'
<1> SUFFICES ASSUME IInv, [Next]_vars PROVE IInv'
  OBVIOUS
<1>1. FlagsOK /\ DataOK /\ TypeOK /\ Control /\ EmptyAtEnd
  BY DEF IInv, TypeOK
<1>2. AuInHand /\ LimitsHold
  BY <1>1 DEF Control
<1>3. ControlTypes
  BY <1>1 DEF DataOK, ControlTypes
<1>4. FlagsOK' /\ DataOK'
  BY <1>1, <1>2, FlagsStep, DataStep
<1>5. Control'
  BY <1>1, <1>3, ControlStep
<1>6. EmptyAtEnd'
  BY <1>1, EmptyStep
<1> QED
  BY <1>4, <1>5, <1>6 DEF IInv, TypeOK

\* IInv is an invariant: the facts the safety theorems rest on.
THEOREM Invariance == Spec => []IInv
  BY InitInv, NextInv, PTL DEF Spec

\* Type correctness: in particular the DVR never counts past the number of failed
\* opens or writes at which it gives up, however the watchdog interferes.
THEOREM TypeCorrect == Spec => []TypeOK
<1>1. IInv => TypeOK
  BY DEF IInv
<1> QED
  BY <1>1, Invariance, PTL

\* Disabled is a latch: no thread's store or exchange leaves it.
THEOREM DisabledForever == Spec => DisabledLatch
<1>1. disabled /\ [Next]_vars => disabled'
  <2> SUFFICES ASSUME disabled, [Next]_vars PROVE disabled'
    OBVIOUS
  <2> USE DEF disabled, shared, queueVars, call, disk, worker, encoder, callers, bounds,
        others
  <2>1. CASE WorkerNext
    BY <2>1 DEF WorkerNext, LoopPop, LoopTimeout, StatusOk, Step, AfterStatus,
      StatusLost, CallFatalFail, CallStop, file_active, StatusLow, DispatchDisabled,
      HandledWhenDisabled, DispatchAu, Dispatched, DispatchStart, DispatchStop,
      DispatchDisable, DispatchRotate, request_rotate, DispatchFail, DispatchIgnored,
      DispatchShutdown, StartRefused, StartRecording, StartArm, StartFact, StartAny,
      WorkerAny, StartGate, AuDiscard, OpensFile, AuOverflow, AuRoll, AuWrite, OpenOk, OpenFails,
      OutOfAttempts, Write, StreakAfter, StopDisarm, StopAny, StopGate, PublishStopped,
      StopCas, CasRecordingToIdle, Finalize, Latch, FinishIdle, FinishStalled,
      AfterBreak, FinishNotStalled, FinishLoop, AfterWork, End, EndStops, Clear
  <2>2. CASE EncoderNext
    BY <2>2 DEF EncoderNext, TickNext, RunTask, EnqueueRpc, EncoderAny, EncoderGate,
      EmitAu, on_access_unit, DropOnFullQueue, FrameTask, EStep, FrameDone,
      EncoderReset, EncoderFailed, TickStuck, TickDisabled, TickStall, ExchangeStalled,
      TickLatch, TickDisarm, TickDrop, WipeQueue, EncoderQuit, EncoderDone
  <2>3. CASE CallerNext
    BY <2>3 DEF CallerNext, start_recording, start_recording_post, Post,
    toggle_recording, toggle_recording_post, DisplayPost,
      stop_recording, CasRecordingToIdle, onlyState, stop_recording_post, MainPost,
      disable, disable_post, DisplayExit, shutdown, shutdown_post, encoder_shutdown
  <2>4. CASE UNCHANGED vars
    BY <2>4 DEF vars
  <2> QED
    BY <2>1, <2>2, <2>3, <2>4 DEF Next, Terminated
<1> QED
  BY <1>1, PTL DEF Spec, DisabledLatch

\* The worker never returns with a file open, a recording armed or announced, or
\* access units queued.
THEOREM WorkerLeavesClosed == Spec => []DoneMeansClosed
<1>1. IInv => DoneMeansClosed
  BY DEF IInv, Control, DisarmedHolds, ClosedAtEnd, RecordingCovered, EmptyAtEnd,
    DoneMeansClosed
<1> QED
  BY <1>1, Invariance, PTL

\* A waiting worker's open file is armed or flagged for finish_storage_work(), its
\* Recording state is an armed recording, and the OSD was told what it does.
THEOREM WaitingStateAgrees == Spec => []StateAgrees
<1>1. IInv => OpenFileOwned
  BY DEF IInv, Control, OpenCovered, Closing, Disarmed, OpenFileOwned
<1>2. IInv => RecordingIsArmed
  BY DEF IInv, Control, RecordingCovered, RecordingIsArmed
<1>3. IInv => FactMatchesArmed
  BY DEF IInv, Control, FactFollows, Updating, Rearmed, Finishing, FactMatchesArmed
<1>4. IInv => StateAgrees
  BY <1>1, <1>2, <1>3 DEF StateAgrees
<1> QED
  BY <1>4, Invariance, PTL

\* Every file opens on a keyframe.
THEOREM FilesOpenOnKeyframe == Spec => []OpensOnKeyframe
<1>1. IInv => OpensOnKeyframe
  BY DEF IInv, Control, FirstIsKey, OpensOnKeyframe
<1> QED
  BY <1>1, Invariance, PTL

-----------------------------------------------------------------------------
(* What the queue and the files hold *)

\* What was emitted in session s, against what is queued from a position on: a
\* ROTATE stands before anything of another session, and before what the encoder
\* will emit if its session cur is another.
Parted(q, cur, s, from) ==
  /\ s = cur \/ \E k \in from..Len(q) : q[k].command = "ROTATE"
  /\ \A j \in from..Len(q) :
       q[j] \in Au => q[j].session = s \/ \E k \in from..j-1 : q[k].command = "ROTATE"

\* The worker has an rpc it has not finished with, or not even looked at.
InHand == {"status", "dispatch", "au", "open", "write"}
Deciding == {"status", "dispatch"}

\* Where a file may be open, and where nothing is in hand.
FileHeld ==
  /\ file # <<>> => is_open
  /\ wpc = "write" => is_open /\ ~pending_open
  /\ wpc = "latch" => ~is_open
  /\ wpc = "wait" => rpc = NoRpc
  /\ is_open \/ wpc \in {"open", "write"} => recording_armed \/ disabled \/ wpc \in Closing

QueueParted ==
  /\ \A i \in 1..Len(queue) : queue[i] \in Au => Parted(queue, session, queue[i].session, i + 1)
  /\ rpc \in Au => Parted(queue, session, rpc.session, 1)

\* The next access unit the worker takes may still join the file.
StaysOpen ==
  /\ file # <<>> /\ ~pending_open /\ wpc \notin Closing /\ fin = "loop"
  /\ ~(wpc \in Deciding /\ rpc.command = "ROTATE")

FileParted ==
  StaysOpen =>
    /\ Parted(queue, session, file[1].session, 1)
    /\ wpc \in InHand /\ rpc \in Au => rpc.session = file[1].session

\* The access units queued from a position on come after number n, and its
\* successor, if it has one, is among them: n was emitted after low, and top is the
\* last one emitted.
Below(q, n, from) == \A j \in from..Len(q) : q[j] \in Au => n < q[j].n
Succeeded(q, low, top, n, from) ==
  low < n /\ n < top => \E j \in from..Len(q) : q[j] \in Au /\ q[j].n = n + 1

LastN == file[Len(file)].n

Ordered ==
  /\ \A i \in 1..Len(queue) : queue[i] \in Au => queue[i].n <= aus /\ Below(queue, queue[i].n, i + 1)
  /\ rpc \in Au => rpc.n <= aus /\ Below(queue, rpc.n, 1)
  /\ \A i \in 1..Len(file) : file[i].n <= aus
  /\ file # <<>> => Below(queue, LastN, 1)

\* Between start()'s exchange and its arming, all that is queued is old.
OldAtStart ==
  wpc = "start_arm" =>
    /\ \A i \in 1..Len(queue) : queue[i] \in Au => queue[i].n <= armed_at
    /\ rpc \in Au => rpc.n <= armed_at
    /\ \A i \in 1..Len(file) : file[i].n <= armed_at

\* Nothing was dropped that the worker would not notice before its next write.
NoneMissing == recording_armed /\ ~queue_overflow /\ ~disabled /\ wpc \notin Closing

QueueChained ==
  NoneMissing =>
    /\ \A i \in 1..Len(queue) :
         queue[i] \in Au => Succeeded(queue, armed_at, aus, queue[i].n, i + 1)
    /\ rpc \in Au => Succeeded(queue, armed_at, aus, rpc.n, 1)
    /\ file # <<>> /\ ~pending_open /\ ~(wpc \in InHand /\ rpc \in Au)
       => Succeeded(queue, armed_at, aus, LastN, 1)

FileChained ==
  file # <<>> /\ rpc \in Au /\ LastN > armed_at /\ ~pending_open =>
    /\ wpc \in Deciding /\ NoneMissing => rpc.n = LastN + 1
    /\ wpc = "au" /\ recording_armed /\ ~queue_overflow => rpc.n = LastN + 1
    /\ wpc = "write" => rpc.n = LastN + 1

Parting == QueueParted /\ FileParted /\ SegmentSingleSession
Chain == Ordered /\ OldAtStart /\ QueueChained /\ FileChained /\ SegmentContiguous

FileInv == IInv /\ FileHeld /\ Parting /\ Chain /\ QueueBytesExact

\* The first and the last access unit of a file.
LEMMA FirstMuxed ==
  ASSUME NEW f \in Seq(MuxedAu), f # <<>>
  PROVE  Len(f) \in Nat \ {0} /\ f[1] \in MuxedAu /\ f[Len(f)] \in MuxedAu
<1>1. Len(f) \in Nat \ {0}
  OBVIOUS
<1>2. 1 \in 1..Len(f) /\ Len(f) \in 1..Len(f)
  BY <1>1
<1> QED
  BY <1>1, <1>2

\* What joins the queue behind, of the encoder's session, leaves parted what was.
LEMMA PartedAppend ==
  ASSUME NEW q \in Seq(Rpc), NEW cur \in Nat, NEW s \in Nat, NEW f \in Nat \ {0},
         NEW r \in Rpc, r \in Au => r.session = cur, f <= Len(q) + 1,
         Parted(q, cur, s, f)
  PROVE  Parted(Append(q, r), cur, s, f)
<1> DEFINE p == Append(q, r)
<1>1. p \in Seq(Rpc) /\ Len(p) = Len(q) + 1 /\ p[Len(q) + 1] = r
      /\ \A k \in 1..Len(q) : p[k] = q[k]
  OBVIOUS
<1>2. \A k \in f..Len(q) : p[k] = q[k] /\ k \in f..Len(p)
  BY <1>1
<1> HIDE DEF p
<1>3. s = cur \/ \E k \in f..Len(p) : p[k].command = "ROTATE"
  BY <1>2 DEF Parted
<1>4. ASSUME NEW j \in f..Len(p), p[j] \in Au
      PROVE  p[j].session = s \/ \E k \in f..j-1 : p[k].command = "ROTATE"
  <2>1. CASE j = Len(q) + 1
    BY <1>1, <1>2, <1>4, <2>1 DEF Parted
  <2>2. CASE j <= Len(q)
    <3>1. j \in f..Len(q) /\ p[j] = q[j] /\ \A k \in f..j-1 : k \in f..Len(q) /\ p[k] = q[k]
      BY <1>2, <2>2
    <3> QED
      BY <1>4, <3>1 DEF Parted
  <2> QED
    BY <2>1, <2>2, <1>1
<1> QED
  BY <1>3, <1>4 DEF Parted, p

\* A reset: the ROTATE it queues parts all that came before from the new session.
LEMMA PartedReset ==
  ASSUME NEW q \in Seq(Rpc), NEW cur \in Nat, NEW new \in Nat, NEW s \in Nat, NEW f \in Nat \ {0},
         f <= Len(q) + 1, Parted(q, cur, s, f)
  PROVE  Parted(Append(q, [command |-> "ROTATE"]), new, s, f)
<1> DEFINE r == [command |-> "ROTATE"]
           p == Append(q, r)
<1>0. r \in Rpc /\ r \notin Au /\ r.command = "ROTATE"
  <2>1. r \in Rpc
    BY CommandTyped DEF Command
  <2>2. r \notin Au
    BY DEF Au
  <2> QED
    BY <2>1, <2>2
<1> HIDE DEF r
<1>1. p \in Seq(Rpc) /\ Len(p) = Len(q) + 1 /\ p[Len(q) + 1] = r
  BY <1>0
<1>2. Parted(p, cur, s, f)
  BY <1>0, PartedAppend
<1>3. Len(q) + 1 \in f..Len(p) /\ p[Len(q) + 1].command = "ROTATE"
  BY <1>0, <1>1
<1> HIDE DEF p
<1> QED
  BY <1>2, <1>3 DEF Parted, p, r

\* The worker takes the head: the rest of the queue is parted as before.
LEMMA PartedTail ==
  ASSUME NEW q \in Seq(Rpc), q # <<>>, NEW cur \in Nat, NEW s \in Nat, NEW f \in Nat \ {0},
         \/ Parted(q, cur, s, f + 1)
         \/ f = 1 /\ Parted(q, cur, s, 1) /\ Head(q).command # "ROTATE"
  PROVE  Parted(Tail(q), cur, s, f)
<1> DEFINE p == Tail(q)
<1>1. p \in Seq(Rpc) /\ Len(p) = Len(q) - 1 /\ Len(q) \in Nat
      /\ \A k \in 1..Len(p) : p[k] = q[k + 1]
  OBVIOUS
<1>0. Head(q) = q[1]
  OBVIOUS
<1> HIDE DEF p
<1>2. \A k \in f + 1..Len(q) : k - 1 \in f..Len(p) /\ p[k - 1] = q[k]
  BY <1>1
<1>3. \A j \in f..Len(p) : j + 1 \in f + 1..Len(q) /\ q[j + 1] = p[j]
  BY <1>1
<1>4. Parted(q, cur, s, f + 1)
  <2> SUFFICES ASSUME f = 1, Parted(q, cur, s, 1), q[1].command # "ROTATE"
               PROVE  Parted(q, cur, s, 2)
    BY <1>0
  <2>1. \A j \in 1..Len(q) : \A k \in 1..j-1 : q[k].command = "ROTATE" => k \in 2..j-1
    BY <1>1
  <2>2. \A k \in 1..Len(q) : q[k].command = "ROTATE" => k \in 2..Len(q)
    BY <1>1
  <2>3. \A k \in 2..Len(q) : k \in 1..Len(q)
    BY <1>1
  <2> QED
    BY <2>1, <2>2, <2>3 DEF Parted
<1>5. s = cur \/ \E k \in f..Len(p) : p[k].command = "ROTATE"
  BY <1>2, <1>4 DEF Parted
<1>6. ASSUME NEW j \in f..Len(p), p[j] \in Au
      PROVE  p[j].session = s \/ \E k \in f..j-1 : p[k].command = "ROTATE"
  <2>1. q[j + 1] \in Au /\ j + 1 \in f + 1..Len(q)
    BY <1>3, <1>6
  <2>2. \A k \in f + 1..j : k - 1 \in f..j-1 /\ p[k - 1] = q[k]
    BY <1>1, <1>2
  <2>3. q[j + 1].session = s \/ \E k \in f + 1..j : q[k].command = "ROTATE"
    BY <1>4, <2>1, (j + 1) - 1 = j DEF Parted
  <2> QED
    BY <1>3, <2>2, <2>3
<1> QED
  BY <1>5, <1>6 DEF Parted, p

\* on_tick() wipes the access units and keeps the ROTATEs.
LEMMA PartedWipe ==
  ASSUME NEW q \in Seq(Rpc), NEW cur \in Nat, NEW s \in Nat, Parted(q, cur, s, 1)
  PROVE  Parted(Commands(q), cur, s, 1) /\ \A i \in 1..Len(Commands(q)) : Commands(q)[i] \notin Au
<1> DEFINE I == {i \in 1..Len(q) : IsCommand(q[i])}
<1>1. I \in SUBSET (1..Len(q))
  OBVIOUS
<1>2. /\ \A j \in 1..Len(Keep(q, I)) : InOrder(I)[j] \in I /\ Keep(q, I)[j] = q[InOrder(I)[j]]
      /\ \A i \in I : \E j \in 1..Len(Keep(q, I)) : InOrder(I)[j] = i /\ Keep(q, I)[j] = q[i]
  BY <1>1, KeepCorrect
<1>3. \A j \in 1..Len(Keep(q, I)) : Keep(q, I)[j] \notin Au
  BY <1>2 DEF IsCommand, Au
<1>4. \A k \in 1..Len(q) : q[k].command = "ROTATE" => k \in I
  BY DEF IsCommand
<1>5. ASSUME s # cur
      PROVE  \E k \in 1..Len(Keep(q, I)) : Keep(q, I)[k].command = "ROTATE"
  <2>1. PICK i \in 1..Len(q) : q[i].command = "ROTATE"
    BY <1>5 DEF Parted
  <2>2. i \in I
    BY <1>4, <2>1
  <2> HIDE DEF I
  <2>3. PICK j \in 1..Len(Keep(q, I)) : Keep(q, I)[j] = q[i]
    BY <1>2, <2>2
  <2> QED
    BY <2>1, <2>3
<1> QED
  BY <1>3, <1>5 DEF Parted, Commands
\* Every step keeps the file held as FileHeld says.
LEMMA FileHeldStep ==
  ASSUME TypeOK, Control, FileHeld, [Next]_vars
  PROVE  FileHeld'
<1> USE DEF shared, queueVars, call, disk, worker, encoder, callers, bounds, others,
  FileHeld, disabled, Closing, Disarmed, FlagsOK, TypeOK
<1>0. /\ wpc \in {"open", "write"} => fin = "loop"
      /\ wpc = "open" => file = <<>> /\ ~is_open
      /\ wpc = "latch" => fatal
      /\ fatal => ret \in {"dispatch", "finish"}
      /\ epc = "tick_disarm" => disabled
      /\ ret \in {"dispatch", "finish", "end", "clear"}
      /\ rpc \in Rpc \cup {NoRpc}
  BY DEF Control, ReturnsOut, Finishing, Leaving, FirstIsKey, LatchIsFatal, Failing, WatchdogLatched,
    DataOK
<1>1. CASE LoopPop \/ LoopTimeout \/ StatusOk \/ StatusLost \/ StatusLow
  BY <1>1 DEF LoopPop, LoopTimeout, StatusOk, StatusLost, StatusLow, Step, AfterStatus,
    CallFatalFail, CallStop, file_active
<1>2. CASE DispatchDisabled \/ DispatchAu \/ DispatchStart \/ DispatchStop
           \/ DispatchDisable \/ DispatchRotate \/ DispatchFail \/ DispatchIgnored
           \/ DispatchShutdown
  BY <1>2 DEF DispatchDisabled, DispatchAu, DispatchStart, DispatchStop, DispatchDisable,
    DispatchRotate, DispatchFail, DispatchIgnored, DispatchShutdown, Step, CallFatalFail,
    CallStop, request_rotate
<1>3. CASE StartRefused \/ StartRecording \/ StartArm \/ StartFact \/ StartAny \/ StartGate
  BY <1>3 DEF StartRefused, StartRecording, StartArm, StartFact, StartAny, StartGate,
    WorkerAny
<1>4. CASE AuDiscard \/ AuOverflow \/ AuRoll \/ AuWrite \/ OpenOk \/ OpenFails
  BY <1>0, <1>4 DEF AuDiscard, AuOverflow, AuRoll, AuWrite, OpenOk, OpenFails, Step,
    CallFatalFail, CallStop
<1>5. CASE Write
  <2>1. wpc = "write" /\ wpc' \in {"stop", "finish"} /\ UNCHANGED <<shared, is_open>>
    BY <1>5 DEF Write, CallFatalFail, CallStop
  <2> QED
    BY <2>1
<1>6. CASE StopDisarm \/ StopAny \/ StopGate \/ StopCas \/ Finalize \/ Latch
  BY <1>0, <1>6 DEF StopDisarm, StopAny, StopGate, StopCas, Finalize, Latch, WorkerAny,
    CasRecordingToIdle
<1>7. CASE FinishIdle \/ FinishStalled \/ FinishNotStalled \/ FinishLoop \/ End \/ Clear
  BY <1>7 DEF FinishIdle, FinishStalled, FinishNotStalled, FinishLoop, End, Clear, Step,
    CallStop, AfterBreak, AfterWork, EndStops
<1>8. CASE EncoderNext
  BY <1>0, <1>8 DEF EncoderNext, TickNext, RunTask, EnqueueRpc, EncoderAny, EncoderGate,
    EmitAu, FrameTask, EStep, FrameDone, EncoderReset, EncoderFailed, TickStuck,
    TickDisabled, TickStall, TickLatch, TickDisarm, TickDrop, EncoderQuit, EncoderDone
<1>9. CASE CallerNext
  BY <1>9 DEF CallerNext, start_recording, start_recording_post, Post,
    toggle_recording, toggle_recording_post, DisplayPost,
    stop_recording, CasRecordingToIdle, onlyState, stop_recording_post, MainPost,
    disable, disable_post, DisplayExit, shutdown, shutdown_post, encoder_shutdown
<1>10. CASE UNCHANGED vars
  BY <1>10 DEF vars
<1> QED
  BY <1>1, <1>2, <1>3, <1>4, <1>5, <1>6, <1>7, <1>8, <1>9, <1>10 DEF Next, WorkerNext, Terminated
\* A step that leaves the queue and the encoder's session alone, and writes nothing.
Quiet ==
  /\ UNCHANGED <<queue, queue_bytes, session, aus>>
  /\ rpc' \in {rpc, NoRpc} /\ file' \in {file, <<>>}
  /\ StaysOpen' => StaysOpen
  /\ wpc' \in InHand /\ rpc' # NoRpc /\ file' # <<>> => wpc \in InHand

\* Which steps are not quiet.
LEMMA QuietStep ==
  ASSUME TypeOK, Control, FileHeld, [Next]_vars
  PROVE  \/ LoopPop \/ Write \/ Clear
         \/ RunTask \/ EncoderReset \/ EncoderFailed \/ EmitAu \/ TickDrop
         \/ Quiet
<1> USE DEF shared, queueVars, call, disk, worker, encoder, callers, bounds, others,
  disabled, Closing, Disarmed, InHand, Deciding, Quiet, StaysOpen
<1>0. /\ wpc = "open" => file = <<>>
      /\ ret \in {"dispatch", "finish", "end", "clear"}
      /\ file # <<>> => is_open
      /\ is_open => recording_armed \/ disabled \/ wpc \in Closing
      /\ wpc = "latch" => ~is_open
      /\ wpc = "wait" => rpc = NoRpc
      /\ NoRpc.command # "ROTATE"
  BY DEF Control, FirstIsKey, FileHeld, TypeOK, DataOK, NoRpc
<1>1. CASE LoopTimeout \/ StatusOk \/ StatusLost \/ StatusLow
  BY <1>0, <1>1 DEF LoopTimeout, StatusOk, StatusLost, StatusLow, Step, AfterStatus,
    CallFatalFail, CallStop, file_active
<1>2. CASE DispatchDisabled \/ DispatchAu \/ DispatchStart \/ DispatchStop
           \/ DispatchDisable \/ DispatchRotate \/ DispatchFail \/ DispatchIgnored
           \/ DispatchShutdown
  <2>1. CASE DispatchDisabled
    BY <1>0, <2>1 DEF DispatchDisabled
  <2>2. CASE DispatchAu \/ DispatchStart \/ DispatchShutdown
    BY <2>2 DEF DispatchAu, DispatchStart, DispatchShutdown, Step, Dispatched
  <2>3. CASE DispatchStop \/ DispatchFail
    BY <2>3 DEF DispatchStop, DispatchFail, CallFatalFail, CallStop, Dispatched
  <2>4. CASE DispatchDisable \/ DispatchRotate
    BY <2>4 DEF DispatchDisable, DispatchRotate, request_rotate, Dispatched
  <2>5. CASE DispatchIgnored
    BY <1>0, <2>5 DEF DispatchIgnored, Step, Dispatched, HandledWhenDisabled
  <2> QED
    BY <1>2, <2>1, <2>2, <2>3, <2>4, <2>5
<1>3. CASE StartRefused \/ StartRecording \/ StartArm \/ StartFact \/ StartAny \/ StartGate
  BY <1>3 DEF StartRefused, StartRecording, StartArm, StartFact, StartAny, StartGate,
    WorkerAny
<1>4. CASE AuDiscard \/ AuOverflow \/ AuRoll \/ AuWrite \/ OpenOk \/ OpenFails
  BY <1>0, <1>4 DEF AuDiscard, AuOverflow, AuRoll, AuWrite, OpenOk, OpenFails, Step,
    CallFatalFail, CallStop
<1>6. CASE StopDisarm \/ StopAny \/ StopGate \/ StopCas \/ Finalize \/ Latch
  BY <1>0, <1>6 DEF StopDisarm, StopAny, StopGate, StopCas, Finalize, Latch, WorkerAny,
    CasRecordingToIdle
<1>7. CASE FinishIdle \/ FinishStalled \/ FinishNotStalled \/ FinishLoop \/ End
  <2>1. CASE FinishIdle \/ FinishStalled \/ FinishNotStalled
    BY <2>1 DEF FinishIdle, FinishStalled, FinishNotStalled, Step, CallStop, AfterBreak
  <2>2. CASE FinishLoop
    BY <1>0, <2>2 DEF FinishLoop, AfterWork
  <2>3. CASE End
    BY <2>3 DEF End, EndStops
  <2> QED
    BY <1>7, <2>1, <2>2, <2>3
<1>8. CASE EncoderAny \/ EncoderGate \/ FrameTask \/ FrameDone \/ TickStuck \/ TickDisabled
           \/ TickStall \/ TickLatch \/ TickDisarm \/ EncoderQuit \/ EncoderDone
  BY <1>8 DEF EncoderAny, EncoderGate, FrameTask, FrameDone, TickStuck, TickDisabled,
    TickStall, TickLatch, TickDisarm, EncoderQuit, EncoderDone, EStep
<1>9. CASE CallerNext
  BY <1>9 DEF CallerNext, start_recording, start_recording_post, Post,
    toggle_recording, toggle_recording_post, DisplayPost,
    stop_recording, CasRecordingToIdle, onlyState, stop_recording_post, MainPost,
    disable, disable_post, DisplayExit, shutdown, shutdown_post, encoder_shutdown
<1>10. CASE UNCHANGED vars
  BY <1>10 DEF vars
<1> QED
  BY <1>1, <1>2, <1>3, <1>4, <1>6, <1>7, <1>8, <1>9, <1>10
    DEF Next, WorkerNext, EncoderNext, TickNext, Terminated

\* What joins the queue behind keeps it parted, in hand, in the file and in the queue.
LEMMA PartedBehind ==
  ASSUME TypeOK, QueueParted, FileParted, NEW r \in Rpc,
         queue' = Append(queue, r),
         \/ session' = session /\ (r \in Au => r.session = session)
         \/ session' \in Nat /\ r = [command |-> "ROTATE"],
         UNCHANGED <<wpc, rpc, fin, file, pending_open>>
  PROVE  QueueParted' /\ FileParted'
<1>1. queue \in Seq(Rpc) /\ session \in Nat /\ rpc \in Rpc \cup {NoRpc} /\ file \in Seq(MuxedAu)
  BY DEF TypeOK, DataOK
<1>2. ASSUME NEW s \in Nat, NEW f \in Nat \ {0}, f <= Len(queue) + 1,
             Parted(queue, session, s, f)
      PROVE  Parted(queue', session', s, f)
  BY <1>1, <1>2, PartedAppend, PartedReset
<1>3. /\ Len(queue') = Len(queue) + 1 /\ queue'[Len(queue) + 1] = r
      /\ Len(queue) \in Nat /\ \A i \in 1..Len(queue) : queue'[i] = queue[i]
  BY <1>1
<1>4. ASSUME NEW i \in 1..Len(queue'), queue'[i] \in Au
      PROVE  Parted(queue', session', queue'[i].session, i + 1)
  <2>1. CASE i = Len(queue) + 1
    <3>1. queue'[i].session = session'
      BY <1>3, <1>4, <2>1 DEF Au
    <3> QED
      BY <1>3, <2>1, <3>1 DEF Parted
  <2>2. CASE i \in 1..Len(queue)
    <3>1. queue[i] \in Au /\ queue[i].session \in Nat /\ queue'[i] = queue[i]
      BY <1>3, <1>4, <2>2 DEF Au
    <3>2. Parted(queue, session, queue[i].session, i + 1)
      BY <2>2, <3>1 DEF QueueParted
    <3> QED
      BY <1>2, <1>3, <2>2, <3>1, <3>2
  <2> QED
    BY <1>3, <2>1, <2>2
<1>5. rpc \in Au => Parted(queue', session', rpc.session, 1)
  BY <1>2, <1>3 DEF QueueParted, Au
<1>6. QueueParted'
  BY <1>4, <1>5 DEF QueueParted
<1>7. StaysOpen' <=> StaysOpen
  BY DEF StaysOpen
<1>8. file # <<>> => file[1].session \in Nat
  BY <1>1, FirstMuxed DEF MuxedAu
<1>9. StaysOpen => Parted(queue', session', file[1].session, 1)
  <2> SUFFICES ASSUME StaysOpen PROVE Parted(queue', session', file[1].session, 1)
    OBVIOUS
  <2>1. Parted(queue, session, file[1].session, 1)
    BY DEF FileParted
  <2>2. file[1].session \in Nat
    BY <1>8 DEF StaysOpen
  <2> QED
    BY <1>2, <1>3, <2>1, <2>2
<1>10. FileParted'
  <2>1. StaysOpen => (wpc \in InHand /\ rpc \in Au => rpc.session = file[1].session)
    BY DEF FileParted
  <2> QED
    BY <1>7, <1>9, <2>1 DEF FileParted
<1> QED
  BY <1>6, <1>10

\* Every step keeps the sessions parted, and the file's access units of one session.
LEMMA SegmentStep ==
  ASSUME TypeOK, Control, FileHeld, QueueParted, FileParted, SegmentSingleSession, [Next]_vars
  PROVE  QueueParted' /\ FileParted' /\ SegmentSingleSession'
<1>1. /\ queue \in Seq(Rpc) /\ session \in Nat /\ rpc \in Rpc \cup {NoRpc}
      /\ file \in Seq(MuxedAu) /\ Len(queue) \in Nat /\ Len(file) \in Nat
  BY DEF TypeOK, DataOK
<1>2. NoRpc \notin Au /\ NoRpc.command # "ROTATE"
  BY DEF NoRpc, Au
<1>3. file # <<>> => file[1].session \in Nat
  BY <1>1, FirstMuxed DEF MuxedAu
<1>4. CASE Quiet
  <2>1. QueueParted'
    BY <1>2, <1>4 DEF Quiet, QueueParted
  <2>2. StaysOpen' => StaysOpen /\ file' = file
    BY <1>4 DEF Quiet, StaysOpen
  <2>3. StaysOpen' => (wpc' \in InHand /\ rpc' \in Au => wpc \in InHand /\ rpc' = rpc)
    BY <1>2, <1>4 DEF Quiet, StaysOpen
  <2>4. FileParted'
    BY <1>4, <2>2, <2>3 DEF Quiet, FileParted
  <2>5. SegmentSingleSession'
    BY <1>4 DEF Quiet, SegmentSingleSession
  <2> QED
    BY <2>1, <2>4, <2>5
<1>5. CASE LoopPop
  <2>1. /\ wpc = "wait" /\ queue # <<>> /\ wpc' = "status" /\ rpc' = Head(queue)
        /\ queue' = Tail(queue)
        /\ UNCHANGED <<session, file, pending_open, fin>>
    BY <1>5 DEF LoopPop, disk, others, encoder
  <2>2. /\ Head(queue) \in Rpc /\ Head(queue) = queue[1] /\ Len(queue) >= 1
        /\ Len(queue') = Len(queue) - 1
        /\ \A i \in 1..Len(queue') : queue'[i] = queue[i + 1]
    BY <1>1, <2>1
  <2>3. ASSUME NEW i \in 1..Len(queue'), queue'[i] \in Au
        PROVE  Parted(queue', session', queue'[i].session, i + 1)
    <3>1. queue[i + 1] \in Au /\ i + 1 \in 1..Len(queue) /\ queue[i + 1].session \in Nat
      BY <1>1, <2>2, <2>3 DEF Au
    <3>2. Parted(queue, session, queue[i + 1].session, (i + 1) + 1)
      BY <3>1 DEF QueueParted
    <3> QED
      BY <1>1, <2>1, <2>2, <3>1, <3>2, PartedTail
  <2>4. rpc' \in Au => Parted(queue', session', rpc'.session, 1)
    <3> SUFFICES ASSUME queue[1] \in Au PROVE Parted(Tail(queue), session, queue[1].session, 1)
      BY <2>1, <2>2
    <3>1. Parted(queue, session, queue[1].session, 1 + 1) /\ queue[1].session \in Nat
      BY <1>1, <2>2 DEF QueueParted, Au
    <3> QED
      BY <1>1, <2>1, <3>1, PartedTail
  <2>5. QueueParted'
    BY <2>3, <2>4 DEF QueueParted
  <2>6. FileParted'
    <3> SUFFICES ASSUME StaysOpen' PROVE FileParted'
      BY DEF FileParted
    <3>1. StaysOpen /\ Head(queue).command # "ROTATE"
      BY <2>1 DEF StaysOpen, Closing, Disarmed, Deciding
    <3>2. Parted(queue, session, file[1].session, 1) /\ file[1].session \in Nat
      BY <1>3, <3>1 DEF FileParted, StaysOpen
    <3>3. Parted(queue', session', file'[1].session, 1)
      BY <1>1, <2>1, <3>1, <3>2, PartedTail
    <3>4. rpc' \in Au => rpc'.session = file[1].session
      BY <2>1, <2>2, <3>2 DEF Parted
    <3> QED
      BY <2>1, <3>3, <3>4 DEF FileParted
  <2> QED
    BY <2>1, <2>5, <2>6 DEF SegmentSingleSession
<1>6. CASE Write
  <2>1. PICK ok : file' = Append(file, [n |-> rpc.n, session |-> rpc.session,
                                        key |-> rpc.key, ok |-> ok])
    BY <1>6 DEF Write
  <2>2. /\ wpc = "write" /\ wpc' \in {"stop", "finish"}
        /\ UNCHANGED <<queue, session, rpc, fin>> /\ pending_open' \in {pending_open, TRUE}
    BY <1>6 DEF Write, CallFatalFail, CallStop, request_rotate, shared, others, encoder, call
  <2>3. rpc \in Au /\ fin = "loop" /\ ~pending_open
    BY <2>2 DEF Control, AuInHand, ReturnsOut, Closing, Disarmed, FileHeld, TypeOK, DataOK
  <2>4. file # <<>> => rpc.session = file[1].session
    BY <2>2, <2>3 DEF FileParted, StaysOpen, InHand, Deciding, Closing, Disarmed
  <2>5. /\ Len(file') = Len(file) + 1 /\ file'[Len(file) + 1].session = rpc.session
        /\ \A i \in 1..Len(file) : file'[i] = file[i]
    BY <1>1, <2>1
  <2>6. file'[1].session = rpc.session
    BY <1>1, <2>4, <2>5
  <2>7. SegmentSingleSession'
    BY <1>1, <2>4, <2>5, <2>6 DEF SegmentSingleSession
  <2>8. QueueParted'
    BY <2>2 DEF QueueParted
  <2>9. FileParted'
    BY <2>2, <2>3, <2>6 DEF QueueParted, FileParted, InHand
  <2> QED
    BY <2>7, <2>8, <2>9
<1>7. CASE Clear
  <2>1. queue' = <<>> /\ rpc' = NoRpc /\ fin = "clear" /\ UNCHANGED <<session, file, fin>>
    BY <1>7 DEF Clear, disk, others, encoder, Control, ReturnsOut
  <2> QED
    BY <1>2, <2>1 DEF QueueParted, FileParted, StaysOpen, SegmentSingleSession
<1>8. CASE RunTask \/ EncoderFailed \/ EncoderReset
  <2>1. UNCHANGED <<wpc, rpc, fin, file, pending_open>>
    BY <1>8 DEF RunTask, EncoderFailed, EncoderReset, EnqueueRpc, worker, call, disk
  <2>2. ASSUME NEW c \in Command, queue' = Append(queue, [command |-> c]),
               session' = session \/ (session' = session + 1 /\ c = "ROTATE")
        PROVE  QueueParted' /\ FileParted'
    <3>1. [command |-> c] \in Rpc /\ [command |-> c] \notin Au
      BY CommandTyped DEF Command, Au
    <3> QED
      BY <1>1, <2>1, <2>2, <3>1, PartedBehind
  <2>3. CASE RunTask
    <3>1. tasks \in Seq(Command \cup {"QUIT"}) /\ tasks # <<>> /\ Head(tasks) # "QUIT"
      BY <2>3 DEF RunTask, TypeOK, DataOK
    <3>2. Head(tasks) \in Command
      BY <3>1, TaskTyped
    <3>3. queue' = Append(queue, [command |-> Head(tasks)]) /\ session' = session
      BY <2>3 DEF RunTask, EnqueueRpc
    <3> QED
      BY <2>1, <2>2, <3>2, <3>3 DEF SegmentSingleSession
  <2>4. CASE EncoderFailed
    <3>1. queue' = Append(queue, [command |-> "FAIL"]) /\ session' = session
      BY <2>4 DEF EncoderFailed, EnqueueRpc
    <3> QED
      BY <2>1, <2>2, <3>1 DEF SegmentSingleSession, Command
  <2>5. CASE EncoderReset
    <3>1. queue' = Append(queue, [command |-> "ROTATE"]) /\ session' = session + 1
      BY <2>5 DEF EncoderReset, EnqueueRpc
    <3> QED
      BY <2>1, <2>2, <3>1 DEF SegmentSingleSession, Command
  <2> QED
    BY <1>8, <2>3, <2>4, <2>5
<1>9. CASE EmitAu
  <2>1. UNCHANGED <<session, wpc, rpc, fin, file, pending_open>>
    BY <1>9 DEF EmitAu, worker, call, disk
  <2>2. CASE UNCHANGED queue
    BY <2>1, <2>2 DEF QueueParted, FileParted, StaysOpen, SegmentSingleSession
  <2>3. CASE ~UNCHANGED queue
    <3>1. PICK len \in AuLens, key \in BOOLEAN :
            queue' = Append(queue, [command |-> "AU", n |-> aus', len |-> len,
                                    session |-> session, key |-> key])
      BY <1>9, <2>3 DEF EmitAu, on_access_unit, queueVars
    <3> DEFINE r == [command |-> "AU", n |-> aus', len |-> len,
                     session |-> session, key |-> key]
    <3>2. r \in Rpc /\ r.session = session
      <4>1. len \in Nat /\ aus' \in Nat
        BY <1>9, DvrAssumption DEF EmitAu, TypeOK, DataOK
      <4> QED
        BY <1>1, <4>1 DEF Rpc, Au
    <3> HIDE DEF r
    <3>3. queue' = Append(queue, r)
      BY <3>1 DEF r
    <3> QED
      BY <2>1, <3>2, <3>3, PartedBehind DEF SegmentSingleSession
  <2> QED
    BY <2>2, <2>3
<1>10. CASE TickDrop
  <2>1. queue' = Commands(queue) /\ UNCHANGED <<session, wpc, rpc, fin, file, pending_open>>
    BY <1>10 DEF TickDrop, WipeQueue, worker, call, disk
  <2>2. \A i \in 1..Len(queue') : queue'[i] \notin Au
    BY <1>1, <2>1, KeptAreCommands DEF IsCommand, Au
  <2>3. rpc' \in Au => Parted(queue', session', rpc'.session, 1)
    BY <1>1, <2>1, PartedWipe DEF QueueParted, Au
  <2>4. StaysOpen' => Parted(queue', session', file'[1].session, 1)
    BY <1>1, <1>3, <2>1, PartedWipe DEF FileParted, StaysOpen
  <2>5. StaysOpen' <=> StaysOpen
    BY <2>1 DEF StaysOpen
  <2>6. FileParted'
    BY <2>1, <2>4, <2>5 DEF FileParted
  <2> QED
    BY <2>1, <2>2, <2>3, <2>6 DEF QueueParted, SegmentSingleSession
<1> QED
  BY <1>4, <1>5, <1>6, <1>7, <1>8, <1>9, <1>10, QuietStep

\* Every access unit of a file has a number.
LEMMA MuxedNumbers ==
  ASSUME NEW f \in Seq(MuxedAu)
  PROVE  \A i \in 1..Len(f) : f[i].n \in Nat
<1> SUFFICES ASSUME NEW i \in 1..Len(f) PROVE f[i].n \in Nat
  OBVIOUS
<1>1. f[i] \in MuxedAu
  OBVIOUS
<1> QED
  BY <1>1 DEF MuxedAu

\* What joins the queue behind keeps its order and closes the chain up to it.
LEMMA ChainAppend ==
  ASSUME NEW q \in Seq(Rpc), NEW r \in Rpc, NEW n \in Nat, NEW f \in Nat \ {0}, f <= Len(q) + 1,
         NEW low \in Nat, NEW top \in Nat, NEW next \in Nat, n <= top,
         next = top \/ (next = top + 1 /\ r \in Au /\ r.n = next)
  PROVE  /\ Below(q, n, f) /\ (r \in Au => n < r.n) => Below(Append(q, r), n, f)
         /\ Succeeded(q, low, top, n, f) => Succeeded(Append(q, r), low, next, n, f)
<1> DEFINE p == Append(q, r)
<1>1. /\ p \in Seq(Rpc) /\ Len(p) = Len(q) + 1 /\ p[Len(q) + 1] = r /\ Len(q) \in Nat
      /\ \A k \in 1..Len(q) : p[k] = q[k]
  OBVIOUS
<1>2. \A k \in f..Len(q) : p[k] = q[k] /\ k \in f..Len(p)
  BY <1>1
<1>3. \A k \in f..Len(p) : k = Len(q) + 1 \/ k \in f..Len(q)
  BY <1>1
<1>4. Len(q) + 1 \in f..Len(p)
  BY <1>1
<1> HIDE DEF p
<1>5. Below(q, n, f) /\ (r \in Au => n < r.n) => Below(p, n, f)
  BY <1>1, <1>2, <1>3 DEF Below
<1>6. ASSUME Succeeded(q, low, top, n, f), low < n, n < next
      PROVE  \E j \in f..Len(p) : p[j] \in Au /\ p[j].n = n + 1
  <2>1. CASE n < top
    BY <1>2, <1>6, <2>1 DEF Succeeded
  <2>2. CASE n = top
    BY <1>1, <1>4, <1>6, <2>2
  <2> QED
    BY <2>1, <2>2
<1> QED
  BY <1>5, <1>6 DEF p, Succeeded

\* The worker takes the head of the queue.
LEMMA ChainTail ==
  ASSUME NEW q \in Seq(Rpc), q # <<>>, NEW n \in Nat, NEW f \in Nat \ {0},
         NEW low \in Nat, NEW top \in Nat
  PROVE  /\ Below(q, n, f + 1) => Below(Tail(q), n, f)
         /\ Below(q, n, 1) => Below(Tail(q), n, 1)
         /\ Succeeded(q, low, top, n, f + 1) => Succeeded(Tail(q), low, top, n, f)
         /\ Succeeded(q, low, top, n, 1) /\ Head(q) \notin Au
            => Succeeded(Tail(q), low, top, n, 1)
<1> DEFINE p == Tail(q)
<1>1. p \in Seq(Rpc) /\ Len(p) = Len(q) - 1 /\ Len(q) \in Nat /\ Head(q) = q[1]
      /\ \A k \in 1..Len(p) : p[k] = q[k + 1]
  OBVIOUS
<1> HIDE DEF p
<1>2. \A g \in Nat \ {0} : \A k \in g + 1..Len(q) : k - 1 \in g..Len(p) /\ p[k - 1] = q[k]
  BY <1>1
<1>3. \A g \in Nat \ {0} : \A j \in g..Len(p) :
        j + 1 \in g + 1..Len(q) /\ j + 1 \in 1..Len(q) /\ q[j + 1] = p[j]
  BY <1>1
<1>4. Below(q, n, f + 1) => Below(p, n, f)
  BY <1>3 DEF Below
<1>5. Below(q, n, 1) => Below(p, n, 1)
  BY <1>3 DEF Below
<1>6. Succeeded(q, low, top, n, f + 1) => Succeeded(p, low, top, n, f)
  BY <1>2 DEF Succeeded
<1>7. ASSUME Succeeded(q, low, top, n, 1), Head(q) \notin Au
      PROVE  Succeeded(p, low, top, n, 1)
  <2>1. \A k \in 1..Len(q) : q[k] \in Au => k - 1 \in 1..Len(p) /\ p[k - 1] = q[k]
    BY <1>1, <1>7
  <2> QED
    BY <1>7, <2>1 DEF Succeeded
<1> QED
  BY <1>4, <1>5, <1>6, <1>7 DEF p

\* A step that leaves the queue alone, starts and writes nothing.
Calm ==
  /\ UNCHANGED <<queue, aus, armed_at>>
  /\ rpc' \in {rpc, NoRpc} /\ file' \in {file, <<>>}
  /\ wpc' = "start_arm" => wpc = "start_arm"
  /\ NoneMissing' => NoneMissing
  /\ (NoneMissing' /\ file' # <<>> /\ ~pending_open')
     => ~pending_open /\ (wpc \in InHand /\ rpc \in Au => wpc' \in InHand /\ rpc' = rpc)
  /\ (file' # <<>> /\ rpc' # NoRpc /\ ~pending_open')
     => /\ wpc' \in Deciding /\ NoneMissing' => wpc \in Deciding /\ ~pending_open
        /\ wpc' = "au" /\ recording_armed' /\ ~queue_overflow' =>
             /\ ~pending_open
             /\ \/ wpc \in Deciding /\ NoneMissing
                \/ wpc = "au" /\ recording_armed /\ ~queue_overflow
        /\ wpc' = "write" =>
             /\ ~pending_open
             /\ wpc = "write" \/ (wpc = "au" /\ recording_armed /\ ~queue_overflow)

\* Which steps are not calm.
LEMMA CalmStep ==
  ASSUME TypeOK, Control, FileHeld, [Next]_vars
  PROVE  \/ LoopPop \/ Write \/ Clear \/ StartRecording \/ StartArm
         \/ RunTask \/ EncoderReset \/ EncoderFailed \/ EmitAu \/ TickDrop
         \/ Calm
<1> USE DEF shared, queueVars, call, disk, worker, encoder, callers, bounds, others,
  disabled, Closing, Disarmed, InHand, Deciding, Calm, NoneMissing
<1>0. /\ wpc = "open" => file = <<>>
      /\ ret \in {"dispatch", "finish", "end", "clear"}
      /\ file # <<>> => is_open
      /\ is_open => recording_armed \/ disabled \/ wpc \in Closing
      /\ wpc = "latch" => ~is_open
      /\ wpc = "wait" => rpc = NoRpc
      /\ recording_armed => wpc \notin Disarmed
      /\ NoRpc \notin Au
      /\ rpc \in Au => rpc.command = "AU"
  BY DEF Control, FirstIsKey, FileHeld, TypeOK, DataOK, NoRpc, Au, DisarmedHolds
<1>1. CASE LoopTimeout \/ StatusOk \/ StatusLost \/ StatusLow
  BY <1>0, <1>1 DEF LoopTimeout, StatusOk, StatusLost, StatusLow, Step, AfterStatus,
    CallFatalFail, CallStop, file_active
<1>2. CASE DispatchDisabled \/ DispatchAu \/ DispatchStart \/ DispatchStop
           \/ DispatchDisable \/ DispatchRotate \/ DispatchFail \/ DispatchIgnored
           \/ DispatchShutdown
  <2>1. CASE DispatchDisabled
    BY <1>0, <2>1 DEF DispatchDisabled
  <2>2. CASE DispatchAu \/ DispatchStart \/ DispatchShutdown
    BY <1>0, <2>2 DEF DispatchAu, DispatchStart, DispatchShutdown, Step, Dispatched,
      HandledWhenDisabled
  <2>3. CASE DispatchStop \/ DispatchFail
    BY <1>0, <2>3 DEF DispatchStop, DispatchFail, CallFatalFail, CallStop, Dispatched
  <2>4. CASE DispatchDisable \/ DispatchRotate
    BY <1>0, <2>4 DEF DispatchDisable, DispatchRotate, request_rotate, Dispatched
  <2>5. CASE DispatchIgnored
    BY <1>0, <2>5 DEF DispatchIgnored, Step, Dispatched, HandledWhenDisabled
  <2> QED
    BY <1>2, <2>1, <2>2, <2>3, <2>4, <2>5
<1>3. CASE StartRefused \/ StartFact \/ StartAny \/ StartGate
  BY <1>0, <1>3 DEF StartRefused, StartFact, StartAny, StartGate, WorkerAny
<1>4. CASE AuDiscard \/ AuOverflow \/ AuRoll \/ AuWrite \/ OpenOk \/ OpenFails
  <2>1. CASE AuDiscard
    BY <1>0, <2>1 DEF AuDiscard, Step
  <2>2. CASE AuOverflow
    BY <1>0, <2>2 DEF AuOverflow, CallFatalFail, CallStop
  <2>3. CASE AuRoll \/ AuWrite
    BY <1>0, <2>3 DEF AuRoll, AuWrite, Step
  <2>4. CASE OpenOk \/ OpenFails
    BY <1>0, <2>4 DEF OpenOk, OpenFails, CallFatalFail, CallStop
  <2> QED
    BY <1>4, <2>1, <2>2, <2>3, <2>4
<1>6. CASE StopDisarm \/ StopAny \/ StopGate \/ StopCas \/ Finalize \/ Latch
  BY <1>0, <1>6 DEF StopDisarm, StopAny, StopGate, StopCas, Finalize, Latch, WorkerAny,
    CasRecordingToIdle
<1>7. CASE FinishIdle \/ FinishStalled \/ FinishNotStalled \/ FinishLoop \/ End
  <2>1. CASE FinishIdle \/ FinishStalled \/ FinishNotStalled
    BY <2>1 DEF FinishIdle, FinishStalled, FinishNotStalled, Step, CallStop, AfterBreak
  <2>2. CASE FinishLoop
    BY <1>0, <2>2 DEF FinishLoop, AfterWork
  <2>3. CASE End
    BY <2>3 DEF End, EndStops
  <2> QED
    BY <1>7, <2>1, <2>2, <2>3
<1>8. CASE EncoderAny \/ EncoderGate \/ FrameTask \/ FrameDone \/ TickStuck \/ TickDisabled
           \/ TickStall \/ TickLatch \/ TickDisarm \/ EncoderQuit \/ EncoderDone
  BY <1>8 DEF EncoderAny, EncoderGate, FrameTask, FrameDone, TickStuck, TickDisabled,
    TickStall, TickLatch, TickDisarm, EncoderQuit, EncoderDone, EStep
<1>9. CASE CallerNext
  BY <1>9 DEF CallerNext, start_recording, start_recording_post, Post,
    toggle_recording, toggle_recording_post, DisplayPost,
    stop_recording, CasRecordingToIdle, onlyState, stop_recording_post, MainPost,
    disable, disable_post, DisplayExit, shutdown, shutdown_post, encoder_shutdown
<1>10. CASE UNCHANGED vars
  BY <1>10 DEF vars
<1> QED
  BY <1>1, <1>2, <1>3, <1>4, <1>6, <1>7, <1>8, <1>9, <1>10
    DEF Next, WorkerNext, EncoderNext, TickNext, Terminated

\* What joins the queue behind keeps the order and the chain.
LEMMA ChainBehind ==
  ASSUME TypeOK, Ordered, QueueChained, NEW r \in Rpc,
         queue' = Append(queue, r),
         \/ r \notin Au /\ aus' = aus
         \/ r \in Au /\ aus' = aus + 1 /\ r.n = aus',
         wpc # "start_arm" \/ r \notin Au,
         UNCHANGED <<wpc, rpc, file, pending_open, armed_at, recording_armed, queue_overflow,
                     dvr_state>>
  PROVE  Ordered' /\ QueueChained' /\ (OldAtStart => OldAtStart')
<1>1. /\ queue \in Seq(Rpc) /\ rpc \in Rpc \cup {NoRpc} /\ file \in Seq(MuxedAu)
      /\ aus \in Nat /\ aus' \in Nat /\ armed_at \in Nat /\ Len(queue) \in Nat
  BY DEF TypeOK, DataOK
<1>2. /\ Len(queue') = Len(queue) + 1 /\ queue'[Len(queue) + 1] = r
      /\ \A i \in 1..Len(queue) : queue'[i] = queue[i]
  BY <1>1
<1>3. ASSUME NEW n \in Nat, NEW f \in Nat \ {0}, f <= Len(queue) + 1, n <= aus
      PROVE  /\ Below(queue, n, f) => Below(queue', n, f)
             /\ Succeeded(queue, armed_at, aus, n, f) => Succeeded(queue', armed_at, aus', n, f)
  <2>1. r \in Au => n < r.n
    BY <1>1, <1>3
  <2> QED
    BY <1>1, <1>3, <2>1, ChainAppend
<1>4. ASSUME NEW i \in 1..Len(queue'), queue'[i] \in Au
      PROVE  /\ queue'[i].n <= aus' /\ Below(queue', queue'[i].n, i + 1)
             /\ NoneMissing => Succeeded(queue', armed_at, aus', queue'[i].n, i + 1)
  <2>1. CASE i = Len(queue) + 1
    <3>1. queue'[i].n = aus'
      BY <1>2, <1>4, <2>1
    <3> QED
      BY <1>1, <1>2, <2>1, <3>1 DEF Below, Succeeded
  <2>2. CASE i \in 1..Len(queue)
    <3>1. queue[i] \in Au /\ queue[i].n \in Nat /\ queue'[i] = queue[i]
      BY <1>2, <1>4, <2>2 DEF Au
    <3>2. queue[i].n <= aus /\ Below(queue, queue[i].n, i + 1)
      BY <2>2, <3>1 DEF Ordered
    <3>3. NoneMissing => Succeeded(queue, armed_at, aus, queue[i].n, i + 1)
      BY <2>2, <3>1 DEF QueueChained
    <3> QED
      BY <1>1, <1>3, <2>2, <3>1, <3>2, <3>3
  <2> QED
    BY <1>2, <2>1, <2>2
<1>5. rpc \in Au => /\ rpc.n <= aus' /\ Below(queue', rpc.n, 1)
                    /\ NoneMissing => Succeeded(queue', armed_at, aus', rpc.n, 1)
  <2> SUFFICES ASSUME rpc \in Au
               PROVE  /\ rpc.n <= aus' /\ Below(queue', rpc.n, 1)
                      /\ NoneMissing => Succeeded(queue', armed_at, aus', rpc.n, 1)
    OBVIOUS
  <2>1. rpc.n \in Nat /\ rpc.n <= aus /\ Below(queue, rpc.n, 1)
    BY DEF Ordered, Au
  <2>2. NoneMissing => Succeeded(queue, armed_at, aus, rpc.n, 1)
    BY DEF QueueChained
  <2> QED
    BY <1>1, <1>3, <2>1, <2>2
<1>6. file # <<>> => /\ Below(queue', LastN, 1)
                     /\ Succeeded(queue, armed_at, aus, LastN, 1)
                        => Succeeded(queue', armed_at, aus', LastN, 1)
  <2> SUFFICES ASSUME file # <<>>
               PROVE  /\ Below(queue', LastN, 1)
                      /\ Succeeded(queue, armed_at, aus, LastN, 1)
                         => Succeeded(queue', armed_at, aus', LastN, 1)
    OBVIOUS
  <2>1. Len(file) \in 1..Len(file) /\ LastN \in Nat
    BY <1>1, FirstMuxed DEF LastN, MuxedAu
  <2>2. LastN <= aus /\ Below(queue, LastN, 1)
    BY <2>1 DEF Ordered, LastN
  <2> QED
    BY <1>1, <1>3, <2>1, <2>2
<1>7. \A i \in 1..Len(file) : file[i].n <= aus'
  BY <1>1, MuxedNumbers DEF Ordered
<1>8. Ordered'
  BY <1>4, <1>5, <1>6, <1>7 DEF Ordered, LastN
<1>9. NoneMissing' <=> NoneMissing
  BY DEF NoneMissing, disabled
<1>10. QueueChained'
  BY <1>4, <1>5, <1>6, <1>9 DEF QueueChained, LastN
<1>11. OldAtStart => OldAtStart'
  BY <1>1, <1>2 DEF OldAtStart
<1> QED
  BY <1>8, <1>10, <1>11

\* Every step keeps the chain of the access units.
LEMMA ChainStep ==
  ASSUME TypeOK, Control, FileHeld, Ordered, OldAtStart, QueueChained, FileChained,
         SegmentContiguous, [Next]_vars
  PROVE  Ordered' /\ OldAtStart' /\ QueueChained' /\ FileChained' /\ SegmentContiguous'
<1>1. /\ queue \in Seq(Rpc) /\ rpc \in Rpc \cup {NoRpc} /\ file \in Seq(MuxedAu)
      /\ aus \in Nat /\ armed_at \in Nat /\ Len(queue) \in Nat /\ Len(file) \in Nat
  BY DEF TypeOK, DataOK
<1>2. NoRpc \notin Au
  BY DEF NoRpc, Au
<1>3. file # <<>> => Len(file) \in 1..Len(file) /\ LastN \in Nat
  BY <1>1, FirstMuxed DEF LastN, MuxedAu
<1>4. CASE Calm
  <2>1. Ordered' /\ OldAtStart' /\ SegmentContiguous'
    BY <1>2, <1>4 DEF Calm, Ordered, OldAtStart, SegmentContiguous, LastN
  <2>2. QueueChained'
    BY <1>2, <1>4 DEF Calm, QueueChained, LastN
  <2>3. FileChained'
    BY <1>2, <1>4 DEF Calm, FileChained, LastN
  <2> QED
    BY <2>1, <2>2, <2>3
<1>5. CASE LoopPop
  <2>1. /\ wpc = "wait" /\ queue # <<>> /\ wpc' = "status" /\ rpc' = Head(queue)
        /\ queue' = Tail(queue)
        /\ UNCHANGED <<aus, armed_at, file, pending_open, recording_armed, queue_overflow, dvr_state>>
    BY <1>5 DEF LoopPop, disk, others, bounds
  <2>2. /\ Head(queue) \in Rpc /\ Head(queue) = queue[1] /\ Len(queue) >= 1
        /\ 1 \in 1..Len(queue) /\ Len(queue') = Len(queue) - 1
        /\ \A i \in 1..Len(queue') : queue'[i] = queue[i + 1] /\ i + 1 \in 1..Len(queue)
    BY <1>1, <2>1
  <2>3. NoneMissing' <=> NoneMissing
    BY <2>1 DEF NoneMissing, disabled, Closing, Disarmed
  <2>4. ASSUME NEW i \in 1..Len(queue'), queue'[i] \in Au
        PROVE  /\ queue'[i].n <= aus /\ Below(queue', queue'[i].n, i + 1)
               /\ NoneMissing => Succeeded(queue', armed_at, aus, queue'[i].n, i + 1)
    <3>1. queue[i + 1] \in Au /\ queue[i + 1].n \in Nat /\ i + 1 \in Nat \ {0}
      BY <2>2, <2>4 DEF Au
    <3>2. queue[i + 1].n <= aus /\ Below(queue, queue[i + 1].n, (i + 1) + 1)
      BY <2>2, <3>1 DEF Ordered
    <3>3. NoneMissing => Succeeded(queue, armed_at, aus, queue[i + 1].n, (i + 1) + 1)
      BY <2>2, <3>1 DEF QueueChained
    <3> QED
      BY <1>1, <2>1, <2>2, <3>1, <3>2, <3>3, ChainTail
  <2>5. queue[1] \in Au =>
          /\ queue[1].n \in Nat /\ queue[1].n <= aus /\ Below(queue', queue[1].n, 1)
          /\ NoneMissing => Succeeded(queue', armed_at, aus, queue[1].n, 1)
    <3> SUFFICES ASSUME queue[1] \in Au
                 PROVE  /\ queue[1].n \in Nat /\ queue[1].n <= aus /\ Below(queue', queue[1].n, 1)
                        /\ NoneMissing => Succeeded(queue', armed_at, aus, queue[1].n, 1)
      OBVIOUS
    <3>1. queue[1].n \in Nat
      BY DEF Au
    <3>2. queue[1].n <= aus /\ Below(queue, queue[1].n, 1 + 1)
      BY <2>2 DEF Ordered
    <3>3. NoneMissing => Succeeded(queue, armed_at, aus, queue[1].n, 1 + 1)
      BY <2>2 DEF QueueChained
    <3> QED
      BY <1>1, <2>1, <3>1, <3>2, <3>3, ChainTail
  <2>6. file # <<>> =>
          /\ Below(queue', LastN, 1)
          /\ NoneMissing /\ ~pending_open /\ queue[1] \notin Au
             => Succeeded(queue', armed_at, aus, LastN, 1)
    <3> SUFFICES ASSUME file # <<>>
                 PROVE  /\ Below(queue', LastN, 1)
                        /\ NoneMissing /\ ~pending_open /\ queue[1] \notin Au
                           => Succeeded(queue', armed_at, aus, LastN, 1)
      OBVIOUS
    <3>1. Below(queue, LastN, 1)
      BY DEF Ordered
    <3>2. NoneMissing /\ ~pending_open => Succeeded(queue, armed_at, aus, LastN, 1)
      BY <2>1 DEF QueueChained, InHand
    <3> QED
      BY <1>1, <1>3, <2>1, <2>2, <3>1, <3>2, ChainTail
  <2>7. Ordered'
    BY <2>1, <2>2, <2>4, <2>5, <2>6 DEF Ordered, LastN
  <2>8. QueueChained'
    BY <2>1, <2>2, <2>3, <2>4, <2>5, <2>6 DEF QueueChained, LastN, InHand
  <2>9. FileChained'
    <3> SUFFICES ASSUME file # <<>>, queue[1] \in Au, LastN > armed_at, ~pending_open, NoneMissing
                 PROVE  queue[1].n = LastN + 1
      BY <2>1, <2>2, <2>3 DEF FileChained, LastN, Deciding
    <3>1. Succeeded(queue, armed_at, aus, LastN, 1)
      BY <2>1 DEF QueueChained, InHand
    <3>2. LastN < queue[1].n /\ queue[1].n <= aus /\ queue[1].n \in Nat
      BY <2>2, <2>5 DEF Ordered, Below
    <3>3. PICK j \in 1..Len(queue) : queue[j] \in Au /\ queue[j].n = LastN + 1
      BY <1>1, <1>3, <3>1, <3>2 DEF Succeeded
    <3>4. j # 1 => queue[1].n < queue[j].n
      <4>1. Below(queue, queue[1].n, 1 + 1)
        BY <2>2 DEF Ordered
      <4> QED
        BY <3>3, <4>1 DEF Below
    <3> QED
      BY <1>3, <3>2, <3>3, <3>4
  <2> QED
    BY <2>1, <2>7, <2>8, <2>9 DEF OldAtStart, SegmentContiguous
<1>6. CASE Write
  <2>1. PICK ok : file' = Append(file, [n |-> rpc.n, session |-> rpc.session,
                                        key |-> rpc.key, ok |-> ok])
    BY <1>6 DEF Write
  <2>2. /\ wpc = "write" /\ wpc' \in {"stop", "finish"}
        /\ UNCHANGED <<queue, aus, armed_at, rpc, recording_armed, queue_overflow, dvr_state>>
    BY <1>6 DEF Write, CallFatalFail, CallStop, shared, others, bounds, call
  <2>3. rpc \in Au /\ ~pending_open /\ rpc.n \in Nat
    BY <2>2 DEF Control, AuInHand, FileHeld, Au
  <2>4. /\ Len(file') = Len(file) + 1 /\ file'[Len(file) + 1].n = rpc.n
        /\ \A i \in 1..Len(file) : file'[i] = file[i]
    BY <1>1, <2>1
  <2>5. file # <<>> /\ LastN > armed_at => rpc.n = LastN + 1
    BY <2>2, <2>3 DEF FileChained
  <2>6. SegmentContiguous'
    <3> SUFFICES ASSUME NEW i \in 1..Len(file), file'[i].n > armed_at
                 PROVE  file'[i + 1].n = file'[i].n + 1
      BY <1>1, <2>2, <2>4 DEF SegmentContiguous
    <3>1. CASE i = Len(file)
      BY <1>1, <2>4, <2>5, <3>1 DEF LastN
    <3>2. CASE i < Len(file)
      BY <1>1, <2>4, <3>2 DEF SegmentContiguous
    <3> QED
      BY <1>1, <3>1, <3>2
  <2>7. NoneMissing' => NoneMissing
    BY <2>2 DEF NoneMissing, disabled, Closing, Disarmed
  <2>8. LastN' = rpc.n
    BY <1>1, <2>4 DEF LastN
  <2>9. Ordered'
    BY <1>1, <2>2, <2>3, <2>4, <2>8 DEF Ordered
  <2>10. QueueChained'
    BY <2>2, <2>3, <2>7, <2>8 DEF QueueChained
  <2> QED
    BY <2>2, <2>6, <2>9, <2>10 DEF OldAtStart, FileChained, Deciding
<1>7. CASE Clear
  <2>1. /\ queue' = <<>> /\ rpc' = NoRpc /\ wpc' = "done"
        /\ ~recording_armed /\ UNCHANGED <<aus, armed_at, file, recording_armed>>
    BY <1>7 DEF Clear, disk, others, bounds, Control, DisarmedHolds
  <2> QED
    BY <1>2, <2>1 DEF Ordered, Below, OldAtStart, QueueChained, NoneMissing, FileChained,
      SegmentContiguous
<1>8. CASE StartRecording
  <2>1. /\ wpc' = "start_arm" /\ armed_at' = aus /\ ~recording_armed
        /\ UNCHANGED <<queue, aus, file, rpc, recording_armed>>
    BY <1>8 DEF StartRecording, queueVars, call, others, bounds, Control, DisarmedHolds
  <2>2. Ordered' /\ OldAtStart' /\ QueueChained' /\ FileChained'
    BY <2>1 DEF Ordered, LastN, OldAtStart, QueueChained, NoneMissing, FileChained, Deciding
  <2>3. \A i \in 1..Len(file) : file[i].n \in Nat
    BY <1>1, MuxedNumbers
  <2>4. SegmentContiguous'
    BY <1>1, <2>1, <2>3 DEF Ordered, SegmentContiguous
  <2> QED
    BY <2>2, <2>4
<1>9. CASE StartArm
  <2>1. /\ wpc = "start_arm" /\ wpc' = "start_fact"
        /\ UNCHANGED <<queue, aus, armed_at, file, rpc, pending_open>>
    BY <1>9 DEF StartArm, queueVars, call, disk, others, bounds
  <2>2. /\ \A i \in 1..Len(queue) : queue[i] \in Au => queue[i].n \in Nat
        /\ rpc \in Au => rpc.n \in Nat
    BY DEF Au
  <2>3. QueueChained'
    BY <1>1, <1>3, <2>1, <2>2 DEF OldAtStart, QueueChained, Succeeded, LastN
  <2> QED
    BY <2>1, <2>3 DEF Ordered, LastN, OldAtStart, FileChained, Deciding, SegmentContiguous
<1>10. CASE RunTask \/ EncoderFailed \/ EncoderReset
  <2>1. UNCHANGED <<wpc, rpc, file, pending_open, armed_at, recording_armed, queue_overflow,
                    dvr_state, aus>>
    BY <1>10 DEF RunTask, EncoderFailed, EncoderReset, EnqueueRpc, worker, call, disk, bounds
  <2>2. ASSUME NEW c \in Command, queue' = Append(queue, [command |-> c])
        PROVE  Ordered' /\ QueueChained' /\ OldAtStart'
    <3>1. [command |-> c] \in Rpc /\ [command |-> c] \notin Au
      BY CommandTyped DEF Command, Au
    <3> QED
      BY <2>1, <2>2, <3>1, ChainBehind
  <2>3. FileChained' /\ SegmentContiguous'
    BY <2>1 DEF FileChained, NoneMissing, disabled, LastN, SegmentContiguous
  <2>4. CASE RunTask
    <3>1. tasks \in Seq(Command \cup {"QUIT"}) /\ tasks # <<>> /\ Head(tasks) # "QUIT"
      BY <2>4 DEF RunTask, TypeOK, DataOK
    <3>2. Head(tasks) \in Command
      BY <3>1, TaskTyped
    <3>3. queue' = Append(queue, [command |-> Head(tasks)])
      BY <2>4 DEF RunTask, EnqueueRpc
    <3> QED
      BY <2>2, <2>3, <3>2, <3>3
  <2>5. CASE EncoderFailed
    <3>1. queue' = Append(queue, [command |-> "FAIL"])
      BY <2>5 DEF EncoderFailed, EnqueueRpc
    <3> QED
      BY <2>2, <2>3, <3>1 DEF Command
  <2>6. CASE EncoderReset
    <3>1. queue' = Append(queue, [command |-> "ROTATE"])
      BY <2>6 DEF EncoderReset, EnqueueRpc
    <3> QED
      BY <2>2, <2>3, <3>1 DEF Command
  <2> QED
    BY <1>10, <2>4, <2>5, <2>6
<1>11. CASE EmitAu
  <2>1. /\ aus' = aus + 1
        /\ UNCHANGED <<wpc, rpc, file, pending_open, armed_at, recording_armed, dvr_state>>
    BY <1>11 DEF EmitAu, worker, call, disk
  <2>2. SegmentContiguous'
    BY <2>1 DEF SegmentContiguous
  <2>3. CASE UNCHANGED queue
    <3>1. recording_armed => queue_overflow'
      BY <1>11, <2>3 DEF EmitAu, on_access_unit, DropOnFullQueue, TypeOK, DataOK
    <3>2. ~NoneMissing'
      BY <2>1, <3>1 DEF NoneMissing
    <3>3. /\ \A i \in 1..Len(queue) : queue[i] \in Au => queue[i].n \in Nat
          /\ rpc \in Au => rpc.n \in Nat
          /\ \A i \in 1..Len(file) : file[i].n \in Nat
      BY <1>1, MuxedNumbers DEF Au
    <3>4. Ordered'
      BY <1>1, <2>1, <2>3, <3>3 DEF Ordered, LastN
    <3>5. FileChained'
      BY <2>1, <3>1, <3>2 DEF FileChained, LastN
    <3> QED
      BY <2>1, <2>2, <2>3, <3>2, <3>4, <3>5 DEF OldAtStart, QueueChained
  <2>4. CASE ~UNCHANGED queue
    <3>1. PICK len \in AuLens, key \in BOOLEAN :
            queue' = Append(queue, [command |-> "AU", n |-> aus', len |-> len,
                                    session |-> session, key |-> key])
      BY <1>11, <2>4 DEF EmitAu, on_access_unit, queueVars
    <3>2. recording_armed /\ UNCHANGED queue_overflow
      BY <1>11, <2>4 DEF EmitAu, on_access_unit, queueVars
    <3>3. wpc # "start_arm"
      BY <3>2 DEF Control, DisarmedHolds
    <3> DEFINE r == [command |-> "AU", n |-> aus', len |-> len,
                     session |-> session, key |-> key]
    <3>4. r \in Rpc /\ r \in Au /\ r.n = aus'
      <4>1. len \in Nat /\ aus' \in Nat /\ session \in Nat
        BY <2>1, DvrAssumption DEF TypeOK, DataOK
      <4> QED
        BY <4>1 DEF Rpc, Au
    <3> HIDE DEF r
    <3>5. queue' = Append(queue, r)
      BY <3>1 DEF r
    <3>6. Ordered' /\ QueueChained' /\ OldAtStart'
      BY <2>1, <3>2, <3>3, <3>4, <3>5, ChainBehind
    <3>7. FileChained'
      BY <2>1, <3>2 DEF FileChained, NoneMissing, disabled, LastN
    <3> QED
      BY <2>2, <3>6, <3>7
  <2> QED
    BY <2>3, <2>4
<1>12. CASE TickDrop
  <2>1. /\ queue' = Commands(queue)
        /\ UNCHANGED <<aus, wpc, rpc, file, pending_open, armed_at, recording_armed, dvr_state>>
    BY <1>12 DEF TickDrop, WipeQueue, worker, call, disk, bounds
  <2>2. disabled /\ (recording_armed => wpc # "au")
    BY <1>12 DEF TickDrop, Control, FactFollows, Updating, Rearmed, Finishing
  <2>3. \A i \in 1..Len(queue') : queue'[i] \notin Au
    BY <1>1, <2>1, KeptAreCommands DEF IsCommand, Au
  <2>4. ~NoneMissing'
    BY <2>1, <2>2 DEF NoneMissing, disabled
  <2>5. Ordered' /\ OldAtStart' /\ QueueChained'
    BY <2>1, <2>3, <2>4 DEF Ordered, Below, LastN, OldAtStart, QueueChained
  <2>6. FileChained'
    BY <2>1, <2>2, <2>4 DEF FileChained, LastN
  <2> QED
    BY <2>1, <2>5, <2>6 DEF SegmentContiguous
<1> QED
  BY <1>4, <1>5, <1>6, <1>7, <1>8, <1>9, <1>10, <1>11, <1>12, CalmStep

-----------------------------------------------------------------------------
(* The byte count *)

\* An rpc behind, or the head taken, or access units wiped: what it does to the
\* bytes queued.
LEMMA BytesQueued ==
  ASSUME NEW q \in Seq(Rpc)
  PROVE  /\ \A r \in Rpc : QueuedBytes(Append(q, r)) = QueuedBytes(q) + QueuedLen(r)
         /\ q # <<>> => QueuedBytes(Tail(q)) = QueuedBytes(q) - QueuedLen(Head(q))
         /\ (\A i \in 1..Len(q) : IsCommand(q[i])) => QueuedBytes(q) = 0
<1>1. \A r \in Rpc : QueuedLen(r) \in Int
  BY DEF Rpc, Au, QueuedLen, Command
<1>2. QueuedLens(q) \in Seq(Int) /\ Len(QueuedLens(q)) = Len(q)
  BY <1>1 DEF QueuedLens
<1>3. ASSUME NEW r \in Rpc
      PROVE  QueuedBytes(Append(q, r)) = QueuedBytes(q) + QueuedLen(r)
  <2>1. QueuedLens(Append(q, r)) = Append(QueuedLens(q), QueuedLen(r))
    BY <1>1 DEF QueuedLens
  <2> QED
    BY <1>1, <1>2, <2>1, TotalAppend DEF QueuedBytes
<1>4. ASSUME q # <<>>
      PROVE  QueuedBytes(Tail(q)) = QueuedBytes(q) - QueuedLen(Head(q))
  <2>1. QueuedLens(Tail(q)) = Tail(QueuedLens(q)) /\ QueuedLens(q) # <<>>
        /\ Head(QueuedLens(q)) = QueuedLen(Head(q))
    BY <1>1, <1>4 DEF QueuedLens
  <2> QED
    BY <1>2, <2>1, TotalTail DEF QueuedBytes
<1>5. ASSUME \A i \in 1..Len(q) : IsCommand(q[i]) PROVE QueuedBytes(q) = 0
  <2>1. \A i \in 1..Len(QueuedLens(q)) : QueuedLens(q)[i] = 0
    BY <1>2, <1>5 DEF QueuedLens, QueuedLen, IsCommand
  <2> QED
    BY <1>2, <2>1, TotalZero DEF QueuedBytes
<1> QED
  BY <1>3, <1>4, <1>5

\* Every step keeps the count exact and within the cap.
LEMMA BytesStep ==
  ASSUME TypeOK, Control, FileHeld, QueueBytesExact, [Next]_vars
  PROVE  QueueBytesExact'
<1>1. queue \in Seq(Rpc) /\ queue_bytes \in Int /\ MAX_QUEUE_BYTES \in Nat
  BY DvrAssumption DEF TypeOK, DataOK
<1>2. CASE UNCHANGED <<queue, queue_bytes>>
  BY <1>2 DEF QueueBytesExact
<1>3. CASE LoopPop
  <2>1. queue # <<>> /\ queue' = Tail(queue) /\ queue_bytes' = queue_bytes - QueuedLen(Head(queue))
    BY <1>3 DEF LoopPop
  <2>2. QueuedLen(Head(queue)) \in Nat
    BY <1>1, <2>1, HeadTyped
  <2>3. QueuedBytes(queue') = QueuedBytes(queue) - QueuedLen(Head(queue))
    BY <1>1, <2>1, BytesQueued
  <2> QED
    BY <1>1, <2>1, <2>2, <2>3 DEF QueueBytesExact
<1>4. CASE Clear \/ TickDrop
  <2>1. queue' \in Seq(Rpc) /\ \A i \in 1..Len(queue') : IsCommand(queue'[i])
    <3>1. CASE Clear
      BY <3>1 DEF Clear
    <3>2. CASE TickDrop
      BY <1>1, <3>2, KeptAreCommands DEF TickDrop, WipeQueue
    <3> QED
      BY <1>4, <3>1, <3>2
  <2>2. queue_bytes' = 0
    BY <1>4 DEF Clear, TickDrop, WipeQueue
  <2>3. QueuedBytes(queue') = 0
    BY <2>1, BytesQueued
  <2> QED
    BY <1>1, <2>2, <2>3 DEF QueueBytesExact
<1>5. ASSUME NEW c \in Command, EnqueueRpc(c) PROVE QueueBytesExact'
  <2>1. [command |-> c] \in Rpc /\ QueuedLen([command |-> c]) = 0
    BY CommandTyped DEF QueuedLen, Command
  <2>2. QueuedBytes(queue') = QueuedBytes(queue) + 0 /\ queue_bytes' = queue_bytes
    BY <1>1, <1>5, <2>1, BytesQueued DEF EnqueueRpc
  <2> QED
    BY <1>1, <2>2 DEF QueueBytesExact
<1>6. CASE RunTask
  BY <1>5, <1>6, TaskTyped DEF RunTask, TypeOK, DataOK
<1>7. CASE EncoderReset \/ EncoderFailed
  BY <1>5, <1>7 DEF EncoderReset, EncoderFailed, Command
<1>8. CASE EmitAu
  <2>1. PICK len \in AuLens, key \in BOOLEAN :
          on_access_unit([command |-> "AU", n |-> aus', len |-> len,
                          session |-> session, key |-> key])
    BY <1>8 DEF EmitAu
  <2> DEFINE r == [command |-> "AU", n |-> aus', len |-> len, session |-> session, key |-> key]
  <2>2. r \in Rpc /\ r.len = len /\ QueuedLen(r) = len /\ len \in Nat
    <3>1. len \in Nat /\ aus' \in Nat /\ session \in Nat
      BY <1>8, DvrAssumption DEF EmitAu, TypeOK, DataOK
    <3> QED
      BY <3>1 DEF Rpc, Au, QueuedLen
  <2> HIDE DEF r
  <2>3. on_access_unit(r)
    BY <2>1 DEF r
  <2>4. CASE queue_bytes + len <= MAX_QUEUE_BYTES /\ queue' = Append(queue, r)
             /\ queue_bytes' = queue_bytes + len
    <3>1. QueuedBytes(queue') = QueuedBytes(queue) + len
      BY <1>1, <2>2, <2>4, BytesQueued
    <3> QED
      BY <2>4, <3>1 DEF QueueBytesExact
  <2> QED
    BY <1>2, <2>2, <2>3, <2>4 DEF on_access_unit, queueVars
<1>9. CASE Write \/ StartRecording \/ StartArm
  BY <1>2, <1>9 DEF Write, StartRecording, StartArm, shared, queueVars
<1>10. CASE Quiet
  BY <1>2, <1>10 DEF Quiet
<1> QED
  BY <1>3, <1>4, <1>6, <1>7, <1>8, <1>9, <1>10, QuietStep

-----------------------------------------------------------------------------
(* The theorems about what is recorded *)

\* FileInv holds of the stopped recorder, its queue and its file empty.
LEMMA FileInit == Init => FileInv
<1> SUFFICES ASSUME Init PROVE FileInv
  OBVIOUS
<1>1. queue = <<>> /\ file = <<>> /\ rpc = NoRpc /\ wpc = "wait" /\ ~is_open /\ queue_bytes = 0
  BY DEF Init
<1>2. NoRpc \notin Au
  BY DEF NoRpc, Au
<1>3. FileHeld /\ Parting /\ Chain
  BY <1>1, <1>2 DEF FileHeld, Parting, QueueParted, FileParted, StaysOpen, Chain, Ordered,
    OldAtStart, QueueChained, FileChained, SegmentSingleSession, SegmentContiguous
<1>4. QueueBytesExact
  <2>1. <<>> \in Seq(Rpc) /\ \A i \in 1..Len(<<>>) : IsCommand(<<>>[i])
    OBVIOUS
  <2>2. QueuedBytes(<<>>) = 0
    BY <2>1, BytesQueued
  <2> QED
    BY <1>1, <2>2, DvrAssumption DEF QueueBytesExact
<1> QED
  BY <1>3, <1>4, InitInv DEF FileInv

\* Every step of every thread keeps it.
LEMMA FileNext == FileInv /\ [Next]_vars => FileInv'
<1> SUFFICES ASSUME FileInv, [Next]_vars PROVE FileInv'
  OBVIOUS
<1>1. IInv /\ TypeOK /\ Control /\ FileHeld /\ Parting /\ Chain /\ QueueBytesExact
  BY DEF FileInv, IInv
<1>2. IInv' /\ FileHeld' /\ QueueBytesExact'
  BY <1>1, NextInv, FileHeldStep, BytesStep
<1>3. Parting'
  BY <1>1, SegmentStep DEF Parting
<1>4. Chain'
  BY <1>1, ChainStep DEF Chain
<1> QED
  BY <1>2, <1>3, <1>4 DEF FileInv

\* FileInv is an invariant: what the queue holds, in order, against what is in the
\* worker's hands, in the file and still to be emitted.
THEOREM FileInvariance == Spec => []FileInv
  BY FileInit, FileNext, PTL DEF Spec

\* The byte count of the queue is exact and never above the cap.
THEOREM QueueBytesAreExact == Spec => []QueueBytesExact
<1>1. FileInv => QueueBytesExact
  BY DEF FileInv
<1> QED
  BY <1>1, FileInvariance, PTL

\* No file mixes the access units of two encoder sessions.
THEOREM FilesHaveOneSession == Spec => []SegmentSingleSession
<1>1. FileInv => SegmentSingleSession
  BY DEF FileInv, Parting
<1> QED
  BY <1>1, FileInvariance, PTL

\* No access unit is missing inside a file, whatever the queue dropped.
THEOREM FilesAreContiguous == Spec => []SegmentContiguous
<1>1. FileInv => SegmentContiguous
  BY DEF FileInv, Chain
<1> QED
  BY <1>1, FileInvariance, PTL

=============================================================================
