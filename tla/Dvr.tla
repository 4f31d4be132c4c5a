-------------------------------- MODULE Dvr --------------------------------
(***************************************************************************)
(* The recorder of src/src/dvr/dvr.cpp: the DVR worker thread, the entry   *)
(* points the encoder thread calls (posted commands, access units, resets, *)
(* failures and the stall watchdog on_tick), and the callers on the main   *)
(* and display threads.  Every step ends at an access to state another     *)
(* thread shares: the atomics dvr_state, recording_armed, busy_since_ms_,  *)
(* stalled_ and wants_frames_, and the queue under mtx.                    *)
(*                                                                         *)
(* Data is abstracted: an access unit is its number, its encoder session,  *)
(* its length in units and whether it is a keyframe; busy_since_ms_ is     *)
(* whether it is nonzero; a storage call has any of the outcomes the code  *)
(* tells apart and may take forever (no fairness is assumed of it here).   *)
(***************************************************************************)
EXTENDS Integers, Sequences, SeqFilter

CONSTANTS
  MAX_QUEUE_BYTES,                 \* cap on the queued access-unit bytes
  MAX_OPEN_ATTEMPTS,               \* failed file opens before the DVR gives up
  MAX_CONSECUTIVE_WRITE_FAILURES,  \* failed writes before the DVR gives up
  AuLens,                          \* lengths an access unit may have
  Restreaming,                     \* whether the restreamer consumes frames too
  Faults,                          \* the faults that may happen, of AnyFault
  MaxAUs,                          \* bound: access units the encoder emits
  MaxCommands,                     \* bound: start, stop, toggle and disable calls
  MaxEncoderEvents                 \* bound: encoder resets and failures

\* A hanging storage call, lost or full storage, a file that does not open, a
\* write or a sync that fails, an encoder that gives up.
AnyFault == {"stall", "storage", "open", "write", "encoder"}

ASSUME DvrAssumption ==
  /\ MAX_QUEUE_BYTES \in Nat
  /\ MAX_OPEN_ATTEMPTS \in Nat \ {0}
  /\ MAX_CONSECUTIVE_WRITE_FAILURES \in Nat \ {0}
  /\ AuLens \subseteq Nat \ {0}
  /\ Restreaming \in BOOLEAN /\ Faults \subseteq AnyFault
  /\ MaxAUs \in Nat /\ MaxCommands \in Nat /\ MaxEncoderEvents \in Nat

VARIABLES
  dvr_state,        \* the global recording state (dvr_common.h)
  recording_armed,  \* active(): the worker wants access units
  wants_frames,     \* VideoEncoder::wants_frames_, the capture gate
  queue,            \* queue_ of rpcs
  queue_bytes,      \* queue_bytes_
  queue_overflow,   \* queue_overflow_
  busy,             \* busy_since_ms_ # 0
  stalled,          \* stalled_
  recording_fact,   \* last published "dvr.recording"
  wpc,              \* worker: the step it is at
  rpc,              \* worker: the rpc it took off the queue
  ret,              \* worker: where stop() returns to
  fatal,            \* worker: stop() was called by a fatal fail()
  fin,              \* worker: what follows finish_storage_work()
  wany,             \* worker: any of recompute_wants_frames()
  pending_open,     \* worker: waiting for a keyframe to open a file
  open_attempts,    \* worker: failed opens in a row
  is_open,          \* worker: writer.is_open()
  file,             \* worker: the access units muxed into the open file
  write_fail_streak,\* worker: TsWriter's consecutive failures
  armed_at,         \* history: access units emitted before the last start()
  epc,              \* encoder thread: the step it is at
  eany,             \* encoder thread: any of recompute_wants_frames()
  tasks,            \* VideoEncoder's queue, its RUN and SHUTDOWN tasks
  session,          \* encoder sessions started
  fresh,            \* no access unit of this session was emitted yet
  main,             \* main thread: the step it is at
  display,          \* display thread: the step it is at
  aus, commands, events \* what the bounds count

shared == <<dvr_state, recording_armed, wants_frames, queue, queue_bytes,
            queue_overflow, busy, stalled, recording_fact>>
queueVars == <<queue, queue_bytes, queue_overflow>>
call == <<rpc, ret, fatal, fin, wany>>
disk == <<pending_open, open_attempts, is_open, file, write_fail_streak, armed_at>>
worker == <<wpc, call, disk>>
encoder == <<epc, eany, tasks, session, fresh>>
callers == <<main, display>>
bounds == <<aus, commands, events>>
others == <<encoder, callers, bounds>>
vars == <<shared, worker, others>>

-----------------------------------------------------------------------------
(* Types *)

DvrState == {"Idle", "Recording", "Disabled"}
Command == {"START", "STOP", "TOGGLE", "DISABLE", "ROTATE", "FAIL", "SHUTDOWN"}

\* An access unit and, when muxed, whether its write succeeded.
Au == [command : {"AU"}, n : Nat, session : Nat, len : Nat, key : BOOLEAN]
Rpc == Au \cup [command : Command]
NoRpc == [command |-> "NONE"]

WorkerStep ==
  {"wait", "status", "dispatch", "start", "start_arm", "start_fact", "start_any",
   "start_gate", "au", "open", "write", "stop", "stop_any", "stop_gate",
   "stop_cas", "finalize", "latch", "finish", "finish_stalled",
   "finish_disabled", "end", "clear", "done"}
EncoderStep ==
  {"idle", "frame", "any", "gate", "tick", "tick_stall", "tick_latch", "tick_disarm",
   "tick_any", "tick_gate", "tick_drop", "teardown", "done"}

QueuedLen(r) == IF r.command = "AU" THEN r.len ELSE 0
QueuedLens(q) == [i \in 1..Len(q) |-> QueuedLen(q[i])]
QueuedBytes(q) == Total(QueuedLens(q))
IsCommand(r) == r.command # "AU"
Commands(q) == Keep(q, {i \in 1..Len(q) : IsCommand(q[i])})

disabled == dvr_state = "Disabled"
active == recording_armed \/ Restreaming

-----------------------------------------------------------------------------
(* Initial state: both threads started, nothing recorded. *)

Init ==
  /\ dvr_state = "Idle" /\ recording_armed = FALSE
  /\ wants_frames = Restreaming
  /\ queue = <<>> /\ queue_bytes = 0 /\ queue_overflow = FALSE
  /\ busy = FALSE /\ stalled = FALSE /\ recording_fact = "none"
  /\ wpc = "wait" /\ rpc = NoRpc /\ ret = "finish" /\ fatal = FALSE
  /\ fin = "loop" /\ wany = FALSE /\ pending_open = FALSE
  /\ open_attempts = 0 /\ is_open = FALSE /\ file = <<>>
  /\ write_fail_streak = 0 /\ armed_at = 0
  /\ epc = "idle" /\ eany = FALSE /\ tasks = <<>>
  /\ session = 0 /\ fresh = TRUE
  /\ main = "run" /\ display = "run"
  /\ aus = 0 /\ commands = 0 /\ events = 0

-----------------------------------------------------------------------------
(* Worker: the loop *)

\* A step of the worker that only moves on.
Step(from, to) == wpc = from /\ wpc' = to /\ UNCHANGED <<shared, call, disk, others>>

\* stop() called at a step, to return to another; a fatal fail() latches after it.
CallStop(from, isFatal, next) ==
  /\ wpc = from /\ wpc' = "stop" /\ fatal' = isFatal /\ ret' = next
  /\ UNCHANGED <<rpc, fin, wany>>

\* fail(reason, fatal = true): returns at once when Disabled is already latched.
CallFatalFail(from, next) ==
  \/ ~disabled /\ CallStop(from, TRUE, next)
  \/ disabled /\ wpc = from /\ wpc' = next /\ UNCHANGED call

\* cv.wait_for found an rpc: take it and stamp the start of the work.
LoopPop ==
  /\ wpc = "wait" /\ queue # <<>> /\ wpc' = "status"
  /\ rpc' = Head(queue) /\ queue' = Tail(queue)
  /\ queue_bytes' = queue_bytes - QueuedLen(Head(queue))
  /\ busy' = TRUE
  /\ UNCHANGED <<dvr_state, recording_armed, wants_frames, queue_overflow, stalled,
                 recording_fact, ret, fatal, fin, wany, disk, others>>

\* cv.wait_for timed out on an empty queue: only storage housekeeping.
LoopTimeout ==
  /\ wpc = "wait" /\ queue = <<>> /\ wpc' = "status"
  /\ busy' = TRUE
  /\ UNCHANGED <<dvr_state, recording_armed, wants_frames, queueVars, stalled,
                 recording_fact, call, disk, others>>

file_active == recording_armed /\ is_open

\* update_storage_status() returns to the switch, or to the timeout branch.
AfterStatus == IF rpc = NoRpc THEN "finish" ELSE "dispatch"

\* The check was not due, found nothing wrong, or found no file to protect.
StatusOk == Step("status", AfterStatus)

\* Storage unmounted, gone or replaced under an open file: fatal.
StatusLost ==
  /\ "storage" \in Faults /\ file_active /\ CallFatalFail("status", AfterStatus)
  /\ UNCHANGED <<shared, disk, others>>

\* Free space ran low under an open file: the recording ends, the DVR stays on.
StatusLow ==
  /\ "storage" \in Faults /\ file_active /\ CallStop("status", FALSE, AfterStatus)
  /\ UNCHANGED <<shared, disk, others>>

\* A latched DVR handles only SHUTDOWN and DISABLE; anything else ends the loop.
HandledWhenDisabled == rpc.command \in {"SHUTDOWN", "DISABLE"}

DispatchDisabled ==
  /\ wpc = "dispatch" /\ disabled /\ ~HandledWhenDisabled /\ wpc' = "finish"
  /\ fin' = "break"
  /\ UNCHANGED <<shared, rpc, ret, fatal, wany, disk, others>>

Dispatched(set) == rpc.command \in set /\ (disabled => HandledWhenDisabled)

\* RPC_AU, RPC_START or RPC_TOGGLE while not armed, and the commands that find
\* nothing to do: a start while armed, a stop, rotate or failure while not.
DispatchAu == Dispatched({"AU"}) /\ Step("dispatch", "au")
DispatchStart ==
  Dispatched({"START", "TOGGLE"}) /\ ~recording_armed /\ Step("dispatch", "start")
DispatchIgnored ==
  /\ \/ Dispatched({"START"}) /\ recording_armed
     \/ Dispatched({"STOP", "ROTATE", "FAIL"}) /\ ~recording_armed
  /\ Step("dispatch", "finish")

\* MUTANT: leaves the switch instead of the loop.
DispatchShutdownBreaks == Dispatched({"SHUTDOWN"}) /\ Step("dispatch", "finish")

\* RPC_SHUTDOWN: goto end.
DispatchShutdown == Dispatched({"SHUTDOWN"}) /\ Step("dispatch", "end")

\* RPC_STOP, RPC_TOGGLE, RPC_DISABLE while armed: stop().  The fact RPC_DISABLE
\* publishes after it is the one stop() published.
DispatchStop ==
  /\ Dispatched({"STOP", "TOGGLE", "DISABLE"}) /\ recording_armed
  /\ CallStop("dispatch", FALSE, "finish")
  /\ UNCHANGED <<shared, disk, others>>

\* RPC_DISABLE with nothing to stop.
DispatchDisable ==
  /\ wpc = "dispatch" /\ Dispatched({"DISABLE"}) /\ ~recording_armed
  /\ wpc' = "finish" /\ recording_fact' = "false"
  /\ UNCHANGED <<dvr_state, recording_armed, wants_frames, queueVars, busy, stalled,
                 call, disk, others>>

\* MUTANT: a request to roll is forgotten.
RotateForgotten == UNCHANGED pending_open

request_rotate == pending_open' = TRUE

\* RPC_ROTATE while armed.
DispatchRotate ==
  /\ wpc = "dispatch" /\ Dispatched({"ROTATE"}) /\ recording_armed /\ wpc' = "finish"
  /\ request_rotate
  /\ UNCHANGED <<shared, call, open_attempts, is_open, file, write_fail_streak,
                 armed_at, others>>

\* RPC_FAIL while armed: the encoder gave up, fatal.
DispatchFail ==
  /\ Dispatched({"FAIL"}) /\ recording_armed /\ CallFatalFail("dispatch", "finish")
  /\ UNCHANGED <<shared, disk, others>>

-----------------------------------------------------------------------------
(* Worker: start() *)

\* storage.is_ready() fails, or the Idle -> Recording exchange does.
StartRefused ==
  /\ wpc = "start" /\ wpc' = "finish"
  /\ "storage" \in Faults \/ dvr_state # "Idle"
  /\ recording_fact' = "false"
  /\ UNCHANGED <<dvr_state, recording_armed, wants_frames, queueVars, busy, stalled,
                 call, disk, others>>

StartRecording ==
  /\ wpc = "start" /\ dvr_state = "Idle" /\ wpc' = "start_arm"
  /\ dvr_state' = "Recording"
  /\ open_attempts' = 0 /\ pending_open' = TRUE /\ armed_at' = aus
  /\ UNCHANGED <<recording_armed, wants_frames, queueVars, busy, stalled,
                 recording_fact, call, is_open, file, write_fail_streak, others>>

StartArm ==
  /\ wpc = "start_arm" /\ wpc' = "start_fact"
  /\ recording_armed' = TRUE
  /\ UNCHANGED <<dvr_state, wants_frames, queueVars, busy, stalled, recording_fact, call,
                 disk, others>>

StartFact ==
  /\ wpc = "start_fact" /\ wpc' = "start_any"
  /\ recording_fact' = "true"
  /\ UNCHANGED <<dvr_state, recording_armed, wants_frames, queueVars, busy, stalled, call,
                 disk, others>>

\* consumers_changed(): recompute_wants_frames() first reads every active() ...
WorkerAny(from, to) ==
  /\ wpc = from /\ wpc' = to
  /\ wany' = active
  /\ UNCHANGED <<shared, rpc, ret, fatal, fin, disk, others>>

StartAny == WorkerAny("start_any", "start_gate")

\* ... and then stores what it read.
StartGate ==
  /\ wpc = "start_gate" /\ wpc' = "finish"
  /\ wants_frames' = wany
  /\ UNCHANGED <<dvr_state, recording_armed, queueVars, busy, stalled,
                 recording_fact, call, disk, others>>

-----------------------------------------------------------------------------
(* Worker: handle_access_unit() *)

\* Only a keyframe opens the next file.
OpensFile == rpc.key

\* Not armed, waiting for a keyframe that this is not, or no file open.
AuDiscard ==
  /\ wpc = "au"
  /\ \/ ~recording_armed
     \/ ~queue_overflow /\ pending_open /\ ~OpensFile
     \/ ~queue_overflow /\ ~pending_open /\ ~is_open
  /\ Step("au", "finish")

\* An access unit was dropped on a full queue since the last one: fatal.
AuOverflow ==
  /\ recording_armed /\ queue_overflow
  /\ queue_overflow' = FALSE
  /\ CallFatalFail("au", "finish")
  /\ UNCHANGED <<dvr_state, recording_armed, wants_frames, queue, queue_bytes, busy,
                 stalled, recording_fact, disk, others>>

\* A file is due: open_next_file() finalizes the previous one first.
AuRoll ==
  /\ wpc = "au" /\ recording_armed /\ ~queue_overflow
  /\ pending_open /\ OpensFile /\ wpc' = "open"
  /\ is_open' = FALSE /\ file' = <<>>
  /\ UNCHANGED <<shared, call, pending_open, open_attempts, write_fail_streak,
                 armed_at, others>>

AuWrite ==
  /\ recording_armed /\ ~queue_overflow /\ ~pending_open /\ is_open
  /\ Step("au", "write")

OpenOk ==
  /\ wpc = "open" /\ wpc' = "write"
  /\ is_open' = TRUE /\ pending_open' = FALSE
  /\ open_attempts' = 0 /\ write_fail_streak' = 0
  /\ UNCHANGED <<shared, call, file, armed_at, others>>

OutOfAttempts(n) == n >= MAX_OPEN_ATTEMPTS

\* No name, no file or no muxer; the last permitted attempt is fatal.
OpenFails ==
  /\ "open" \in Faults
  /\ open_attempts' = open_attempts + 1
  /\ \/ OutOfAttempts(open_attempts') /\ CallFatalFail("open", "finish")
     \/ ~OutOfAttempts(open_attempts') /\ wpc = "open" /\ wpc' = "finish"
        /\ UNCHANGED call
  /\ UNCHANGED <<shared, pending_open, is_open, file, write_fail_streak, armed_at,
                 others>>

WriteOutcomes ==
  {"ok"} \cup (IF "write" \in Faults THEN {"sync_failed", "failed"} ELSE {})

\* TsWriter::write_nal(): the failure streak after each outcome.  A write that
\* succeeds may still end in a failed periodic sync, which counts as one failure.
StreakAfter(outcome) ==
  CASE outcome = "ok"          -> 0
    [] outcome = "sync_failed" -> 1
    [] outcome = "failed"      -> write_fail_streak + 1

\* The access unit is muxed; a size or time limit may then ask for the next file,
\* and a run of failures is fatal.
Write ==
  /\ wpc = "write"
  /\ \E outcome \in WriteOutcomes, limitReached \in BOOLEAN :
       /\ file' = Append(file, [n |-> rpc.n, session |-> rpc.session,
                                key |-> rpc.key, ok |-> outcome # "failed"])
       /\ write_fail_streak' = StreakAfter(outcome)
       /\ IF limitReached THEN request_rotate ELSE UNCHANGED pending_open
  /\ \/ /\ write_fail_streak' >= MAX_CONSECUTIVE_WRITE_FAILURES
        /\ CallFatalFail("write", "finish")
     \/ /\ write_fail_streak' < MAX_CONSECUTIVE_WRITE_FAILURES
        /\ wpc' = "finish" /\ UNCHANGED call
  /\ UNCHANGED <<shared, open_attempts, is_open, armed_at, others>>

-----------------------------------------------------------------------------
(* Worker: stop(), fail() and finish_storage_work() *)

StopDisarm ==
  /\ wpc = "stop" /\ wpc' = "stop_any"
  /\ recording_armed' = FALSE /\ pending_open' = FALSE
  /\ UNCHANGED <<dvr_state, wants_frames, queueVars, busy, stalled, recording_fact,
                 call, open_attempts, is_open, file, write_fail_streak, armed_at,
                 others>>

StopAny == WorkerAny("stop_any", "stop_gate")

PublishStopped == recording_fact' = "false"

\* The gate is stored, the overflow forgotten and the fact published.
StopGate ==
  /\ wpc = "stop_gate" /\ wpc' = "stop_cas"
  /\ wants_frames' = wany /\ queue_overflow' = FALSE
  /\ PublishStopped
  /\ UNCHANGED <<dvr_state, recording_armed, queue, queue_bytes, busy, stalled, call,
                 disk, others>>

\* MUTANT: a plain store instead of the exchange.
StoreIdle == dvr_state' = "Idle"

\* Recording becomes Idle; any other state, Disabled above all, is kept.
CasRecordingToIdle ==
  dvr_state' = IF dvr_state = "Recording" THEN "Idle" ELSE dvr_state

StopCas ==
  /\ wpc = "stop_cas" /\ wpc' = "finalize"
  /\ CasRecordingToIdle
  /\ UNCHANGED <<recording_armed, wants_frames, queueVars, busy, stalled,
                 recording_fact, call, disk, others>>

\* finalize_current_file(), and the return from stop().
Finalize ==
  /\ wpc = "finalize" /\ wpc' = IF fatal THEN "latch" ELSE ret
  /\ is_open' = FALSE /\ file' = <<>>
  /\ UNCHANGED <<shared, call, pending_open, open_attempts, write_fail_streak,
                 armed_at, others>>

\* The end of a fatal fail().
Latch ==
  /\ wpc = "latch" /\ wpc' = ret
  /\ dvr_state' = "Disabled" /\ fatal' = FALSE
  /\ UNCHANGED <<recording_armed, wants_frames, queueVars, busy, stalled,
                 recording_fact, rpc, ret, fin, wany, disk, others>>

\* finish_storage_work(): the work is over ...
FinishIdle ==
  /\ wpc = "finish" /\ wpc' = "finish_stalled"
  /\ busy' = FALSE
  /\ UNCHANGED <<dvr_state, recording_armed, wants_frames, queueVars, stalled,
                 recording_fact, call, disk, others>>

AfterBreak == IF fin = "clear" THEN "clear" ELSE "end"

\* ... and if a stall was declared meanwhile, stop() tidies up before leaving.
FinishStalled ==
  /\ stalled /\ stalled' = FALSE
  /\ CallStop("finish_stalled", FALSE, AfterBreak)
  /\ UNCHANGED <<dvr_state, recording_armed, wants_frames, queueVars, busy,
                 recording_fact, disk, others>>

FinishNotStalled ==
  /\ ~stalled
  /\ Step("finish_stalled", IF fin = "loop" THEN "finish_disabled" ELSE AfterBreak)

\* MUTANT: Disabled does not end the loop.
LoopForever == "wait"

AfterWork == IF disabled THEN "end" ELSE "wait"

\* Back to the top of the loop, unless Disabled; the iteration's locals end.
FinishLoop ==
  /\ wpc = "finish_disabled" /\ wpc' = AfterWork
  /\ rpc' = NoRpc /\ ret' = "finish" /\ wany' = FALSE
  /\ UNCHANGED <<shared, fatal, fin, disk, others>>

\* MUTANT: an armed recording is not stopped on the way out.
EndLeaves == wpc' = "finish" /\ UNCHANGED <<fatal, ret>>

EndStops ==
  IF recording_armed THEN wpc' = "stop" /\ fatal' = FALSE /\ ret' = "finish"
                     ELSE wpc' = "finish" /\ UNCHANGED <<fatal, ret>>

\* The label end: stop what is armed, then finish_storage_work() once more ...
End ==
  /\ wpc = "end" /\ fin' = "clear" /\ EndStops
  /\ UNCHANGED <<shared, rpc, wany, disk, others>>

\* ... and empty the queue.
Clear ==
  /\ wpc = "clear" /\ wpc' = "done"
  /\ queue' = <<>> /\ queue_bytes' = 0 /\ queue_overflow' = FALSE
  /\ rpc' = NoRpc
  /\ UNCHANGED <<dvr_state, recording_armed, wants_frames, busy, stalled,
                 recording_fact, ret, fatal, fin, wany, disk, others>>

-----------------------------------------------------------------------------
(* Encoder thread *)

\* A step of the encoder thread that only moves on.
EStep(from, to) ==
  /\ epc = from /\ epc' = to
  /\ UNCHANGED <<shared, worker, eany, tasks, session, fresh, callers, bounds>>

EnqueueRpc(command) ==
  /\ queue' = Append(queue, [command |-> command])
  /\ UNCHANGED <<dvr_state, recording_armed, wants_frames, queue_bytes,
                 queue_overflow, busy, stalled, recording_fact, worker>>

\* A posted RUN task: the pending access units were drained (EmitAu steps), the
\* rpc joins the DVR's queue; the loop then recomputes the gate.
RunTask ==
  /\ epc = "idle" /\ tasks # <<>> /\ Head(tasks) # "QUIT" /\ epc' = "any"
  /\ EnqueueRpc(Head(tasks)) /\ tasks' = Tail(tasks)
  /\ UNCHANGED <<eany, session, fresh, callers, bounds>>

\* recompute_wants_frames() after a RUN or a failure and inside on_tick(): the
\* read ...
EncoderAny ==
  /\ epc \in {"any", "tick_any"}
  /\ epc' = IF epc = "any" THEN "gate" ELSE "tick_gate"
  /\ eany' = active
  /\ UNCHANGED <<shared, worker, tasks, session, fresh, callers, bounds>>

\* ... and the store.
EncoderGate ==
  /\ epc \in {"gate", "tick_gate"}
  /\ epc' = IF epc = "gate" THEN "idle" ELSE "tick_drop"
  /\ wants_frames' = eany /\ eany' = FALSE
  /\ UNCHANGED <<dvr_state, recording_armed, queueVars, busy, stalled,
                 recording_fact, worker, tasks, session, fresh, callers, bounds>>

\* MUTANT: an access unit dropped on a full queue leaves no trace.
DropSilently == UNCHANGED queue_overflow

DropOnFullQueue == queue_overflow' = TRUE

\* on_access_unit(): taken when armed, unless the queue is full.
on_access_unit(au) ==
  \/ /\ recording_armed /\ queue_bytes + au.len <= MAX_QUEUE_BYTES
     /\ queue' = Append(queue, au) /\ queue_bytes' = queue_bytes + au.len
     /\ UNCHANGED queue_overflow
  \/ /\ recording_armed /\ queue_bytes + au.len > MAX_QUEUE_BYTES
     /\ DropOnFullQueue /\ UNCHANGED <<queue, queue_bytes>>
  \/ ~recording_armed /\ UNCHANGED queueVars

\* emit(): one access unit of the session, whose first is a keyframe.
EmitAu ==
  /\ epc \in {"idle", "frame", "teardown"} /\ session > 0 /\ aus < MaxAUs
  /\ aus' = aus + 1 /\ fresh' = FALSE
  /\ \E len \in AuLens, key \in BOOLEAN :
       /\ fresh => key
       /\ on_access_unit([command |-> "AU", n |-> aus', len |-> len,
                          session |-> session, key |-> key])
  /\ UNCHANGED <<dvr_state, recording_armed, wants_frames, busy, stalled,
                 recording_fact, worker, epc, eany, tasks, session, callers,
                 commands, events>>

\* A FRAME task that passed the gate; what it can do to the DVR follows.
FrameTask == wants_frames /\ EStep("idle", "frame")
FrameDone == EStep("frame", "idle")

\* ensure_encoder() built a new session: on_encoder_reset() queues RPC_ROTATE.
EncoderReset ==
  /\ epc = "frame" /\ events < MaxEncoderEvents /\ events' = events + 1
  /\ session' = session + 1 /\ fresh' = TRUE
  /\ EnqueueRpc("ROTATE")
  /\ UNCHANGED <<epc, eany, tasks, callers, aus, commands>>

\* The encoder gave up: on_encoder_failed() queues RPC_FAIL, then the gate.
EncoderFailed ==
  /\ "encoder" \in Faults
  /\ epc = "frame" /\ events < MaxEncoderEvents /\ events' = events + 1
  /\ EnqueueRpc("FAIL") /\ epc' = "any"
  /\ UNCHANGED <<eany, tasks, session, fresh, callers, aus, commands>>

\* on_tick() read a busy_since_ms_ that is too old, then a state not Disabled.
TickStuck == "stall" \in Faults /\ busy /\ EStep("idle", "tick")

\* MUTANT: only a recording is watched.
TickArmed == EStep("tick", IF disabled \/ ~recording_armed THEN "idle" ELSE "tick_stall")

TickDisabled == EStep("tick", IF disabled THEN "idle" ELSE "tick_stall")

\* MUTANT: the stall is not left for the worker to see.
StallUnflagged == UNCHANGED stalled /\ epc' = "tick_latch"

\* stalled_.exchange(true): only the first to set it goes on.
ExchangeStalled == stalled' = TRUE /\ epc' = IF stalled THEN "idle" ELSE "tick_latch"

TickStall ==
  /\ epc = "tick_stall" /\ ExchangeStalled
  /\ UNCHANGED <<dvr_state, recording_armed, wants_frames, queueVars, busy,
                 recording_fact, worker, eany, tasks, session, fresh, callers,
                 bounds>>

TickLatch ==
  /\ epc = "tick_latch" /\ epc' = "tick_disarm"
  /\ dvr_state' = "Disabled"
  /\ UNCHANGED <<recording_armed, wants_frames, queueVars, busy, stalled,
                 recording_fact, worker, eany, tasks, session, fresh, callers,
                 bounds>>

TickDisarm ==
  /\ epc = "tick_disarm" /\ epc' = "tick_any"
  /\ recording_armed' = FALSE
  /\ UNCHANGED <<dvr_state, wants_frames, queueVars, busy, stalled, recording_fact,
                 worker, eany, tasks, session, fresh, callers, bounds>>

\* MUTANT: the byte count survives the wipe.
WipeKeepsBytes ==
  queue' = Commands(queue) /\ UNCHANGED queue_bytes /\ queue_overflow' = FALSE

\* The queued access units are dropped, the commands kept.
WipeQueue == queue' = Commands(queue) /\ queue_bytes' = 0 /\ queue_overflow' = FALSE

TickDrop ==
  /\ epc = "tick_drop" /\ epc' = "idle"
  /\ WipeQueue
  /\ recording_fact' = "false"
  /\ UNCHANGED <<dvr_state, recording_armed, wants_frames, busy, stalled, worker,
                 eany, tasks, session, fresh, callers, bounds>>

\* The encoder's own SHUTDOWN task: teardown() flushes the last access units.
EncoderQuit ==
  /\ epc = "idle" /\ tasks # <<>> /\ Head(tasks) = "QUIT" /\ epc' = "teardown"
  /\ tasks' = Tail(tasks)
  /\ UNCHANGED <<shared, worker, eany, session, fresh, callers, bounds>>

EncoderDone == EStep("teardown", "done")

-----------------------------------------------------------------------------
(* Callers on the main and display threads *)

\* VideoEncoder::post().
Post(command) ==
  tasks' = Append(tasks, command) /\ UNCHANGED <<shared, worker, epc, eany, session, fresh>>

\* start_recording() on main, at startup, and toggle_recording() on the display
\* thread: refused once Disabled, else posted to the encoder thread.
start_recording ==
  /\ main = "run" /\ ~disabled /\ main' = "start"
  /\ commands < MaxCommands /\ commands' = commands + 1
  /\ UNCHANGED <<shared, worker, encoder, display, aus, events>>

toggle_recording ==
  /\ display = "run" /\ ~disabled /\ display' = "toggle"
  /\ commands < MaxCommands /\ commands' = commands + 1
  /\ UNCHANGED <<shared, worker, encoder, main, aus, events>>

\* The second half of a call that reads or changes dvr_state first and then posts.
MainPost(from, command, to) ==
  main = from /\ main' = to /\ Post(command) /\ UNCHANGED <<display, bounds>>

DisplayPost(from, command) ==
  display = from /\ display' = "run" /\ Post(command) /\ UNCHANGED <<main, bounds>>

start_recording_post == MainPost("start", "START", "run")
toggle_recording_post == DisplayPost("toggle", "TOGGLE")

onlyState == <<recording_armed, wants_frames, queueVars, busy, stalled,
               recording_fact, worker, encoder>>

stop_recording ==
  /\ main = "run" /\ main' = "stop"
  /\ commands < MaxCommands /\ commands' = commands + 1
  /\ CasRecordingToIdle
  /\ UNCHANGED <<onlyState, display, aus, events>>

stop_recording_post == MainPost("stop", "STOP", "run")

\* disable(): the display thread latches Disabled; only the first to do so posts.
disable ==
  /\ display = "run" /\ ~disabled /\ display' = "disable"
  /\ commands < MaxCommands /\ commands' = commands + 1
  /\ dvr_state' = "Disabled"
  /\ UNCHANGED <<onlyState, main, aus, events>>

disable_post == DisplayPost("disable", "DISABLE")

DisplayExit ==
  /\ display = "run" /\ display' = "gone"
  /\ UNCHANGED <<shared, worker, encoder, main, bounds>>

\* main joined the display thread: shutdown() of the DVR, then of the encoder.
shutdown ==
  /\ main = "run" /\ display = "gone" /\ main' = "shutdown"
  /\ CasRecordingToIdle
  /\ UNCHANGED <<onlyState, display, bounds>>

shutdown_post == MainPost("shutdown", "SHUTDOWN", "quit")
encoder_shutdown == MainPost("quit", "QUIT", "joining")

-----------------------------------------------------------------------------
(* The specification *)

WorkerNext ==
  \/ LoopPop \/ LoopTimeout
  \/ StatusOk \/ StatusLost \/ StatusLow
  \/ DispatchDisabled \/ DispatchAu \/ DispatchStart \/ DispatchStop
  \/ DispatchDisable \/ DispatchRotate \/ DispatchFail \/ DispatchIgnored
  \/ DispatchShutdown
  \/ StartRefused \/ StartRecording \/ StartArm \/ StartFact \/ StartAny
  \/ StartGate
  \/ AuDiscard \/ AuOverflow \/ AuRoll \/ AuWrite \/ OpenOk \/ OpenFails \/ Write
  \/ StopDisarm \/ StopAny \/ StopGate \/ StopCas \/ Finalize \/ Latch
  \/ FinishIdle \/ FinishStalled \/ FinishNotStalled \/ FinishLoop
  \/ End \/ Clear

TickNext ==
  \/ TickStuck \/ TickDisabled \/ TickStall \/ TickLatch \/ TickDisarm \/ TickDrop

EncoderNext ==
  \/ RunTask \/ EncoderAny \/ EncoderGate \/ EmitAu \/ FrameTask \/ FrameDone
  \/ EncoderReset \/ EncoderFailed \/ TickNext \/ EncoderQuit \/ EncoderDone

CallerNext ==
  \/ start_recording \/ start_recording_post \/ toggle_recording \/ toggle_recording_post
  \/ stop_recording \/ stop_recording_post
  \/ disable \/ disable_post \/ DisplayExit
  \/ shutdown \/ shutdown_post \/ encoder_shutdown

\* Every thread has returned and main's joins succeed.
Terminated == wpc = "done" /\ epc = "done" /\ UNCHANGED vars

Next == WorkerNext \/ EncoderNext \/ CallerNext \/ Terminated

Spec == Init /\ [][Next]_vars

\* The encoder thread runs; its queue is a FIFO, so frames never starve a task.
\* on_tick() runs on every iteration, so a stuck stamp is eventually seen.
EncoderFairness ==
  /\ WF_vars(EncoderAny \/ EncoderGate \/ FrameDone \/ EncoderDone)
  /\ SF_vars(RunTask) /\ SF_vars(EncoderQuit)
  /\ SF_vars(TickStuck)
  /\ WF_vars(TickDisabled \/ TickStall \/ TickLatch \/ TickDisarm \/ TickDrop)

\* A caller inside a call returns from it; none has to make one.
CallerFairness ==
  WF_vars(start_recording_post \/ toggle_recording_post \/ stop_recording_post \/ disable_post
          \/ shutdown_post \/ encoder_shutdown)

\* A storage call may hang the worker forever, so nothing is owed of it.
FairSpec == Spec /\ EncoderFairness /\ CallerFairness

\* Every storage call returns, so the worker always runs.
StorageReturns == WF_vars(WorkerNext)

-----------------------------------------------------------------------------
(* Properties *)

MuxedAu == [n : Nat, session : Nat, key : BOOLEAN, ok : BOOLEAN]

FlagsOK ==
  /\ recording_armed \in BOOLEAN /\ wants_frames \in BOOLEAN
  /\ queue_overflow \in BOOLEAN /\ busy \in BOOLEAN /\ stalled \in BOOLEAN
  /\ fatal \in BOOLEAN /\ wany \in BOOLEAN /\ pending_open \in BOOLEAN
  /\ is_open \in BOOLEAN /\ eany \in BOOLEAN /\ fresh \in BOOLEAN

DataOK ==
  /\ dvr_state \in DvrState /\ recording_fact \in {"none", "true", "false"}
  /\ queue \in Seq(Rpc) /\ queue_bytes \in Int
  /\ wpc \in WorkerStep /\ rpc \in Rpc \cup {NoRpc}
  /\ ret \in {"dispatch", "finish", "end", "clear"} /\ fin \in {"loop", "break", "clear"}
  /\ open_attempts \in 0..MAX_OPEN_ATTEMPTS
  /\ write_fail_streak \in 0..MAX_CONSECUTIVE_WRITE_FAILURES
  /\ file \in Seq(MuxedAu) /\ armed_at \in Nat
  /\ epc \in EncoderStep /\ tasks \in Seq(Command \cup {"QUIT"}) /\ session \in Nat
  /\ main \in {"run", "start", "stop", "shutdown", "quit", "joining"}
  /\ display \in {"run", "toggle", "disable", "gone"}
  /\ aus \in Nat /\ commands \in Nat /\ events \in Nat

\* Type correctness, and the failure counters within the limits at which the code
\* gives up (MAX_OPEN_ATTEMPTS, MAX_CONSECUTIVE_WRITE_FAILURES).
TypeOK == FlagsOK /\ DataOK

\* queue_bytes_ is exactly the bytes queued and never above the cap, though the
\* encoder thread adds, the worker subtracts and on_tick() wipes the queue.
QueueBytesExact ==
  queue_bytes = QueuedBytes(queue) /\ queue_bytes <= MAX_QUEUE_BYTES

\* Disabled is a latch: whoever sets it, no racing start(), stop(), shutdown()
\* or late worker ever takes dvr_state out of it (dvr_common.h).
DisabledLatch == [][disabled => disabled']_vars

\* When the worker has returned, by whichever path and whatever the watchdog did
\* meanwhile, the file is closed, nothing is armed, the OSD was not left showing
\* a recording, and no access unit stays queued.
DoneMeansClosed ==
  wpc = "done" =>
    /\ ~is_open /\ ~recording_armed
    /\ dvr_state # "Recording" /\ recording_fact # "true"
    /\ queue_bytes = 0 /\ \A i \in 1..Len(queue) : IsCommand(queue[i])

\* While the worker waits, a file is open only for an armed recording, or with
\* stalled_ set so that finish_storage_work() will close it.
OpenFileOwned == wpc = "wait" /\ is_open => recording_armed \/ stalled

\* Between two pieces of work dvr_state says Recording only of an armed worker.
RecordingIsArmed ==
  wpc = "wait" /\ dvr_state = "Recording" => recording_armed

\* Between two pieces of work, and outside on_tick()'s update, the last published
\* dvr.recording is what recording_armed says.
FactMatchesArmed ==
  wpc = "wait" /\ epc \notin {"tick_any", "tick_gate", "tick_drop"} =>
    ((recording_fact = "true") <=> recording_armed)

\* Whenever the worker waits for its next piece of work, what the parts hold of the
\* recording agrees, though commands, failures and on_tick() change it from three
\* threads: the file that is open, dvr_state, and the fact the OSD shows.
StateAgrees == OpenFileOwned /\ RecordingIsArmed /\ FactMatchesArmed

\* Of the access units emitted since the recording was armed, none is missing
\* inside a file: whatever the queue dropped on overflow, nothing emitted after
\* it reaches the same file.
SegmentContiguous ==
  \A i \in 1 .. Len(file) - 1 :
    file[i].n > armed_at => file[i + 1].n = file[i].n + 1

\* A file never mixes two encoder sessions (two geometries): the RPC_ROTATE of a
\* reset is queued between their access units.
SegmentSingleSession ==
  \A i \in 1 .. Len(file) : file[i].session = file[1].session

\* A file is opened by, and its first access unit is, a keyframe.
OpensOnKeyframe == file # <<>> => file[1].key

\* Once main asked for shutdown, the worker and the encoder thread both return,
\* provided every storage call does.
ShutdownCompletes ==
  StorageReturns => (main = "shutdown" ~> wpc = "done" /\ epc = "done")

\* Once Disabled is latched the worker tidies up and returns (dvr.h:99-102), provided
\* every storage call does.
DisabledStops == StorageReturns => (disabled ~> wpc = "done")

\* A worker that hangs in a storage call is noticed: on_tick() disables the DVR,
\* unless the encoder thread has already shut down.
StallDetected == [](([]busy) => <>(disabled \/ epc = "done"))

(* What comments of the code say and the code does not do: none of these holds of *)
(* Spec (README, section 6).                                                      *)

\* "the rotation seam loses nothing" (dvr.cpp:324-326): while a file is open and
\* the recording is armed, no access unit is discarded.
RotationLosesNothing ==
  [][wpc = "au" /\ recording_armed /\ ~queue_overflow /\ is_open
       => wpc' # "finish"]_vars

\* "every recording - and every rotated segment - opens on an IDR"
\* (dvr.cpp:324-325): the first access unit that is on disk is a keyframe.
SegmentDecodable ==
  LET OnDisk(au) == au.ok
      written == SelectSeq(file, OnDisk)
  IN  written # <<>> => written[1].key

\* "so every recording starts decodable" (dvr.h:129): what follows the keyframe a
\* file opens on is the next access unit, or a keyframe too.
StartsDecodable ==
  Len(file) >= 2 => file[2].key \/ file[2].n = file[1].n + 1

\* "True when at least one consumer is active" (video_encoder.h:43): with every
\* call returned and nothing queued, the gate is what the consumers say.
GateTracksConsumers ==
  /\ wpc = "wait" /\ epc = "idle" /\ queue = <<>> /\ tasks = <<>>
  => (wants_frames <=> active)

=============================================================================
