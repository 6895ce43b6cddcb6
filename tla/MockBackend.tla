---------------------------- MODULE MockBackend ----------------------------
(***************************************************************************)
(* The virtual test backend (backends/mock.rs) under the public facade:    *)
(* StreamHandle is the handle, RenderPath the closure around the user's    *)
(* callback, and this module the worker thread, the shared flags and the   *)
(* process-wide capture sink.  It renders the whole pipeline without any   *)
(* hardware, so it is also the reference a hardware backend is compared    *)
(* with.                                                                   *)
(*                                                                         *)
(* One sample stands for one frame.  Other streams on "mock:capture" and   *)
(* the test that drains the sink act on it between any two steps.          *)
(***************************************************************************)
EXTENDS StreamHandle, RenderPath, Sequences, FiniteSets

CONSTANTS
  Requests,     \* StreamRequests open() is called with
  None,         \* an absent buffer hint or device
  CaptureCap,   \* CAPTURE_CAP_SAMPLES
  Slices,       \* 10 ms slices in one period's sleep
  MaxPeriods,   \* bound: periods the worker renders
  MaxForeign    \* bound: samples other streams push into the sink

Devices == {"mock:default", "mock:secondary", "mock:capture"}

ASSUME MockAssumption ==
  /\ \A req \in Requests : req.rate \in Nat /\ req.buffer \in Nat \cup {None}
  /\ None \notin Nat
  /\ CaptureCap \in Nat
  /\ Slices \in Nat
  /\ MaxPeriods \in Nat
  /\ MaxForeign \in Nat

VARIABLES
  run,            \* Shared.playing
  shutdown,       \* Shared.shutdown
  framesPlayed,   \* Shared.frames_played
  period,         \* period_frames
  capture,        \* the stream is bound to "mock:capture"
  wk,             \* the worker's position
  info,           \* CallbackInfo.frames_played of the period being rendered
  remaining,      \* slices left in sleep_responsive
  sink,           \* CAPTURE, a sequence of samples
  calls,          \* history: periods the closure was called for
  lateSlices,     \* history: slices slept since shutdown was set
  drainedAt,      \* history: periods delivered when the sink was last drained
  truncated,      \* history: the cap has dropped samples since then
  foreign         \* counter of ForeignPush, for its bound

flags == <<run, shutdown>>
setup == <<period, capture>>
sinkVars == <<sink, drainedAt, truncated, foreign>>
history == <<calls, lateSlices>>
workerVars == <<framesPlayed, wk, info, remaining>>
vars == <<handleVars, renderVars, flags, setup, workerVars, sinkVars, history>>

Sample == [stream : {"this", "other"}, no : Nat, amp : Nat]

Init ==
  /\ HandleInit
  /\ RenderInit
  /\ run = FALSE /\ shutdown = FALSE
  /\ period = 0 /\ capture = FALSE
  /\ framesPlayed = 0 /\ wk = "unspawned" /\ info = 0 /\ remaining = 0
  /\ sink = <<>> /\ drainedAt = 0 /\ truncated = FALSE /\ foreign = 0
  /\ calls = 0 /\ lateSlices = 0

-----------------------------------------------------------------------------
(* open() *)

(* validate_request: refuses what no backend could ever satisfy *)
Valid(req) == req.rate # 0 /\ req.channels # 0 /\ req.buffer # 0

Resolve(device) == IF device = None THEN "mock:default" ELSE device

PeriodFrames(req) ==
  LET asked == IF req.buffer = None THEN req.rate \div 50 ELSE req.buffer
  IN  IF asked = 0 THEN 1 ELSE asked

OpenOk(req) ==
  /\ ctl = "new"
  /\ Valid(req)
  /\ Resolve(req.device) \in Devices
  /\ StreamNew
  /\ run' = TRUE /\ shutdown' = FALSE
  /\ framesPlayed' = 0
  /\ period' = PeriodFrames(req)
  /\ capture' = (Resolve(req.device) = "mock:capture")
  /\ wk' = "top"
  /\ UNCHANGED <<renderVars, sinkVars, info, remaining, history>>

(* the request is refused, or the worker thread cannot be spawned *)
OpenFails ==
  /\ OpenFailed
  /\ UNCHANGED <<renderVars, flags, setup, workerVars, sinkVars, history>>

-----------------------------------------------------------------------------
(* The control thread *)

Play ==
  /\ PlayOk
  /\ run' = TRUE
  /\ UNCHANGED <<renderVars, shutdown, setup, workerVars, sinkVars, history>>

Pause ==
  /\ PauseOk
  /\ run' = FALSE
  /\ UNCHANGED <<renderVars, shutdown, setup, workerVars, sinkVars, history>>

ChangeVolume(v) ==
  /\ ctl = "idle"
  /\ SetVolume(v)
  /\ UNCHANGED <<handleVars, flags, setup, workerVars, sinkVars, history>>

Stop ==
  /\ StopCall("signal")
  /\ UNCHANGED <<renderVars, flags, setup, workerVars, sinkVars, history>>

Drop ==
  /\ DropCall("signal")
  /\ UNCHANGED <<renderVars, flags, setup, workerVars, sinkVars, history>>

(* MockStream::stop: two stores, then the join *)
SignalShutdown ==
  /\ At("signal", "silence")
  /\ shutdown' = TRUE
  /\ UNCHANGED <<renderVars, run, setup, workerVars, sinkVars, history>>

ClearPlaying ==
  /\ At("silence", "join")
  /\ run' = FALSE
  /\ UNCHANGED <<renderVars, shutdown, setup, workerVars, sinkVars, history>>

(* mutant of Joined: the worker is detached instead of joined *)
DetachedWorker == TRUE
Joined == wk = "exited"

JoinWorker ==
  /\ ctl = "join"
  /\ Joined
  /\ StopReturned
  /\ UNCHANGED <<renderVars, flags, setup, workerVars, sinkVars, history>>

(* what the control thread runs by itself once in stop() *)
StopSteps == SignalShutdown \/ ClearPlaying \/ JoinWorker \/ (ctl = "drop" /\ Drop)

Control ==
  \/ \E req \in Requests : OpenOk(req)
  \/ OpenFails
  \/ Play \/ Pause \/ Stop \/ Drop
  \/ \E v \in VolumeArgs : ChangeVolume(v)
  \/ SignalShutdown \/ ClearPlaying \/ JoinWorker

-----------------------------------------------------------------------------
(* The worker: run_worker and sleep_responsive *)

Go(from, to) == wk = from /\ wk' = to

(* mutants of LoopOver: the flag is only looked at while playing; the       *)
(* worker does not survive its callback                                    *)
LoopOverPlaying == shutdown /\ run
LoopOverPoisoned == shutdown \/ poisoned
LoopOver == shutdown

TestShutdown ==
  /\ Go("top", IF LoopOver THEN "exited" ELSE "check")
  /\ UNCHANGED <<handleVars, renderVars, flags, setup, framesPlayed, info,
                 remaining, sinkVars, history>>

TestPlaying ==
  /\ \/ /\ run /\ calls < MaxPeriods
        /\ Go("check", "render")
        /\ info' = framesPlayed
        /\ UNCHANGED remaining
     \/ /\ ~run \/ calls = MaxPeriods
        /\ Go("check", "sleep")
        /\ remaining' = Slices
        /\ UNCHANGED info
  /\ UNCHANGED <<handleVars, renderVars, flags, setup, framesPlayed, sinkVars, history>>

CallCallback ==
  /\ wk = "render"
  /\ CallClosure
  /\ calls' = calls + 1
  /\ UNCHANGED <<handleVars, flags, setup, workerVars, sinkVars, lateSlices>>

RunClosure ==
  /\ RenderStep
  /\ UNCHANGED <<handleVars, flags, setup, workerVars, sinkVars, history>>

(* mutant of Captures: playing is read again after the callback *)
CapturesPlaying == capture /\ run
Captures == capture

CallbackReturns ==
  /\ Go("render", IF Captures THEN "push" ELSE "tick")
  /\ ClosureReturns
  /\ UNCHANGED <<handleVars, flags, setup, framesPlayed, info, remaining,
                 sinkVars, history>>

(* push_captured, under the sink's lock: the part of chunk that fits *)
Capped(chunk) ==
  LET room == IF Len(sink) > CaptureCap THEN 0 ELSE CaptureCap - Len(sink)
  IN  SubSeq(chunk, 1, IF room < Len(chunk) THEN room ELSE Len(chunk))

Extend(chunk) ==
  /\ sink' = sink \o Capped(chunk)
  /\ truncated' = (truncated \/ Len(Capped(chunk)) < Len(chunk))
  /\ UNCHANGED drainedAt

PushCaptured ==
  /\ Go("push", "tick")
  /\ Extend([i \in 1..period |-> [stream |-> "this", no |-> calls, amp |-> out]])
  /\ UNCHANGED <<handleVars, renderVars, flags, setup, framesPlayed, info,
                 remaining, foreign, history>>

(* mutant of Credit: playing is read again, so a period that pause()       *)
(* overtook is not counted                                                 *)
CreditPlaying == IF run THEN period ELSE 0
Credit == period

AdvanceClock ==
  /\ Go("tick", "sleep")
  /\ framesPlayed' = framesPlayed + Credit
  /\ remaining' = Slices
  /\ UNCHANGED <<handleVars, renderVars, flags, setup, info, sinkVars, history>>

(* mutants of SleepOver: one of the two conditions is forgotten *)
SleepOverOnTime == remaining = 0
SleepOverOnShutdown == shutdown
SleepOver == shutdown \/ remaining = 0

TestSleep ==
  /\ Go("sleep", IF SleepOver THEN "top" ELSE "slice")
  /\ UNCHANGED <<handleVars, renderVars, flags, setup, framesPlayed, info,
                 remaining, sinkVars, history>>

SleepSlice ==
  /\ Go("slice", "sleep")
  /\ remaining' = remaining - 1
  /\ lateSlices' = IF shutdown THEN lateSlices + 1 ELSE lateSlices
  /\ UNCHANGED <<handleVars, renderVars, flags, setup, framesPlayed, info,
                 sinkVars, calls>>

Worker ==
  \/ TestShutdown \/ TestPlaying \/ CallCallback \/ RunClosure \/ CallbackReturns
  \/ PushCaptured \/ AdvanceClock \/ TestSleep \/ SleepSlice

-----------------------------------------------------------------------------
(* The rest of the process, on the global sink *)

(* push_captured by another stream on "mock:capture" *)
ForeignPush ==
  /\ foreign < MaxForeign
  /\ foreign' = foreign + 1
  /\ Extend(<<[stream |-> "other", no |-> 0, amp |-> 0]>>)
  /\ UNCHANGED <<handleVars, renderVars, flags, setup, workerVars, history>>

(* a period is in flight from the closure's call to the clock's tick *)
InFlight == (wk = "render" /\ rpos # "out") \/ wk \in {"push", "tick"}

(* periods this stream has handed to the sink *)
Delivered == IF InFlight /\ wk # "tick" THEN calls - 1 ELSE calls

(* take_captured *)
Drain ==
  /\ sink' = <<>>
  /\ drainedAt' = Delivered
  /\ truncated' = FALSE
  /\ UNCHANGED <<handleVars, renderVars, flags, setup, workerVars, foreign, history>>

Next == Control \/ Worker \/ ForeignPush \/ Drain

Spec == Init /\ [][Next]_vars

(* The scheduler runs the worker and a control thread that is inside       *)
(* stop(); the user's callback returns or panics.  Nobody has to make any  *)
(* other call.                                                             *)
FairSpec == Spec /\ WF_vars(Worker) /\ WF_vars(StopSteps)

-----------------------------------------------------------------------------
Positions == {"signal", "silence", "join"}

TypeOK ==
  /\ HandleTypeOK(Positions)
  /\ RenderTypeOK
  /\ run \in BOOLEAN /\ shutdown \in BOOLEAN
  /\ period \in Nat /\ capture \in BOOLEAN
  /\ framesPlayed \in Nat /\ info \in Nat /\ remaining \in Nat
  /\ wk \in {"unspawned", "top", "check", "render", "push", "tick", "sleep",
             "slice", "exited"}
  /\ sink \in Seq(Sample)
  /\ drainedAt \in Nat /\ truncated \in BOOLEAN /\ foreign \in Nat
  /\ calls \in Nat /\ lateSlices \in Nat

(* CallbackInfo::frames_played is exact here: the n-th call is told of     *)
(* n - 1 whole, non-empty periods, whatever pause, play and panics did in  *)
(* between (run_worker's fetch_add; tests/mock_backend.rs, "exactly one    *)
(* period per callback").                                                  *)
ClockExact == rpos # "out" => period > 0 /\ info = period * (calls - 1)

(* The capture sink never outgrows its cap (CAPTURE_CAP_SAMPLES).          *)
SinkBounded == Len(sink) <= CaptureCap

(* how many of the first n samples in the sink are this stream's *)
OwnAmong(n) == Cardinality({i \in 1..n : sink[i].stream = "this"})

(* What a drain returns of this stream is gap-free and in order: every     *)
(* period delivered since the last drain, whole, up to the point where the *)
(* cap cut it, whatever other streams push in between; and the sink never  *)
(* outgrows the cap (push_captured, take_captured).                        *)
CaptureFaithful ==
  /\ SinkBounded
  /\ capture =>
    LET due == period * (Delivered - drainedAt)
        got == OwnAmong(Len(sink))
    IN  /\ got <= due
        /\ truncated \/ got = due
        /\ \A i \in 1..Len(sink) : sink[i].stream = "this" =>
             LET before == sink[i].no - 1 - drainedAt   \* periods captured before its own
             IN  /\ OwnAmong(i) > period * before
                 /\ OwnAmong(i) <= period * (before + 1)

(* stop() waits for the slice being slept, never for the rest of the       *)
(* period (sleep_responsive).                                              *)
PromptStop == lateSlices <= 1

(* stop() and drop return: the worker they join does exit.                 *)
StopTerminates == ctl = "signal" ~> ctl = "gone"

(* A stream left playing renders on, also after its callback panicked.     *)
KeepsRendering == <>[](ctl = "idle" /\ playing) => <>(calls = MaxPeriods)

(* The inductive invariant: where the control thread, the worker and the   *)
(* closure can be at the same time, and what the clock and the sleep       *)
(* counters are worth there.                                               *)
ControlInv ==
  /\ ctl \in {"new", "failed"} <=> wk = "unspawned"
  /\ stopped <=> ctl \in {"drop", "gone"}
  /\ stopped => wk = "exited"
  /\ run => playing

ClockInv ==
  /\ rpos # "out" => wk = "render"
  /\ wk # "unspawned" => period > 0
  /\ wk = "unspawned" => calls = 0
  /\ InFlight => calls > 0
  /\ framesPlayed = period * (IF InFlight THEN calls - 1 ELSE calls)
  /\ wk = "render" => info = framesPlayed

SleepInv ==
  /\ wk = "slice" => remaining > 0 /\ lateSlices = 0
  /\ lateSlices <= 1
  /\ lateSlices > 0 => shutdown /\ wk \in {"sleep", "top", "exited"}

IInv == TypeOK /\ ControlInv /\ ClockInv /\ SleepInv /\ SinkBounded

(* The handle and the worker together keep the crate's stream contract:    *)
(* after is_playing() turns false at most one committed callback runs, and *)
(* none once stop() or drop has returned.                                  *)
Contract == INSTANCE AudioStream WITH
  transport <- Transport,
  late <- (~isPlaying /\ ctl \notin {"new", "failed", "drop", "gone"}
             /\ wk = "render" /\ rpos = "out"),
  clock <- framesPlayed

ImplementsAudioStream == Contract!Spec
=============================================================================
