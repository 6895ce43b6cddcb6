--------------------------- MODULE WasapiBackend ---------------------------
(***************************************************************************)
(* The WASAPI backend (backends/wasapi.rs): open_inner acquires a chain of *)
(* COM objects and handles, each exit releasing what it holds; a worker    *)
(* waits for the engine's event, at most 100 ms, and fills whatever room   *)
(* the shared buffer has, with silence while paused; after each buffer it  *)
(* publishes a latency computed from the engine's clock.                   *)
(*                                                                         *)
(* The engine is external: it moves queued frames into the hardware when   *)
(* it likes, signals its event, may refuse any call, and invalidates the   *)
(* device at the latest once MaxReleased frames were handed over (the      *)
(* bound).                                                                 *)
(***************************************************************************)
EXTENDS StreamHandle

CONSTANTS
  BufferFrames,    \* GetBufferSize
  PipeFrames,      \* external: frames the driver and the hardware hold beyond the buffer
  SampleRate,      \* frames per second
  ClockFrequency,  \* IAudioClock::GetFrequency: units of its position per second
  NoReading,       \* the u64::MAX sentinel of clock_latency_ns
  MaxReleased      \* bound: frames handed over before the device is invalidated

ASSUME WasapiAssumption ==
  /\ BufferFrames \in Nat \ {0}
  /\ PipeFrames \in Nat \ {0}
  /\ SampleRate \in Nat \ {0}
  /\ ClockFrequency \in Nat \ {0}
  /\ NoReading \notin Nat
  /\ MaxReleased \in Nat

VARIABLES
  refs,           \* net acquisitions of each resource
  paused, stop,   \* the two flags the worker polls
  framesPlayed,   \* also the CallbackInfo of the next callback: only the worker adds
  paddingFrames,  \* padding_frames: published queue depth
  clockLatency,   \* clock_latency_ns, in frames, or NoReading
  wk,             \* the worker's position
  avail,          \* frames the worker is filling
  queued,         \* external: frames in the shared buffer
  pipe,           \* external: frames the hardware holds
  position,       \* external: frames heard
  released,       \* history: frames given to WASAPI by ReleaseBuffer
  calls           \* history: callbacks

flags == <<paused, stop>>
worker == <<framesPlayed, paddingFrames, clockLatency, wk, avail, released, calls>>
engine == <<queued, pipe, position>>
vars == <<handleVars, refs, flags, worker, engine>>

Resources == {"com", "client", "wfx", "event", "render", "clock"}

Acquire(got) == [r \in Resources |-> IF r \in got THEN refs[r] + 1 ELSE refs[r]]
Release(lost) == [r \in Resources |-> IF r \in lost THEN refs[r] - 1 ELSE refs[r]]

Init ==
  /\ HandleInit
  /\ refs = [r \in Resources |-> 0]
  /\ paused = FALSE /\ stop = FALSE
  /\ framesPlayed = 0 /\ paddingFrames = 0 /\ clockLatency = NoReading
  /\ wk = "unspawned" /\ avail = 0
  /\ queued = 0 /\ pipe = 0 /\ position = 0 /\ released = 0 /\ calls = 0

-----------------------------------------------------------------------------
(* open_inner(), call by call.  A call that fails ends at "failed"; the    *)
(* failed spawn, whose exit has no clean-up, at "abandoned".               *)

(* RPC_E_CHANGED_MODE is tolerated, and initialises nothing *)
CoInit ==
  /\ At("new", "activate")
  /\ refs' = Acquire({"com"}) \/ refs' = refs
  /\ UNCHANGED <<flags, worker, engine>>

(* what a call adds to, and takes from, the ledger when it succeeds, and   *)
(* what is released before its error is returned                           *)
Step(next, got, freed, undone) ==
  [next |-> next, got |-> got, freed |-> freed, undone |-> undone]

OpenCalls ==
  [activate   |-> Step("format", {"client", "wfx"}, {}, {}),
   format     |-> Step("initialize", {}, {}, {"wfx", "client"}),
   initialize |-> Step("create", {}, {"wfx"}, {"wfx", "client"}),
   create     |-> Step("bind", {"event"}, {}, {"client"}),
   bind       |-> Step("size", {}, {}, {"event", "client"}),
   size       |-> Step("service", {}, {}, {"event", "client"}),
   service    |-> Step("start", {"render"}, {}, {"event", "client"}),
   start      |-> Step("getclock", {}, {}, {"render", "event", "client"})]

OpenPositions == DOMAIN OpenCalls \cup {"getclock", "spawn", "abandoned"}

CallOk(at) ==
  /\ At(at, OpenCalls[at].next)
  /\ refs' = [r \in Resources |-> refs[r] + (IF r \in OpenCalls[at].got THEN 1 ELSE 0)
                                          - (IF r \in OpenCalls[at].freed THEN 1 ELSE 0)]
  /\ UNCHANGED <<flags, worker, engine>>

(* mutant of Undone: the exit after Start forgets the render client *)
UndoneButRender(at) == OpenCalls[at].undone \ {"render"}
Undone(at) == OpenCalls[at].undone

CallFails(at) ==
  /\ At(at, "failed")
  /\ refs' = Release(Undone(at))
  /\ UNCHANGED <<flags, worker, engine>>

(* the clock is optional *)
GetClock ==
  /\ At("getclock", "spawn")
  /\ refs' = Acquire({"clock"}) \/ refs' = refs
  /\ UNCHANGED <<flags, worker, engine>>

Spawn ==
  /\ ctl = "spawn"
  /\ StreamNew
  /\ wk' = "top"
  /\ UNCHANGED <<refs, flags, framesPlayed, paddingFrames, clockLatency, avail, released,
                 calls, engine>>

(* the error of the spawn returns as it is *)
SpawnFails ==
  /\ At("spawn", "abandoned")
  /\ UNCHANGED <<refs, flags, worker, engine>>

Open ==
  \/ CoInit \/ GetClock \/ Spawn \/ SpawnFails
  \/ \E at \in DOMAIN OpenCalls : CallOk(at) \/ CallFails(at)

-----------------------------------------------------------------------------
(* The control thread *)

Play ==
  /\ PlayOk
  /\ paused' = FALSE
  /\ UNCHANGED <<refs, stop, worker, engine>>

Pause ==
  /\ PauseOk
  /\ paused' = TRUE
  /\ UNCHANGED <<refs, stop, worker, engine>>

Stop == StopCall("signal") /\ UNCHANGED <<refs, flags, worker, engine>>

Drop == DropCall("signal") /\ UNCHANGED <<refs, flags, worker, engine>>

SignalStop ==
  /\ At("signal", "wake")
  /\ stop' = TRUE
  /\ UNCHANGED <<refs, paused, worker, engine>>

(* SetEvent: the worker's wait ends at once, instead of at its timeout *)
WakeWorker ==
  /\ At("wake", "join")
  /\ UNCHANGED <<refs, flags, worker, engine>>

(* mutant of Joined: everything is released under the worker *)
DetachedWorker == TRUE
Joined == wk = "exited"

Join ==
  /\ Joined
  /\ At("join", "release")
  /\ UNCHANGED <<refs, flags, worker, engine>>

(* the clock only if there is one; CoUninitialize whatever co_init answered *)
ReleaseAll ==
  /\ ctl = "release"
  /\ StopReturned
  /\ refs' = Release({"render", "client", "event", "com"}
                     \cup (IF refs["clock"] = 1 THEN {"clock"} ELSE {}))
  /\ UNCHANGED <<flags, worker, engine>>

StopSteps == SignalStop \/ WakeWorker \/ Join \/ ReleaseAll \/ (ctl = "drop" /\ Drop)

-----------------------------------------------------------------------------
(* The worker: run() *)

Go(from, to) == wk = from /\ wk' = to

TestStop ==
  /\ Go("top", IF stop THEN "exited" ELSE "wait")
  /\ UNCHANGED <<handleVars, refs, flags, framesPlayed, paddingFrames, clockLatency, avail,
                 released, calls, engine>>

(* WaitForSingleObject: the event or the timeout, whichever comes first; *)
(* both lead on, so the event's state is not kept                        *)
Wake ==
  /\ Go("wait", "padding")
  /\ UNCHANGED <<handleVars, refs, flags, framesPlayed, paddingFrames, clockLatency, avail,
                 released, calls, engine>>

(* mutant of AfterFull: a full buffer is waited for without looking at stop *)
WaitAgain == "wait"
AfterFull == "top"

Room == BufferFrames - queued

GetPadding ==
  /\ Go("padding", IF Room = 0 THEN AfterFull ELSE "buffer")
  /\ paddingFrames' = queued
  /\ avail' = Room
  /\ UNCHANGED <<handleVars, refs, flags, framesPlayed, clockLatency, released, calls,
                 engine>>

GetBuffer ==
  /\ Go("buffer", "check")
  /\ released + avail <= MaxReleased
  /\ UNCHANGED <<handleVars, refs, flags, framesPlayed, paddingFrames, clockLatency, avail,
                 released, calls, engine>>

Silence ==
  /\ paused
  /\ Go("check", "release")
  /\ UNCHANGED <<handleVars, refs, flags, framesPlayed, paddingFrames, clockLatency, avail,
                 released, calls, engine>>

(* mutant of MayRender: pause is not looked at *)
RendersAnyway == TRUE
MayRender == ~paused

Commit ==
  /\ MayRender
  /\ Go("check", "render")
  /\ UNCHANGED <<handleVars, refs, flags, framesPlayed, paddingFrames, clockLatency, avail,
                 released, calls, engine>>

Callback ==
  /\ Go("render", "release")
  /\ calls' = calls + 1
  /\ UNCHANGED <<handleVars, refs, flags, framesPlayed, paddingFrames, clockLatency, avail,
                 released, engine>>

ReleaseBuffer ==
  /\ Go("release", "count")
  /\ queued' = queued + avail
  /\ released' = released + avail
  /\ UNCHANGED <<handleVars, refs, flags, framesPlayed, paddingFrames, clockLatency, avail,
                 calls, pipe, position>>

(* any call the engine refuses ends the worker *)
CallRefused ==
  /\ wk \in {"wait", "padding", "buffer", "release"}
  /\ wk' = "exited"
  /\ UNCHANGED <<handleVars, refs, flags, framesPlayed, paddingFrames, clockLatency, avail,
                 released, calls, engine>>

(* mutant of Credit: the whole buffer is counted, not the room filled *)
CreditBuffer == IF paused THEN 0 ELSE BufferFrames
Credit == IF paused THEN 0 ELSE avail   \* the flag is read a second time

Count ==
  /\ Go("count", "clock")
  /\ framesPlayed' = framesPlayed + Credit
  /\ UNCHANGED <<handleVars, refs, flags, paddingFrames, clockLatency, avail, released,
                 calls, engine>>

(* external: GetPosition answers in whole units of the clock *)
Ticks == (position * ClockFrequency) \div SampleRate

(* compute_clock_latency_ns, in frames: the answer is converted back to    *)
(* frames, rounding down, and the difference saturates                     *)
PosFrames(ticks) == (ticks * SampleRate) \div ClockFrequency

InFlight(framesWritten) ==
  IF framesWritten > PosFrames(Ticks) THEN framesWritten - PosFrames(Ticks) ELSE 0

(* skipped without a clock or a position *)
PublishLatency ==
  /\ Go("clock", "top")
  /\ clockLatency' \in {clockLatency} \cup
       (IF refs["clock"] = 1 THEN {InFlight(framesPlayed)} ELSE {})
  /\ UNCHANGED <<handleVars, refs, flags, framesPlayed, paddingFrames, avail, released,
                 calls, engine>>

Worker ==
  \/ TestStop \/ Wake \/ GetPadding \/ GetBuffer \/ Silence \/ Commit \/ Callback
  \/ ReleaseBuffer \/ Count \/ PublishLatency
  \/ CallRefused

(* external: the engine mixes a frame into the pipe *)
EngineMixes ==
  /\ ctl # "gone"
  /\ queued > 0 /\ pipe < PipeFrames
  /\ queued' = queued - 1
  /\ pipe' = pipe + 1
  /\ UNCHANGED <<handleVars, refs, flags, worker, position>>

(* external: a frame is heard, and the clock advances *)
EndpointPlays ==
  /\ pipe > 0
  /\ pipe' = pipe - 1
  /\ position' = position + 1
  /\ UNCHANGED <<handleVars, refs, flags, worker, queued>>

Next ==
  \/ Open
  \/ Play \/ Pause \/ Stop \/ Drop
  \/ SignalStop \/ WakeWorker \/ Join \/ ReleaseAll
  \/ Worker
  \/ EngineMixes \/ EndpointPlays

Spec == Init /\ [][Next]_vars

(* The scheduler runs the worker and a control thread inside stop(), and a *)
(* wait ends, by its timeout if not by the event.  The engine need not     *)
(* play, and refuses a call only at the bound.                             *)
WorkerRuns ==
  \/ TestStop \/ Wake \/ GetPadding \/ GetBuffer \/ Silence \/ Commit \/ Callback
  \/ ReleaseBuffer \/ Count \/ PublishLatency
  \/ wk = "buffer" /\ released + avail > MaxReleased /\ CallRefused

FairSpec == Spec /\ WF_vars(WorkerRuns) /\ WF_vars(StopSteps)

-----------------------------------------------------------------------------
TypeOK ==
  /\ HandleTypeOK(OpenPositions \cup {"signal", "wake", "join", "release"})
  /\ refs \in [Resources -> Int]
  /\ paused \in BOOLEAN /\ stop \in BOOLEAN
  /\ framesPlayed \in Nat /\ paddingFrames \in 0..BufferFrames
  /\ clockLatency \in Nat \cup {NoReading}
  /\ wk \in {"unspawned", "top", "wait", "padding", "buffer", "check", "render", "release",
             "count", "clock", "exited"}
  /\ avail \in 0..BufferFrames /\ queued \in 0..BufferFrames
  /\ pipe \in 0..PipeFrames
  /\ position \in Nat /\ released \in Nat /\ calls \in Nat

(* The worker only ever uses live objects; stop() gives all of them back,  *)
(* each once; and a call of open_inner that fails, the start of the engine *)
(* included, leaves nothing it had acquired (open_inner,                   *)
(* WasapiStream::stop).  What the failed spawn leaves is not looked at.    *)
(* COM's initialisation is not one of the objects: no error exit ends it.  *)
Objects == Resources \ {"com"}

ObjectLifetime ==
  /\ wk \notin {"unspawned", "exited"} => \A r \in {"client", "event", "render"} : refs[r] = 1
  /\ \A r \in Objects : refs[r] \in {0, 1}
  /\ ctl \in {"failed", "drop", "gone"} => \A r \in Objects : refs[r] = 0

(* The latency the worker derives from its own count and the engine's      *)
(* clock never exceeds what the buffer and the hardware can hold, whatever *)
(* pause and play did to the count, by more than the two roundings of the  *)
(* clock's position can hide (run, compute_clock_latency_ns).              *)
RoundingLoss == (SampleRate + ClockFrequency - 2) \div ClockFrequency

LatencyBounded ==
  clockLatency # NoReading => clockLatency <= BufferFrames + PipeFrames + RoundingLoss

(* stop() returns even if the engine has stopped pulling: "so we notice    *)
(* stop promptly" (run, the wait's timeout).                               *)
StopTerminates == ctl = "signal" ~> ctl = "gone"

(* The stream contract: a pause lets at most the callback the worker has   *)
(* committed to run, and none runs after stop() or drop returned.          *)
Contract == INSTANCE AudioStream WITH
  transport <- IF ctl \in OpenPositions THEN "unopened" ELSE Transport,
  late <- (~isPlaying /\ ctl \in {"idle", "signal", "wake", "join", "release"} /\ wk = "render"),
  clock <- framesPlayed

ImplementsAudioStream == Contract!Spec

-----------------------------------------------------------------------------
(* What the comments say and the code does not keep.                       *)

(* "frames_written - how many sample frames we have given to WASAPI via    *)
(* IAudioRenderClient::ReleaseBuffer" (compute_clock_latency_ns): the      *)
(* argument the worker passes is that number.  The silence of a paused     *)
(* stream is given to WASAPI and not counted.                              *)
WrittenIsReleased == wk = "clock" => framesPlayed = released

(* "Balance the CoInitializeEx we did in open_inner for this thread"       *)
(* (WasapiStream::stop): after stop() the thread's COM count is what it    *)
(* was.  CoUninitialize is called also if CoInitializeEx refused.          *)
ComBalanced == ctl = "gone" => refs["com"] = 0
=============================================================================
