---------------------------- MODULE PulseBackend ----------------------------
(***************************************************************************)
(* The PulseAudio "simple" backend (backends/pulse.rs): a worker thread    *)
(* that renders or silences one period, hands it to the server with a      *)
(* blocking write, and only then counts it; pause is a flag the worker     *)
(* reads twice per period.  The closure it calls is RenderPath's, which    *)
(* always returns, so here it is one step.                                 *)
(*                                                                         *)
(* The server is external: it takes a period when its buffer has room,     *)
(* plays what it has, and may go away at any time (it does so at the       *)
(* latest after MaxRendered periods that are not silence, the bound of the *)
(* model).                                                                 *)
(***************************************************************************)
EXTENDS StreamHandle

CONSTANTS
  Requests,    \* [rate, channels, buffer] open() is called with
  None,        \* an absent buffer hint
  MaxU32,      \* u32::MAX
  ServerCap,   \* periods the server's buffer holds
  MaxRendered, \* bound: rendered periods the server accepts before it goes away
  MaxToggles   \* bound: changes of the paused flag

ASSUME PulseAssumption ==
  /\ \A req \in Requests : /\ req.rate \in Nat \ {0}
                           /\ req.channels \in Nat \ {0}
                           /\ req.buffer \in (Nat \ {0}) \cup {None}
  /\ None \notin Nat
  /\ MaxU32 \in Nat \ {0}
  /\ ServerCap \in Nat \ {0}
  /\ MaxRendered \in Nat
  /\ MaxToggles \in Nat

VARIABLES
  paused, stop,   \* the two flags the worker polls
  framesPlayed,   \* also the CallbackInfo of the next callback: only the worker adds
  period,         \* period_frames
  attr,           \* the pa_buffer_attr handed to the server, None for NULL
  latencyUsec,    \* latency_usec, in periods
  wk,             \* the worker's position
  buf,            \* the worker's buffer: the period it holds, 0 for silence
  conn,           \* the pa_simple connection: "none", "open" or "freed"
  frees,          \* history: calls of pa_simple_free
  queued,         \* external: periods in the server's buffer
  audible,        \* history: rendered periods the server accepted, silence left out
  calls,          \* history: callbacks
  toggles         \* history: changes of the paused flag

config == <<period, attr>>
server == <<conn, frees, queued>>
history == <<audible, calls, toggles>>
worker == <<framesPlayed, latencyUsec, wk, buf>>
vars == <<handleVars, paused, stop, config, worker, server, history>>

AtMost(x, bound) == IF x < bound THEN x ELSE bound
AtLeast(x, bound) == IF x < bound THEN bound ELSE x

Init ==
  /\ HandleInit
  /\ paused = FALSE /\ stop = FALSE
  /\ period = 0 /\ attr = None
  /\ framesPlayed = 0 /\ latencyUsec = 0
  /\ wk = "unspawned" /\ buf = 0
  /\ conn = "none" /\ frees = 0 /\ queued = 0
  /\ audible = 0 /\ calls = 0 /\ toggles = 0

-----------------------------------------------------------------------------
(* open() *)

DefaultPeriod(rate) == AtLeast(rate \div 50, 64)

BytesPerFrame(req) == 4 * AtMost(req.channels, 8)

(* mutant of MinReq: one default period, whatever the buffer was asked to be *)
UncappedMinReq(periodBytes, bytes) == AtMost(periodBytes, MaxU32)
MinReq(periodBytes, bytes) == AtMost(AtMost(periodBytes, AtLeast(bytes, 1)), MaxU32)

(* make_buffer_attr: the products are taken in u64, the fields saturate *)
MakeBufferAttr(frames, rate, bpf) ==
  [tlength |-> AtMost(frames * bpf, MaxU32),
   minreq  |-> MinReq(DefaultPeriod(rate) * bpf, frames * bpf)]

WorkerPeriod(req) ==
  IF req.buffer = None THEN DefaultPeriod(req.rate) ELSE AtLeast(req.buffer, 64)

OpenOk(req) ==
  /\ ctl = "new"
  /\ StreamNew
  /\ attr' = IF req.buffer = None THEN None
             ELSE MakeBufferAttr(req.buffer, req.rate, BytesPerFrame(req))
  /\ period' = WorkerPeriod(req)
  /\ conn' = "open"
  /\ wk' = "top"
  /\ UNCHANGED <<paused, stop, framesPlayed, latencyUsec, buf, frees, queued, history>>

(* the library, the device name or the connection is refused *)
ConnectFails ==
  /\ OpenFailed
  /\ UNCHANGED <<paused, stop, config, worker, server, history>>

(* the worker cannot be spawned: the connection is freed before the error *)
SpawnFails ==
  /\ OpenFailed
  /\ conn' = "freed" /\ frees' = 1
  /\ UNCHANGED <<paused, stop, config, worker, queued, history>>

-----------------------------------------------------------------------------
(* The control thread *)

SetPaused(value) ==
  /\ toggles < MaxToggles
  /\ paused' = value
  /\ toggles' = IF paused = value THEN toggles ELSE toggles + 1
  /\ UNCHANGED <<stop, config, worker, server, audible, calls>>

Play == PlayOk /\ SetPaused(FALSE)

Pause == PauseOk /\ SetPaused(TRUE)

Stop ==
  /\ StopCall("signal")
  /\ UNCHANGED <<paused, stop, config, worker, server, history>>

Drop ==
  /\ DropCall("signal")
  /\ UNCHANGED <<paused, stop, config, worker, server, history>>

SignalStop ==
  /\ At("signal", "join")
  /\ stop' = TRUE
  /\ UNCHANGED <<paused, config, worker, server, history>>

(* mutant of Joined: the connection is freed without waiting for the worker *)
DetachedWorker == TRUE
Joined == wk = "exited"

Join ==
  /\ Joined
  /\ At("join", "free")
  /\ UNCHANGED <<paused, stop, config, worker, server, history>>

FlushAndFree ==
  /\ ctl = "free"
  /\ StopReturned
  /\ conn' = "freed" /\ frees' = frees + 1
  /\ queued' = 0
  /\ UNCHANGED <<paused, stop, config, worker, history>>

StopSteps == SignalStop \/ Join \/ FlushAndFree \/ (ctl = "drop" /\ Drop)

-----------------------------------------------------------------------------
(* The worker *)

Go(from, to) == wk = from /\ wk' = to

(* mutant of LoopOver: the flag is not looked at while paused *)
LoopOverPlaying == stop /\ ~paused
LoopOver == stop

TestStop ==
  /\ Go("top", IF LoopOver THEN "exited" ELSE "check")
  /\ UNCHANGED <<handleVars, paused, stop, config, framesPlayed, latencyUsec, buf,
                 server, history>>

(* mutant of Zeroed: the buffer still holds the last period rendered *)
NotZeroed == buf
Zeroed == 0

Silence ==
  /\ paused
  /\ Go("check", "write")
  /\ buf' = Zeroed
  /\ UNCHANGED <<handleVars, paused, stop, config, framesPlayed, latencyUsec,
                 server, history>>

(* mutant of MayRender: pause is not looked at *)
RendersAnyway == TRUE
MayRender == ~paused

Commit ==
  /\ MayRender
  /\ Go("check", "render")
  /\ UNCHANGED <<handleVars, paused, stop, config, framesPlayed, latencyUsec, buf,
                 server, history>>

Callback ==
  /\ Go("render", "write")
  /\ calls' = calls + 1
  /\ buf' = calls'
  /\ UNCHANGED <<handleVars, paused, stop, config, framesPlayed, latencyUsec,
                 server, audible, toggles>>

(* pa_simple_write returns once the server has room for the period *)
WriteOk ==
  /\ Go("write", "count")
  /\ queued < ServerCap
  /\ buf = 0 \/ audible < MaxRendered
  /\ queued' = queued + 1
  /\ audible' = IF buf = 0 THEN audible ELSE audible + 1
  /\ UNCHANGED <<handleVars, paused, stop, config, framesPlayed, latencyUsec, buf,
                 conn, frees, calls, toggles>>

(* the server went away: the worker gives up, and nobody is told *)
WriteFails ==
  /\ Go("write", "exited")
  /\ UNCHANGED <<handleVars, paused, stop, config, framesPlayed, latencyUsec, buf,
                 server, history>>

CreditAlways == period   \* mutant of Credit: silence is counted too
Credit == IF paused THEN 0 ELSE period   \* the flag is read a second time

Count ==
  /\ Go("count", "latency")
  /\ framesPlayed' = framesPlayed + Credit
  /\ UNCHANGED <<handleVars, paused, stop, config, latencyUsec, buf, server, history>>

(* pa_simple_get_latency: the server's answer is published unless it is MAX *)
Answers == {latencyUsec, queued}

PublishLatency ==
  /\ Go("latency", "top")
  /\ latencyUsec' \in Answers
  /\ UNCHANGED <<handleVars, paused, stop, config, framesPlayed, buf, server, history>>

Worker ==
  \/ TestStop \/ Silence \/ Commit \/ Callback \/ WriteOk \/ WriteFails
  \/ Count \/ PublishLatency

(* external: the server plays a period *)
ServerPlays ==
  /\ conn = "open"
  /\ queued > 0
  /\ queued' = queued - 1
  /\ UNCHANGED <<handleVars, paused, stop, config, worker, conn, frees, history>>

Next ==
  \/ \E req \in Requests : OpenOk(req)
  \/ ConnectFails \/ SpawnFails
  \/ Play \/ Pause \/ Stop \/ Drop
  \/ SignalStop \/ Join \/ FlushAndFree
  \/ Worker
  \/ ServerPlays

Spec == Init /\ [][Next]_vars

(* The scheduler runs the worker and a control thread inside stop(), and   *)
(* the server plays what it has queued.  Nothing makes it fail a write,    *)
(* except the bound on what it accepts.                                    *)
WorkerRuns ==
  \/ TestStop \/ Silence \/ Commit \/ Callback \/ WriteOk \/ Count \/ PublishLatency
  \/ buf # 0 /\ audible = MaxRendered /\ WriteFails

FairSpec == Spec /\ WF_vars(WorkerRuns) /\ WF_vars(StopSteps) /\ WF_vars(ServerPlays)

-----------------------------------------------------------------------------
TypeOK ==
  /\ HandleTypeOK({"signal", "join", "free"})
  /\ paused \in BOOLEAN /\ stop \in BOOLEAN
  /\ framesPlayed \in Nat /\ period \in Nat /\ latencyUsec \in 0..ServerCap
  /\ attr = None \/ attr \in [tlength : 0..MaxU32, minreq : 0..MaxU32]
  /\ wk \in {"unspawned", "top", "check", "render", "write", "count", "latency", "exited"}
  /\ buf \in Nat
  /\ conn \in {"none", "open", "freed"} /\ frees \in Nat /\ queued \in 0..ServerCap
  /\ audible \in Nat /\ calls \in Nat /\ toggles \in Nat

(* The worker only ever uses a live connection; every path, the failed     *)
(* spawn and stop() followed by drop included, frees it exactly once       *)
(* (PulseStream::stop, open's error path).                                 *)
ConnectionLifetime ==
  /\ wk \notin {"unspawned", "exited"} => conn = "open"
  /\ frees = IF conn = "freed" THEN 1 ELSE 0
  /\ ctl \in {"drop", "gone"} => conn = "freed"
  /\ ctl = "failed" => conn # "open"

(* Each period the callback rendered reaches the server once: pauses       *)
(* neither lose one nor play the buffer's old contents again (run).        *)
EachPeriodHeardOnce == wk = "top" => audible = calls

(* The clock tracks the rendered periods the server took, and each change  *)
(* of the paused flag can make it wrong by one period at most: the flag is *)
(* read before the render and again after the write (run).                 *)
ClockDrift ==
  wk = "top" =>
    LET drift == framesPlayed - period * audible
    IN  -(period * toggles) <= drift /\ drift <= period * toggles

(* The server never sees a refill size above the buffer it is asked for,   *)
(* nor zero, also where a product saturates (make_buffer_attr).            *)
AttrAccepted == attr # None => attr.minreq \in 1..attr.tlength

(* stop() returns: the worker leaves its loop from every position.         *)
StopTerminates == ctl = "signal" ~> ctl = "gone"

(* The stream contract: a pause lets at most the callback the worker has   *)
(* committed to run, and none runs after stop() or drop returned.          *)
Contract == INSTANCE AudioStream WITH
  transport <- Transport,
  late <- (~isPlaying /\ ctl \notin {"new", "failed", "drop", "gone"} /\ wk = "render"),
  clock <- framesPlayed

ImplementsAudioStream == Contract!Spec

(* What CallbackInfo documents, "Monotonic count of frames played on this  *)
(* stream" (format.rs): between two periods no frame the callback rendered *)
(* and the server accepted is missing from the count.  The code does not   *)
(* keep it: a pause() before the second reading of the flag loses one.     *)
ClockCountsPlayed == wk = "top" => period * audible <= framesPlayed
=============================================================================
