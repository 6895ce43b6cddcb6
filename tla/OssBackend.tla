----------------------------- MODULE OssBackend -----------------------------
(***************************************************************************)
(* The OSS backend (backends/oss.rs): one worker writing to /dev/dsp.      *)
(* Its loop has the shape of PulseBackend's, but a write may take only a   *)
(* part of the period: the clock counts the frames taken, and what was     *)
(* not taken is dropped, never retried.                                    *)
(*                                                                         *)
(* The device is external: it grants a rate of its own, takes frames while *)
(* its buffer has room, plays them one by one, and fails a write when it   *)
(* is interrupted or gone (at the latest after MaxRendered frames that are *)
(* not silence, the bound).                                                *)
(***************************************************************************)
EXTENDS StreamHandle

CONSTANTS
  Hints,       \* buffer_frames open() is called with
  None,        \* an absent hint
  Granted,     \* rates SNDCTL_DSP_SPEED may answer
  MinFrames,   \* the 64-frame floor of a period
  DeviceCap,   \* frames the device's buffer holds
  MaxRendered, \* bound: rendered frames the device takes before it goes away
  MaxToggles   \* bound: changes of the paused flag

ASSUME OssAssumption ==
  /\ Hints \subseteq (Nat \ {0}) \cup {None}
  /\ None \notin Nat
  /\ Granted \subseteq Int
  /\ MinFrames \in Nat \ {0}
  /\ DeviceCap \in Nat \ {0}
  /\ MaxRendered \in Nat
  /\ MaxToggles \in Nat

VARIABLES
  paused, stop,   \* the two flags the worker polls
  framesPlayed,   \* also the CallbackInfo of the next callback: only the worker adds
  period,         \* period_frames
  queuedFrames,   \* queued_frames: the published latency estimate
  wk,             \* the worker's position
  sounding,       \* the worker's buffer holds a rendered period, not silence
  taken,          \* what the last write returned, in frames
  fd,             \* the descriptor: "none", "open" or "closed"
  closes,         \* history: calls of close()
  queued,         \* external: frames in the device's buffer
  audible,        \* history: rendered frames the device took, silence left out
  calls,          \* history: callbacks
  toggles         \* history: changes of the paused flag

device == <<fd, closes, queued>>
history == <<audible, calls, toggles>>
worker == <<framesPlayed, queuedFrames, wk, sounding, taken>>
vars == <<handleVars, paused, stop, period, worker, device, history>>

AtLeast(x, bound) == IF x < bound THEN bound ELSE x

Init ==
  /\ HandleInit
  /\ paused = FALSE /\ stop = FALSE
  /\ period = 0
  /\ framesPlayed = 0 /\ queuedFrames = 0
  /\ wk = "unspawned" /\ sounding = FALSE /\ taken = 0
  /\ fd = "none" /\ closes = 0 /\ queued = 0
  /\ audible = 0 /\ calls = 0 /\ toggles = 0

-----------------------------------------------------------------------------
(* open() and configure_and_spawn() *)

WorkerPeriod(hint, rate) ==
  IF hint = None THEN AtLeast(rate \div 50, MinFrames) ELSE AtLeast(hint, MinFrames)

OpenOk(hint, rate) ==
  /\ ctl = "new"
  /\ rate > 0
  /\ StreamNew
  /\ period' = WorkerPeriod(hint, rate)
  /\ fd' = "open"
  /\ wk' = "top"
  /\ UNCHANGED <<paused, stop, framesPlayed, queuedFrames, sounding, taken, closes,
                 queued, history>>

(* the library, the path or the descriptor is refused *)
OpenRefused ==
  /\ OpenFailed
  /\ UNCHANGED <<paused, stop, period, worker, device, history>>

(* the format, the channels or the rate are refused, or the worker cannot  *)
(* be spawned: open() closes the descriptor                                *)
ConfigureFails ==
  /\ OpenFailed
  /\ fd' = "closed" /\ closes' = 1
  /\ UNCHANGED <<paused, stop, period, worker, queued, history>>

-----------------------------------------------------------------------------
(* The control thread *)

SetPaused(value) ==
  /\ toggles < MaxToggles
  /\ paused' = value
  /\ toggles' = IF paused = value THEN toggles ELSE toggles + 1
  /\ UNCHANGED <<stop, period, worker, device, audible, calls>>

Play == PlayOk /\ SetPaused(FALSE)

Pause == PauseOk /\ SetPaused(TRUE)

Stop ==
  /\ StopCall("signal")
  /\ UNCHANGED <<paused, stop, period, worker, device, history>>

Drop ==
  /\ DropCall("signal")
  /\ UNCHANGED <<paused, stop, period, worker, device, history>>

SignalStop ==
  /\ At("signal", "join")
  /\ stop' = TRUE
  /\ UNCHANGED <<paused, period, worker, device, history>>

(* mutant of Joined: the descriptor is closed under the worker *)
DetachedWorker == TRUE
Joined == wk = "exited"

Join ==
  /\ Joined
  /\ At("join", "close")
  /\ UNCHANGED <<paused, stop, period, worker, device, history>>

(* SNDCTL_DSP_RESET drops what is queued, then close() *)
ResetAndClose ==
  /\ ctl = "close"
  /\ StopReturned
  /\ queued' = 0
  /\ fd' = "closed" /\ closes' = closes + 1
  /\ UNCHANGED <<paused, stop, period, worker, history>>

StopSteps == SignalStop \/ Join \/ ResetAndClose \/ (ctl = "drop" /\ Drop)

-----------------------------------------------------------------------------
(* The worker *)

Go(from, to) == wk = from /\ wk' = to

(* mutant of LoopOver: the flag is not looked at while paused *)
LoopOverPlaying == stop /\ ~paused
LoopOver == stop

TestStop ==
  /\ Go("top", IF LoopOver THEN "exited" ELSE "check")
  /\ UNCHANGED <<handleVars, paused, stop, period, framesPlayed, queuedFrames, sounding,
                 taken, device, history>>

Silence ==
  /\ paused
  /\ Go("check", "write")
  /\ sounding' = FALSE
  /\ UNCHANGED <<handleVars, paused, stop, period, framesPlayed, queuedFrames, taken,
                 device, history>>

(* mutant of MayRender: pause is not looked at *)
RendersAnyway == TRUE
MayRender == ~paused

Commit ==
  /\ MayRender
  /\ Go("check", "render")
  /\ UNCHANGED <<handleVars, paused, stop, period, framesPlayed, queuedFrames, sounding,
                 taken, device, history>>

Callback ==
  /\ Go("render", "write")
  /\ calls' = calls + 1
  /\ sounding' = TRUE
  /\ UNCHANGED <<handleVars, paused, stop, period, framesPlayed, queuedFrames, taken,
                 device, audible, toggles>>

(* write() blocks for room and may then take less than the whole period *)
Write ==
  /\ Go("write", "count")
  /\ \E n \in 1..period :
       /\ queued + n <= DeviceCap
       /\ ~sounding \/ audible + n <= MaxRendered
       /\ taken' = n
       /\ queued' = queued + n
       /\ audible' = IF sounding THEN audible + n ELSE audible
  /\ UNCHANGED <<handleVars, paused, stop, period, framesPlayed, queuedFrames, sounding,
                 fd, closes, calls, toggles>>

(* any error, an interrupted call included, ends the worker *)
WriteFails ==
  /\ Go("write", "exited")
  /\ UNCHANGED <<handleVars, paused, stop, period, framesPlayed, queuedFrames, sounding,
                 taken, device, history>>

(* mutant of Credit: the period is counted, not what the device took of it *)
CreditPeriod == IF paused THEN 0 ELSE period
Credit == IF paused THEN 0 ELSE taken   \* the flag is read a second time

Count ==
  /\ Go("count", "top")
  /\ framesPlayed' = framesPlayed + Credit
  /\ queuedFrames' = period
  /\ UNCHANGED <<handleVars, paused, stop, period, sounding, taken, device, history>>

Worker ==
  TestStop \/ Silence \/ Commit \/ Callback \/ Write \/ WriteFails \/ Count

(* external: the device plays a frame *)
DevicePlays ==
  /\ fd = "open"
  /\ queued > 0
  /\ queued' = queued - 1
  /\ UNCHANGED <<handleVars, paused, stop, period, worker, fd, closes, history>>

Next ==
  \/ \E hint \in Hints, rate \in Granted : OpenOk(hint, rate)
  \/ OpenRefused \/ ConfigureFails
  \/ Play \/ Pause \/ Stop \/ Drop
  \/ SignalStop \/ Join \/ ResetAndClose
  \/ Worker
  \/ DevicePlays

Spec == Init /\ [][Next]_vars

(* The scheduler runs the worker and a control thread inside stop(), and   *)
(* the device plays.  Nothing makes it fail a write, except the bound.     *)
WorkerRuns ==
  \/ TestStop \/ Silence \/ Commit \/ Callback \/ Write \/ Count
  \/ sounding /\ audible = MaxRendered /\ WriteFails

FairSpec == Spec /\ WF_vars(WorkerRuns) /\ WF_vars(StopSteps) /\ WF_vars(DevicePlays)

-----------------------------------------------------------------------------
TypeOK ==
  /\ HandleTypeOK({"signal", "join", "close"})
  /\ paused \in BOOLEAN /\ stop \in BOOLEAN
  /\ framesPlayed \in Nat /\ period \in Nat /\ queuedFrames \in Nat
  /\ wk \in {"unspawned", "top", "check", "render", "write", "count", "exited"}
  /\ sounding \in BOOLEAN /\ taken \in 0..period
  /\ fd \in {"none", "open", "closed"} /\ closes \in Nat /\ queued \in 0..DeviceCap
  /\ audible \in Nat /\ calls \in Nat /\ toggles \in Nat

(* The worker only ever writes to an open descriptor, and every path       *)
(* closes it exactly once (open, configure_and_spawn, OssStream::stop):    *)
(* nobody else's descriptor is written to or closed.                       *)
FdLifetime ==
  /\ wk \notin {"unspawned", "exited"} => fd = "open"
  /\ closes = IF fd = "closed" THEN 1 ELSE 0
  /\ ctl \in {"drop", "gone"} => fd = "closed"
  /\ ctl = "failed" => fd # "open"

(* The clock counts the rendered frames the device took, short writes      *)
(* included, and each change of the paused flag can make it wrong by one   *)
(* period at most (run).                                                   *)
ClockDrift ==
  wk = "top" =>
    LET drift == framesPlayed - audible
    IN  -(period * toggles) <= drift /\ drift <= period * toggles

(* stop() returns: the worker leaves its loop from every position.         *)
StopTerminates == ctl = "signal" ~> ctl = "gone"

(* The stream contract, as in PulseBackend.                                *)
Contract == INSTANCE AudioStream WITH
  transport <- Transport,
  late <- (~isPlaying /\ ctl \notin {"new", "failed", "drop", "gone"} /\ wk = "render"),
  clock <- framesPlayed

ImplementsAudioStream == Contract!Spec
=============================================================================
