---------------------------- MODULE AlsaBackend ----------------------------
(***************************************************************************)
(* The ALSA backend (backends/alsa.rs): a worker that renders a period,    *)
(* hands it to a blocking snd_pcm_writei and counts what was taken.  There *)
(* is no paused flag: pause() and play() go to the PCM itself, from the    *)
(* control thread, and their results are ignored.                          *)
(*                                                                         *)
(* The PCM is external, as the code uses it: a first write starts it; a    *)
(* write waits for room, also for ever on a paused PCM; playing the last   *)
(* frame is an underrun, which ends a write short, or with an error if it  *)
(* has transferred nothing; pause is refused unless the device supports it *)
(* and is running.  The system may suspend it while it runs, which also    *)
(* fails the write, and it comes back with or without what it held.  It    *)
(* may be unplugged at any time, and is at the latest once it has taken    *)
(* MaxFrames (the bound).                                                  *)
(***************************************************************************)
EXTENDS StreamHandle

CONSTANTS
  Periods,       \* period sizes hw_params_set_period_size_near may settle on
  PauseSupport,  \* whether the device can pause, a subset of BOOLEAN
  BufferFrames,  \* frames the PCM's ring buffer holds
  MaxFrames,     \* bound: frames the device takes before it is unplugged
  MaxSuspends    \* bound: suspensions

ASSUME AlsaAssumption ==
  /\ Periods \subseteq Nat \ {0}
  /\ PauseSupport \subseteq BOOLEAN
  /\ BufferFrames \in Nat \ {0}
  /\ MaxFrames \in Nat
  /\ MaxSuspends \in Nat

VARIABLES
  stop,          \* the flag the worker polls
  framesPlayed,  \* also the CallbackInfo of the next callback: only the worker adds
  delayFrames,   \* delay_frames: the queue depth latency() reports
  period,        \* period_frames
  wk,            \* the worker's position
  done,          \* frames the write in progress, or the last one, has transferred
  missed,        \* history: frames counted whose delay a suspension kept from being read
  pcm,           \* external: "none", "prepared", "running", "paused", "xrun",
                 \* "suspended", "gone" or "closed"
  canPause,      \* external: the device supports pause
  queued,        \* external: frames in the ring buffer
  heard,         \* history: frames the device has played
  lost,          \* history: frames a suspended device did not keep
  suspends,      \* history: suspensions
  closes,        \* history: calls of snd_pcm_close
  calls          \* history: callbacks

device == <<pcm, canPause, queued, heard, lost, suspends, closes>>
worker == <<framesPlayed, delayFrames, wk, done, missed, calls>>
vars == <<handleVars, stop, period, worker, device>>

Init ==
  /\ HandleInit
  /\ stop = FALSE
  /\ period = 0
  /\ framesPlayed = 0 /\ delayFrames = 0
  /\ wk = "unspawned" /\ done = 0 /\ missed = 0
  /\ pcm = "none" /\ canPause \in PauseSupport /\ queued = 0
  /\ heard = 0 /\ lost = 0 /\ suspends = 0 /\ closes = 0
  /\ calls = 0

-----------------------------------------------------------------------------
(* open_inner() and configure_and_spawn() *)

OpenOk(near) ==
  /\ ctl = "new"
  /\ StreamNew
  /\ period' = near
  /\ pcm' = "prepared"
  /\ wk' = "top"
  /\ UNCHANGED <<stop, framesPlayed, delayFrames, done, missed, calls,
                 canPause, queued, heard, lost, suspends, closes>>

(* the library, the device's name or snd_pcm_open is refused *)
OpenRefused ==
  /\ OpenFailed
  /\ UNCHANGED <<stop, period, worker, device>>

(* mutant of ConfigureFails: configure_and_spawn has closed it already *)
ConfigureFailsTwice ==
  /\ OpenFailed
  /\ pcm' = "closed" /\ closes' = 2
  /\ UNCHANGED <<stop, period, worker, canPause, queued, heard, lost, suspends>>

(* a parameter is refused or the worker cannot be spawned: open_inner      *)
(* closes the PCM                                                          *)
ConfigureFails ==
  /\ OpenFailed
  /\ pcm' = "closed" /\ closes' = 1
  /\ UNCHANGED <<stop, period, worker, canPause, queued, heard, lost, suspends>>

-----------------------------------------------------------------------------
(* The control thread *)

Play ==
  /\ PlayOk
  /\ pcm' = IF pcm = "paused" THEN "running" ELSE pcm
  /\ UNCHANGED <<stop, period, worker, canPause, queued, heard, lost, suspends, closes>>

Pause ==
  /\ PauseOk
  /\ pcm' = IF pcm = "running" /\ canPause THEN "paused" ELSE pcm
  /\ UNCHANGED <<stop, period, worker, canPause, queued, heard, lost, suspends, closes>>

Stop ==
  /\ StopCall("signal")
  /\ UNCHANGED <<stop, period, worker, device>>

Drop ==
  /\ DropCall("signal")
  /\ UNCHANGED <<stop, period, worker, device>>

SignalStop ==
  /\ At("signal", "join")
  /\ stop' = TRUE
  /\ UNCHANGED <<period, worker, device>>

(* mutant of Joined: the PCM is closed under the worker *)
DetachedWorker == TRUE
Joined == wk = "exited"

Join ==
  /\ Joined
  /\ At("join", "close")
  /\ UNCHANGED <<stop, period, worker, device>>

DropAndClose ==
  /\ ctl = "close"
  /\ StopReturned
  /\ pcm' = "closed" /\ closes' = closes + 1
  /\ queued' = 0
  /\ UNCHANGED <<stop, period, worker, canPause, heard, lost, suspends>>

StopSteps == SignalStop \/ Join \/ DropAndClose \/ (ctl = "drop" /\ Drop)

-----------------------------------------------------------------------------
(* The worker: run() *)

Go(from, to) == wk = from /\ wk' = to

TestStop ==
  /\ Go("top", IF stop THEN "exited" ELSE "render")
  /\ UNCHANGED <<handleVars, stop, period, framesPlayed, delayFrames, done, missed, calls,
                 device>>

Callback ==
  /\ Go("render", "write")
  /\ calls' = calls + 1
  /\ done' = 0
  /\ UNCHANGED <<handleVars, stop, period, framesPlayed, delayFrames, missed, device>>

Flowing == pcm \in {"prepared", "running", "paused"}

(* inside snd_pcm_writei: a frame is taken, and starts a prepared PCM *)
WriteFrame ==
  /\ wk = "write"
  /\ Flowing
  /\ done < period
  /\ queued < BufferFrames
  /\ heard + queued + lost < MaxFrames
  /\ queued' = queued + 1
  /\ done' = done + 1
  /\ pcm' = IF pcm = "prepared" THEN "running" ELSE pcm
  /\ UNCHANGED <<handleVars, stop, period, framesPlayed, delayFrames, wk, missed, calls,
                 canPause, heard, lost, suspends, closes>>

(* snd_pcm_writei returns the frames taken: all, or those before an error *)
WriteReturns ==
  /\ done = period \/ (~Flowing /\ done > 0)
  /\ Go("write", "count")
  /\ UNCHANGED <<handleVars, stop, period, framesPlayed, delayFrames, done, missed, calls,
                 device>>

WriteFails ==
  /\ ~Flowing /\ done = 0
  /\ Go("write", "recover")
  /\ UNCHANGED <<handleVars, stop, period, framesPlayed, delayFrames, done, missed, calls,
                 device>>

(* mutant of AfterRecover: the lost period is written again, without end   *)
(* on a device that is gone                                                *)
WriteAgain(ok) == "write"
AfterRecover(ok) == IF ok THEN "top" ELSE "exited"

(* snd_pcm_recover: after an underrun the PCM is prepared again; a         *)
(* suspended one is resumed with what it holds, or prepared without it     *)
Recovers ==
  \/ pcm \in {"xrun", "suspended"} /\ pcm' = "prepared" /\ queued' = 0 /\ lost' = lost + queued
  \/ pcm = "suspended" /\ pcm' = "running" /\ UNCHANGED <<queued, lost>>
  \/ pcm \notin {"xrun", "suspended"} /\ UNCHANGED <<pcm, queued, lost>>

(* the period is lost *)
Recover ==
  /\ wk = "recover"
  /\ wk' = AfterRecover(pcm \in {"xrun", "suspended"})
  /\ Recovers
  /\ UNCHANGED <<handleVars, stop, period, framesPlayed, delayFrames, done, missed, calls,
                 canPause, heard, suspends, closes>>

CreditPeriod == period   \* mutant of Credit: a short write counts in full
Credit == done

Count ==
  /\ Go("count", "delay")
  /\ framesPlayed' = framesPlayed + Credit
  /\ UNCHANGED <<handleVars, stop, period, delayFrames, done, missed, calls, device>>

(* mutant of DelayKnown: snd_pcm_delay's result is tested the wrong way    *)
DelayFailed == ~Flowing
DelayKnown == Flowing

PublishDelay ==
  /\ Go("delay", "top")
  /\ delayFrames' = IF DelayKnown THEN queued ELSE delayFrames
  /\ missed' = IF DelayKnown THEN 0 ELSE IF pcm = "suspended" THEN missed + done ELSE missed
  /\ UNCHANGED <<handleVars, stop, period, framesPlayed, done, calls, device>>

Worker ==
  \/ TestStop \/ Callback \/ WriteFrame \/ WriteReturns \/ WriteFails
  \/ Recover \/ Count \/ PublishDelay

-----------------------------------------------------------------------------
(* The device, external *)

DevicePlays ==
  /\ pcm = "running"
  /\ queued > 0
  /\ queued' = queued - 1
  /\ heard' = heard + 1
  /\ pcm' = IF queued = 1 THEN "xrun" ELSE pcm
  /\ UNCHANGED <<handleVars, stop, period, worker, canPause, lost, suspends, closes>>

SystemSuspends ==
  /\ pcm = "running"
  /\ suspends < MaxSuspends
  /\ pcm' = "suspended"
  /\ suspends' = suspends + 1
  /\ UNCHANGED <<handleVars, stop, period, worker, canPause, queued, heard, lost, closes>>

Unplugged ==
  /\ Flowing \/ pcm \in {"xrun", "suspended"}
  /\ pcm' = "gone"
  /\ UNCHANGED <<handleVars, stop, period, worker, canPause, queued, heard, lost, suspends,
                 closes>>

Next ==
  \/ \E near \in Periods : OpenOk(near)
  \/ OpenRefused \/ ConfigureFails
  \/ Play \/ Pause \/ Stop \/ Drop
  \/ SignalStop \/ Join \/ DropAndClose
  \/ Worker
  \/ DevicePlays \/ SystemSuspends \/ Unplugged

Spec == Init /\ [][Next]_vars

(* The scheduler runs the worker and a control thread inside stop(), and a *)
(* running device plays.  Nothing unplugs it, except the bound.            *)
FairSpec ==
  /\ Spec
  /\ WF_vars(Worker) /\ WF_vars(StopSteps) /\ WF_vars(DevicePlays)
  /\ WF_vars(heard + queued + lost = MaxFrames /\ Unplugged)

-----------------------------------------------------------------------------
TypeOK ==
  /\ HandleTypeOK({"signal", "join", "close"})
  /\ stop \in BOOLEAN
  /\ framesPlayed \in Nat /\ delayFrames \in 0..BufferFrames /\ period \in Nat
  /\ wk \in {"unspawned", "top", "render", "write", "recover", "count", "delay", "exited"}
  /\ done \in 0..period /\ missed \in Nat
  /\ pcm \in {"none", "prepared", "running", "paused", "xrun", "suspended", "gone", "closed"}
  /\ canPause \in BOOLEAN /\ queued \in 0..BufferFrames
  /\ heard \in Nat /\ lost \in Nat /\ suspends \in Nat /\ closes \in Nat /\ calls \in Nat

(* The worker only ever uses an open PCM, and every path closes it exactly *)
(* once (open_inner's error path, AlsaStream::stop).                       *)
PcmLifetime ==
  /\ wk \notin {"unspawned", "exited"} => pcm \notin {"none", "closed"}
  /\ closes = IF pcm = "closed" THEN 1 ELSE 0
  /\ ctl \in {"drop", "gone"} => pcm = "closed"
  /\ ctl = "failed" => pcm \in {"none", "closed"}

(* The clock is exactly what the device took, also across short writes,    *)
(* underruns, suspensions and recoveries (run): what it has played, what   *)
(* it still holds and what it lost.                                        *)
ClockIsAccepted ==
  pcm # "closed" =>
    framesPlayed + (IF wk \in {"write", "count"} THEN done ELSE 0) = heard + queued + lost

(* A player that subtracts latency() from the clock, as stream.rs tells    *)
(* it to, is never ahead of what was heard, except between the clock's     *)
(* update and the delay's, and then by that write at most (run); and       *)
(* except for what a suspension lost, and the writes that it kept the      *)
(* delay of from being read.  What an unplugged device held is not heard.  *)
PositionNotAhead ==
  pcm \notin {"gone", "closed"} =>
    framesPlayed - delayFrames
      <= heard + (IF wk = "delay" THEN done ELSE 0) + lost + missed

(* stop() on a PCM that is not paused returns: the worker leaves its loop  *)
(* from every position, underruns and a lost device included.              *)
StopOfUnpausedTerminates == ctl = "signal" /\ pcm # "paused" ~> ctl = "gone"

(* The part of the stream contract ALSA keeps: no callback before open()   *)
(* succeeded or after stop() or drop returned, and a clock that never goes *)
(* back.  Pausing a PCM is not part of it: the worker renders on until the *)
(* buffer is full.                                                         *)
Lifecycle == INSTANCE AudioStream WITH
  transport <- IF Transport = "paused" THEN "playing" ELSE Transport,
  late <- FALSE,
  clock <- framesPlayed

ImplementsLifecycle == Lifecycle!Spec

-----------------------------------------------------------------------------
(* What the documentation says and this backend does not keep.             *)

(* "Dropping the handle stops the stream and frees the device"             *)
(* (stream.rs): from whatever state stop() or drop is called in.  With the *)
(* PCM paused and full, the worker waits in snd_pcm_writei and the join    *)
(* waits for the worker.                                                   *)
StopTerminates == ctl = "signal" ~> ctl = "gone"

(* "Call Stream::pause right after opening if you need to prepare a stream *)
(* ahead of time" (stream.rs): after pause() returned Ok a device that can *)
(* pause is not running.  Before the worker's first write the PCM refuses  *)
(* to pause, the refusal is ignored, and that write starts it.             *)
PauseHolds == ctl = "idle" /\ ~playing /\ canPause => pcm # "running"
=============================================================================
