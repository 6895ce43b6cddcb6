------------------------- MODULE AlsaBackendProofs -------------------------
(***************************************************************************)
(* What AlsaBackend satisfies for every value of its constants: any period *)
(* and ring buffer sizes, devices that can pause and devices that cannot,  *)
(* underruns, suspensions, recoveries and an unplugging at any moment.     *)
(* IInv is inductive; it implies the three invariants the run checks, and  *)
(* under it every step is a step of AudioStream's lifecycle or a stutter.  *)
(***************************************************************************)
EXTENDS AlsaBackend, TLAPS

(* Where the control thread and the worker can be at the same time.        *)
ControlInv ==
  /\ ctl \in {"new", "failed"} <=> wk = "unspawned"
  /\ ctl \in {"close", "drop", "gone"} => wk = "exited"
  /\ stopped <=> ctl \in {"drop", "gone"}

(* Who has the PCM, and how often it has been closed by then; an underrun  *)
(* has played everything.                                                  *)
PcmInv ==
  /\ ctl = "new" => pcm = "none"
  /\ ctl = "failed" => pcm \in {"none", "closed"}
  /\ ctl \in {"drop", "gone"} => pcm = "closed"
  /\ ctl \notin {"new", "failed", "drop", "gone"} => pcm \notin {"none", "closed"}
  /\ closes = IF pcm = "closed" THEN 1 ELSE 0
  /\ pcm = "xrun" => queued = 0
  /\ wk = "unspawned" => framesPlayed = 0 /\ delayFrames = 0 /\ done = 0
                           /\ queued = 0 /\ heard = 0 /\ lost = 0

(* Frames of the write in progress that the published delay does not know  *)
(* of: those transferred since the worker last asked for it.               *)
Unpublished == IF wk \in {"write", "count", "delay"} THEN done ELSE 0

(* The published delay covers what the ring buffer holds, except for them  *)
(* and for those whose delay could not be read.                            *)
DelayInv ==
  /\ pcm \notin {"gone", "closed"} => queued <= delayFrames + Unpublished + missed
  /\ wk = "recover" => done = 0

IInv == TypeOK /\ ControlInv /\ PcmInv /\ DelayInv /\ ClockIsAccepted

-----------------------------------------------------------------------------
LEMMA InitIInv == Init => IInv
<1> SUFFICES ASSUME Init PROVE IInv
  OBVIOUS
<1> USE AlsaAssumption DEF Init, HandleInit
<1>1. TypeOK
  <2>1. HandleTypeOK({"signal", "join", "close"})
    BY DEF HandleTypeOK
  <2>2. stop \in BOOLEAN /\ canPause \in BOOLEAN
    BY Zenon
  <2>3. QED
    BY <2>1, <2>2 DEF TypeOK
<1>2. ControlInv /\ PcmInv
  BY DEF ControlInv, PcmInv
<1>3. DelayInv /\ ClockIsAccepted
  BY DEF DelayInv, Unpublished, ClockIsAccepted
<1>4. QED
  BY <1>1, <1>2, <1>3 DEF IInv

(* Every step keeps the invariant: one step of the proof per action.       *)
LEMMA StepIInv == IInv /\ [Next]_vars => IInv'
<1> SUFFICES ASSUME IInv, [Next]_vars PROVE IInv'
  OBVIOUS
<1> USE AlsaAssumption
    DEF IInv, TypeOK, HandleTypeOK, ControlInv, PcmInv, DelayInv, Unpublished,
        ClockIsAccepted, handleVars, worker, device
<1>open. ASSUME NEW near \in Periods, OpenOk(near) PROVE IInv'
  <2>1. wk = "unspawned" /\ pcm = "none" /\ closes = 0
    BY <1>open DEF OpenOk
  <2>2. period' \in Nat /\ done' \in 0..period'
    BY <1>open, <2>1 DEF OpenOk
  <2>3. QED
    BY <1>open, <2>1, <2>2 DEF OpenOk, StreamNew
<1>OpenRefused. CASE OpenRefused
  BY <1>OpenRefused DEF OpenRefused, OpenFailed
<1>ConfigureFails. CASE ConfigureFails
  BY <1>ConfigureFails DEF ConfigureFails, OpenFailed
<1>Play. CASE Play
  BY <1>Play DEF Play, PlayOk
<1>Pause. CASE Pause
  <2>1. /\ ctl = "idle" /\ playing' = FALSE /\ UNCHANGED <<stopped, frame, ctl>>
        /\ UNCHANGED <<stop, period, worker, canPause, queued, heard, lost, suspends, closes>>
        /\ pcm' = pcm \/ (pcm = "running" /\ pcm' = "paused")
    BY <1>Pause DEF Pause, PauseOk
  <2>2. TypeOK' /\ ControlInv'
    BY <2>1
  <2>3. PcmInv' /\ DelayInv' /\ ClockIsAccepted'
    BY <2>1
  <2>4. QED
    BY <2>2, <2>3
<1>Stop. CASE Stop
  BY <1>Stop DEF Stop, StopCall
<1>Drop. CASE Drop
  BY <1>Drop DEF Drop, DropCall
<1>SignalStop. CASE SignalStop
  BY <1>SignalStop DEF SignalStop, At
<1>Join. CASE Join
  BY <1>Join DEF Join, Joined, At
<1>DropAndClose. CASE DropAndClose
  BY <1>DropAndClose DEF DropAndClose, StopReturned
<1>TestStop. CASE TestStop
  BY <1>TestStop DEF TestStop, Go
<1>Callback. CASE Callback
  BY <1>Callback DEF Callback, Go
<1>WriteFrame. CASE WriteFrame
  BY <1>WriteFrame DEF WriteFrame, Flowing
<1>WriteReturns. CASE WriteReturns
  BY <1>WriteReturns DEF WriteReturns, Go
<1>WriteFails. CASE WriteFails
  BY <1>WriteFails DEF WriteFails, Go
<1>Recover. CASE Recover
  BY <1>Recover DEF Recover, AfterRecover, Recovers
<1>Count. CASE Count
  BY <1>Count DEF Count, Credit, Go
<1>PublishDelay. CASE PublishDelay
  BY <1>PublishDelay DEF PublishDelay, DelayKnown, Flowing, Go
<1>DevicePlays. CASE DevicePlays
  BY <1>DevicePlays DEF DevicePlays
<1>SystemSuspends. CASE SystemSuspends
  BY <1>SystemSuspends DEF SystemSuspends
<1>Unplugged. CASE Unplugged
  BY <1>Unplugged DEF Unplugged, Flowing
<1>stutter. CASE UNCHANGED vars
  BY <1>stutter DEF vars
<1> QED
  BY <1>open, <1>OpenRefused, <1>ConfigureFails, <1>Play, <1>Pause, <1>Stop, <1>Drop,
     <1>SignalStop, <1>Join, <1>DropAndClose, <1>TestStop, <1>Callback, <1>WriteFrame,
     <1>WriteReturns, <1>WriteFails, <1>Recover, <1>Count, <1>PublishDelay,
     <1>DevicePlays, <1>SystemSuspends, <1>Unplugged, <1>stutter
  DEF Next, Worker

-----------------------------------------------------------------------------
LEMMA Invariance == Spec => []IInv
  BY InitIInv, StepIInv, PTL DEF Spec

(* Every variable keeps its type; the ring buffer never overflows.         *)
THEOREM TypeCorrect == Spec => []TypeOK
<1>1. IInv => TypeOK
  BY DEF IInv
<1>2. QED
  BY <1>1, Invariance, PTL

(* The worker only uses an open PCM, and every exit closes it once.        *)
THEOREM PcmLives == Spec => []PcmLifetime
<1>1. IInv => PcmLifetime
  BY DEF IInv, TypeOK, HandleTypeOK, ControlInv, PcmInv, PcmLifetime
<1>2. QED
  BY <1>1, Invariance, PTL

(* The clock is what the device has played, what it still holds and what a *)
(* suspension lost, across short writes, underruns and recoveries.         *)
THEOREM ClockCountsAccepted == Spec => []ClockIsAccepted
<1>1. IInv => ClockIsAccepted
  BY DEF IInv
<1>2. QED
  BY <1>1, Invariance, PTL

(* Clock minus latency is never ahead of what was heard, except by the     *)
(* write whose delay is about to be published, by what a suspension lost   *)
(* and by the writes whose delay it kept from being read.                  *)
THEOREM PositionIsNotAhead == Spec => []PositionNotAhead
<1>1. IInv => PositionNotAhead
  <2> SUFFICES ASSUME IInv, pcm \notin {"gone", "closed"}
               PROVE  framesPlayed - delayFrames
                        <= heard + (IF wk = "delay" THEN done ELSE 0) + lost + missed
    BY DEF PositionNotAhead
  <2>1. /\ framesPlayed + (IF wk \in {"write", "count"} THEN done ELSE 0)
             = heard + queued + lost
        /\ queued <= delayFrames + Unpublished + missed
    BY DEF IInv, ClockIsAccepted, DelayInv
  <2>2. /\ framesPlayed \in Nat /\ delayFrames \in Nat /\ heard \in Nat /\ queued \in Nat
        /\ lost \in Nat /\ missed \in Nat /\ done \in Nat
    BY AlsaAssumption DEF IInv, TypeOK
  <2>3. QED
    BY <2>1, <2>2 DEF Unpublished
<1>2. QED
  BY <1>1, Invariance, PTL

-----------------------------------------------------------------------------
(* The refinement of AudioStream's lifecycle.                              *)
LEMMA InitRefines == Init => Lifecycle!Init
  BY DEF Init, HandleInit, Lifecycle!Init, Transport, isPlaying

LEMMA StepRefines == IInv /\ [Next]_vars => [Lifecycle!Next]_(Lifecycle!vars)
<1> SUFFICES ASSUME IInv, [Next]_vars PROVE [Lifecycle!Next]_(Lifecycle!vars)
  OBVIOUS
<1> USE DEF IInv, TypeOK, HandleTypeOK, ControlInv, handleVars, worker, device, Transport,
            isPlaying, Lifecycle!vars, Lifecycle!Next, Lifecycle!Live
<1>open. ASSUME NEW near \in Periods, OpenOk(near) PROVE Lifecycle!Open
  BY <1>open DEF OpenOk, StreamNew, Lifecycle!Open
<1>fails. CASE OpenRefused \/ ConfigureFails
  BY <1>fails DEF OpenRefused, ConfigureFails, OpenFailed
<1>play. CASE Play \/ Pause
  BY <1>play DEF Play, PlayOk, Pause, PauseOk
<1>stop. CASE Stop \/ Drop
  BY <1>stop DEF Stop, StopCall, Drop, DropCall
<1>signal. CASE SignalStop \/ Join
  BY <1>signal DEF SignalStop, Join, At
<1>close. CASE DropAndClose
  BY <1>close DEF DropAndClose, StopReturned, Lifecycle!Stop
<1>call. CASE Callback
  BY <1>call DEF Callback, Go, Lifecycle!Callback
<1>count. CASE Count
  BY <1>count DEF Count, Credit, Go, Lifecycle!Tick
<1>quiet. CASE TestStop \/ WriteFrame \/ WriteReturns \/ WriteFails \/ Recover \/ PublishDelay
  BY <1>quiet DEF TestStop, WriteFrame, WriteReturns, WriteFails, Recover, PublishDelay
<1>device. CASE DevicePlays \/ SystemSuspends \/ Unplugged \/ UNCHANGED vars
  BY <1>device DEF DevicePlays, SystemSuspends, Unplugged, vars
<1> QED
  BY <1>open, <1>fails, <1>play, <1>stop, <1>signal, <1>close, <1>call, <1>count, <1>quiet,
     <1>device
  DEF Next, Worker

(* No callback before open() succeeded or after stop() returned, and a     *)
(* clock that never goes back, whatever the PCM does.                      *)
THEOREM Refinement == Spec => ImplementsLifecycle
  BY InitRefines, StepRefines, Invariance, PTL
  DEF Spec, ImplementsLifecycle, Lifecycle!Spec
=============================================================================
